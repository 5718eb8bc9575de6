----------------------------- MODULE Bootstrap -----------------------------
(***************************************************************************)
(* SPI bootstrap: rom/bootstrap.c with its drivers (spi_device.c and the   *)
(* data partition part of flash_ctrl.c), the registers of the spi_device   *)
(* hardware they talk to, and a host on the other side of the SPI bus.     *)
(*                                                                         *)
(* The host runs in parallel with the ROM.  An SPI transaction is two      *)
(* steps, its bits and the release of CSB, between which the ROM may run;  *)
(* the ROM's steps are its accesses to the registers the host can change,  *)
(* and its flash transactions.  A reset may come between any two steps.    *)
(*                                                                         *)
(* The host of this module sends anything at any time; that of module      *)
(* BootstrapTool is the tool of this tree.  Addresses are flash word       *)
(* indices.                                                                *)
(***************************************************************************)
EXTENDS Integers, Sequences

CONSTANTS
  WordsPerWindow, WordsPerProgPage, ProgPagesPerPage,
  PagesPerBank,   \* even: a sector is two pages
  Erased,         \* a word of ones
  Mixed,          \* a word programmed twice, or cut off while it was programmed
  Data,           \* other contents of a flash word
  OldFlash,       \* contents of flash before the first reset
  None,
  Commands,       \* commands a host may send
  MaxCommands,    \* bound: number of commands a host sends
  MaxResets,      \* bound: number of resets
  FlashFaults,    \* whether flash transactions may report errors
  WeakErase       \* whether an erase may fail silently

WordsPerPage == WordsPerProgPage * ProgPagesPerPage
WordsPerBank == WordsPerPage * PagesPerBank
MaxAddress   == 2 * WordsPerBank
Words        == 0 .. MaxAddress - 1
Values       == Data \cup {Erased, Mixed}

ASSUME BootstrapAssumption ==
  /\ {WordsPerWindow, WordsPerProgPage, ProgPagesPerPage, PagesPerBank}
       \subseteq Nat \ {0}
  /\ WordsPerProgPage % WordsPerWindow = 0
  /\ PagesPerBank % 2 = 0
  /\ Erased \notin Data /\ Mixed \notin Data /\ Erased # Mixed
  /\ OldFlash \subseteq [Words -> Values]
  /\ {MaxCommands, MaxResets} \subseteq Nat
  /\ {FlashFaults, WeakErase} \subseteq BOOLEAN

VARIABLES
  flash,  \* content of each flash word
  perms,  \* permissions open on the data partition: "bank", "erase", "write"
  rom,    \* the ROM: next step, bootstrap state, command, flash work, error
  spi,    \* spi_device: status copies, FIFOs, interrupt state, transaction
  strap,  \* the bootstrap strap pins
  count   \* bounds: number of commands sent and of resets so far

vars == <<flash, perms, rom, spi, strap, count>>

Ops == {"READ_STATUS", "WREN", "WRDI", "CHIP_ERASE", "SECTOR_ERASE",
        "PAGE_PROGRAM", "RESET", "OTHER"}

Uploaded   == Ops \ {"READ_STATUS", "WREN", "WRDI"}
HasAddress == {"SECTOR_ERASE", "PAGE_PROGRAM"}

\* A command: operation, address (None if none was sent), whether the address
\* is that of a flash word, payload, and whether there was more of it.
Command(op, at, aligned, data, over) ==
  [op |-> op, at |-> at, aligned |-> aligned, data |-> data, over |-> over]

Bare(op) == Command(op, None, TRUE, <<>>, FALSE)

\* The payload buffer has the size of a programming page.
Payloads == {d \in Seq(Data \cup {Erased}) : Len(d) <= WordsPerProgPage}

\* What may come over the bus.
HostCommands == [op : Ops, at : Nat \cup {None}, aligned : BOOLEAN,
                 data : Payloads, over : BOOLEAN]

ASSUME CommandsAssumption ==
  Commands \subseteq {c \in HostCommands : c.op \in Uploaded}

Programmed(x, v) == IF v = Erased THEN x ELSE IF x \in {Erased, v} THEN v ELSE Mixed

-----------------------------------------------------------------------------
(* The registers of spi_device in flash mode.  The status register has three*)
(* copies: staged in the SCK domain, committed when CSB is released, and    *)
(* the one software reads.  A write by software waits for an SCK edge.      *)

NoStatus == [wip |-> FALSE, wel |-> FALSE]

ResetSpi ==
  [on |-> FALSE, txn |-> None, seen |-> FALSE, staged |-> NoStatus,
   committed |-> NoStatus, sys |-> NoStatus, pending |-> 0,
   intr |-> FALSE, overflow |-> FALSE, cmds |-> <<>>, addrs |-> <<>>, data |-> <<>>]

\* Software writes 0 to FLASH_STATUS: into a FIFO of two entries.
StatusCleared(s) == [s EXCEPT !.pending = IF @ = 2 THEN 2 ELSE @ + 1]

\* The SCK edges of a transaction take the writes out of the FIFO.
Popped(s) ==
  IF s.pending = 0 THEN s ELSE [s EXCEPT !.pending = 0, !.staged = NoStatus]

\* The bits of a transaction with command c, up to the release of CSB.
Shifted(s, c) ==
  LET p == [Popped(s) EXCEPT !.txn = c]
  IN  CASE c.op = "READ_STATUS" -> [p EXCEPT !.seen = s.committed.wip]
        [] c.op = "WREN"      -> [p EXCEPT !.staged.wel = TRUE]
        [] c.op = "WRDI"      -> [p EXCEPT !.staged.wel = FALSE]
        [] OTHER              -> [p EXCEPT !.staged.wip = TRUE, !.data = <<>>,
                                           !.cmds = Append(@, c.op)]

\* The release of CSB: the status is committed and copied to software, the
\* payload depth and the interrupt follow.
Released(s) ==
  LET c == s.txn
      d == [s EXCEPT !.txn = None, !.committed = s.staged, !.sys = s.staged]
  IN  IF c.op \notin Uploaded THEN d
      ELSE [d EXCEPT !.addrs = IF c.at = None THEN @
                               ELSE Append(@, [at |-> c.at, aligned |-> c.aligned]),
                     !.data = c.data,
                     !.intr = TRUE,
                     !.overflow = @ \/ c.over]

-----------------------------------------------------------------------------
(* The ROM.  rom.todo holds the calls of flash_ctrl that are left, each a   *)
(* record of its operation, first word and words or data.                   *)

IdleRom == [pc |-> "main", state |-> "Erase", overflow |-> FALSE, cmd |-> Bare("OTHER"),
            todo |-> <<>>, failed |-> FALSE]

\* rom_main() samples the straps, bootstrap() samples them again.
RomMain ==
  /\ rom.pc = "main"
  /\ rom' = [rom EXCEPT !.pc = IF strap THEN "bootstrap" ELSE "boot"]
  /\ UNCHANGED <<flash, perms, spi, strap, count>>

\* spi_device_init(): from here on commands are taken; the status is cleared.
SpiDeviceInit(s) == StatusCleared([s EXCEPT !.on = TRUE])

EnterBootstrap ==
  /\ rom.pc = "bootstrap"
  /\ IF strap
     THEN /\ rom' = [rom EXCEPT !.pc = "poll", !.state = "Erase"]
          /\ spi' = SpiDeviceInit(spi)
     ELSE /\ rom' = [rom EXCEPT !.pc = "shutdown"]
          /\ spi' = spi
  /\ UNCHANGED <<flash, perms, strap, count>>

\* spi_device_cmd_get(): wait for the interrupt, clear all of INTR_STATE, ...
CmdWait ==
  /\ rom.pc = "poll" /\ spi.intr
  /\ rom' = [rom EXCEPT !.pc = "clear", !.overflow = spi.overflow]
  /\ UNCHANGED <<flash, perms, spi, strap, count>>

\* Mutant: INTR_STATE is not cleared.
CmdClearNot ==
  /\ rom.pc = "clear"
  /\ rom' = [rom EXCEPT !.pc = IF rom.overflow THEN "shutdown" ELSE "pop"]
  /\ UNCHANGED <<flash, perms, spi, strap, count>>

\* Mutant: the status register is cleared along with INTR_STATE.
CmdClearStatus ==
  /\ rom.pc = "clear"
  /\ spi' = StatusCleared([spi EXCEPT !.intr = FALSE, !.overflow = FALSE])
  /\ rom' = [rom EXCEPT !.pc = IF rom.overflow THEN "shutdown" ELSE "pop"]
  /\ UNCHANGED <<flash, perms, strap, count>>

CmdClear ==
  /\ rom.pc = "clear"
  /\ spi' = [spi EXCEPT !.intr = FALSE, !.overflow = FALSE]
  /\ rom' = [rom EXCEPT !.pc = IF rom.overflow THEN "shutdown" ELSE "pop"]
  /\ UNCHANGED <<flash, perms, strap, count>>

\* ... read a command and, if there is one, an address, ...
CmdPop ==
  /\ rom.pc = "pop"
  /\ LET op == IF spi.cmds = <<>> THEN "OTHER" ELSE Head(spi.cmds)
         a  == IF spi.addrs = <<>> THEN [at |-> None, aligned |-> TRUE]
               ELSE Head(spi.addrs)
     IN  rom' = [rom EXCEPT !.pc = "payload",
                            !.cmd = Command(op, a.at, a.aligned, <<>>, FALSE)]
  /\ spi' = [spi EXCEPT !.cmds = IF @ = <<>> THEN @ ELSE Tail(@),
                        !.addrs = IF @ = <<>> THEN @ ELSE Tail(@)]
  /\ UNCHANGED <<flash, perms, strap, count>>

\* ... and the payload.
CmdPayload ==
  /\ rom.pc = "payload"
  /\ rom' = [rom EXCEPT !.pc = "dispatch", !.cmd.data = spi.data]
  /\ UNCHANGED <<flash, perms, spi, strap, count>>

EraseCall(first, n) == [op |-> "erase", at |-> first, words |-> n, data |-> <<>>]
WriteCall(at, data) == [op |-> "write", at |-> at, words |-> Len(data), data |-> data]

ChipErase == <<EraseCall(0, WordsPerBank), EraseCall(WordsPerBank, WordsPerBank)>>

\* A sector is two pages; the address is truncated to that of its sector.
SectorErase(at) ==
  LET s == at - (at % (2 * WordsPerPage))
  IN  <<EraseCall(s, WordsPerPage), EraseCall(s + WordsPerPage, WordsPerPage)>>

\* Mutant: the second write goes on behind the programming page.
PageProgramNoWrap(at, data) ==
  LET n == WordsPerProgPage - (at % WordsPerProgPage)
  IN  IF n >= Len(data) \/ at + Len(data) > MaxAddress
      THEN <<WriteCall(at, SubSeq(data, 1, IF n < Len(data) THEN n ELSE Len(data)))>>
      ELSE <<WriteCall(at, SubSeq(data, 1, n)),
             WriteCall(at + n, SubSeq(data, n + 1, Len(data)))>>

\* Two writes if the address is not that of a programming page: up to the end
\* of the page, and the rest from its start.
PageProgram(at, data) ==
  LET o == at % WordsPerProgPage
      n == IF o = 0 THEN 0
           ELSE IF Len(data) < WordsPerProgPage - o THEN Len(data)
           ELSE WordsPerProgPage - o
  IN  (IF n = 0 THEN <<>> ELSE <<WriteCall(at, SubSeq(data, 1, n))>>)
      \o (IF Len(data) = n THEN <<>>
          ELSE <<WriteCall(at - o, SubSeq(data, n + 1, Len(data)))>>)

Wel == spi.sys.wel
EndCommand == [rom EXCEPT !.pc = "poll"]

\* Without WEL a command is ignored, and the status register not cleared.
MayIgnore == ~Wel /\ ~(rom.state = "Program" /\ rom.cmd.op = "RESET")

Ignore ==
  /\ rom.pc = "dispatch" /\ MayIgnore
  /\ rom' = EndCommand
  /\ UNCHANGED <<flash, perms, spi, strap, count>>

\* Commands that do nothing but clear the status register: in the first state
\* all but an erase.
Skip ==
  /\ rom.pc = "dispatch" /\ ~MayIgnore
  /\ \/ rom.state = "Erase" /\ rom.cmd.op \notin {"CHIP_ERASE", "SECTOR_ERASE"}
     \/ rom.state = "Program" /\ rom.cmd.op = "OTHER"
  /\ rom' = EndCommand
  /\ spi' = StatusCleared(spi)
  /\ UNCHANGED <<flash, perms, strap, count>>

WithJob(todo) == [rom EXCEPT !.pc = "work", !.todo = todo, !.failed = FALSE]

\* Any erase command of the first state erases everything.
FirstErase ==
  /\ rom.pc = "dispatch" /\ ~MayIgnore
  /\ rom.state = "Erase" /\ rom.cmd.op \in {"CHIP_ERASE", "SECTOR_ERASE"}
  /\ perms' = {"bank"}
  /\ rom' = WithJob(ChipErase)
  /\ UNCHANGED <<flash, spi, strap, count>>

InRange(a) == a # None /\ a < MaxAddress

\* Mutant: the address of a sector erase is not checked against the size of flash.
GoodCommandUnchecked(c) ==
  CASE c.op = "CHIP_ERASE"   -> TRUE
    [] c.op = "SECTOR_ERASE" -> c.at # None
    [] c.op = "PAGE_PROGRAM" -> InRange(c.at) /\ c.aligned
    [] OTHER                 -> FALSE

GoodCommand(c) ==
  CASE c.op = "CHIP_ERASE"   -> TRUE
    [] c.op = "SECTOR_ERASE" -> InRange(c.at)
    [] c.op = "PAGE_PROGRAM" -> InRange(c.at) /\ c.aligned
    [] OTHER                 -> FALSE

\* bootstrap_handle_program()
StartJob ==
  /\ rom.pc = "dispatch" /\ ~MayIgnore
  /\ rom.state = "Program" /\ GoodCommand(rom.cmd)
  /\ LET c == rom.cmd
     IN  \/ /\ c.op = "CHIP_ERASE"
            /\ perms' = {"bank"} /\ rom' = WithJob(ChipErase)
         \/ /\ c.op = "SECTOR_ERASE"
            /\ perms' = {"erase"} /\ rom' = WithJob(SectorErase(c.at))
         \/ /\ c.op = "PAGE_PROGRAM"
            /\ perms' = {"write"} /\ rom' = WithJob(PageProgram(c.at, c.data))
  /\ UNCHANGED <<flash, spi, strap, count>>

BadAddress ==
  /\ rom.pc = "dispatch" /\ ~MayIgnore
  /\ rom.state = "Program" /\ rom.cmd.op \in HasAddress /\ ~GoodCommand(rom.cmd)
  /\ rom' = [rom EXCEPT !.pc = "shutdown"]
  /\ UNCHANGED <<flash, perms, spi, strap, count>>

(* Flash transactions *)

\* The words of the transaction that the first call of rom.todo does next: all
\* words of an erase, the part of a write up to the end of a window.
Window(c) ==
  LET n == WordsPerWindow - (c.at % WordsPerWindow)
  IN  IF c.op = "erase" \/ c.words < n THEN c.words ELSE n

\* Flash after the first n words of call c, and, if torn, a part of the next.
After(c, n, torn) ==
  [w \in Words |->
     IF w \in c.at .. c.at + n - 1
     THEN IF c.op = "erase" THEN Erased ELSE Programmed(flash[w], c.data[w - c.at + 1])
     ELSE IF torn /\ w = c.at + n THEN Mixed ELSE flash[w]]

\* A transaction that is cut off or fails: a prefix of its words.
CutOff(c) == {After(c, n, torn) : n \in 0 .. Window(c) - 1, torn \in BOOLEAN}

\* What is left of call c after its next transaction.
RestOf(c) ==
  LET n == Window(c)
  IN  IF n = c.words THEN <<>>
      ELSE <<[c EXCEPT !.at = @ + n, !.words = @ - n,
                       !.data = SubSeq(@, n + 1, Len(@))]>>

Transaction ==
  /\ rom.pc = "work" /\ rom.todo # <<>>
  /\ LET c == Head(rom.todo)
     IN  /\ \/ flash' = After(c, Window(c), FALSE)
            \/ WeakErase /\ c.op = "erase" /\ flash' \in CutOff(c)
         /\ rom' = [rom EXCEPT !.todo = RestOf(c) \o Tail(@)]
  /\ UNCHANGED <<perms, spi, strap, count>>

\* Mutant: after an error the function returns at once.
AfterErrorReturn == [rom EXCEPT !.pc = "shutdown"]

\* An error ends the call; the function makes its other calls all the same.
AfterError == [rom EXCEPT !.todo = Tail(@), !.failed = TRUE]

FailedTransaction ==
  /\ FlashFaults
  /\ rom.pc = "work" /\ rom.todo # <<>>
  /\ flash' \in CutOff(Head(rom.todo))
  /\ rom' = AfterError
  /\ UNCHANGED <<perms, spi, strap, count>>

EndJob ==
  /\ rom.pc = "work" /\ rom.todo = <<>>
  /\ perms' = {}
  /\ \/ /\ rom.failed
        /\ rom' = [rom EXCEPT !.pc = "shutdown"] /\ spi' = spi
     \/ /\ ~rom.failed /\ rom.state = "Erase"
        /\ rom' = [rom EXCEPT !.pc = "verify", !.state = "EraseVerify"] /\ spi' = spi
     \/ /\ ~rom.failed /\ rom.state = "Program"
        /\ rom' = EndCommand /\ spi' = StatusCleared(spi)
  /\ UNCHANGED <<flash, strap, count>>

Verified == \A w \in Words : flash[w] = Erased

\* Mutant: the status register is not cleared behind the first erase.
EraseVerifyNoClear ==
  /\ rom.pc = "verify"
  /\ rom' = IF Verified THEN [rom EXCEPT !.pc = "poll", !.state = "Program"]
            ELSE [rom EXCEPT !.pc = "shutdown"]
  /\ UNCHANGED <<flash, perms, spi, strap, count>>

EraseVerify ==
  /\ rom.pc = "verify"
  /\ IF Verified
     THEN /\ rom' = [rom EXCEPT !.pc = "poll", !.state = "Program"]
          /\ spi' = StatusCleared(spi)
     ELSE /\ rom' = [rom EXCEPT !.pc = "shutdown"]
          /\ spi' = spi
  /\ UNCHANGED <<flash, perms, strap, count>>

(* Resets *)

\* The whole chip is reset; a flash transaction may be cut off, and what is
\* left of an SPI transaction has no effect.
ChipReset ==
  /\ \/ flash' = flash
     \/ rom.pc = "work" /\ rom.todo # <<>> /\ flash' \in CutOff(Head(rom.todo))
  /\ perms' = {}
  /\ rom' = IdleRom
  /\ \E b \in BOOLEAN :
       spi' = [ResetSpi EXCEPT !.seen = IF spi.txn = None THEN FALSE ELSE b,
                               !.txn = IF spi.txn = None THEN None ELSE Bare("READ_STATUS")]

\* RESET, in the last state only.
ResetCommand ==
  /\ rom.pc = "dispatch" /\ rom.state = "Program" /\ rom.cmd.op = "RESET"
  /\ ChipReset
  /\ UNCHANGED <<strap, count>>

\* shutdown_finalize() with the error that bootstrap() returned.
Shutdown ==
  /\ rom.pc = "shutdown"
  /\ ChipReset
  /\ UNCHANGED <<strap, count>>

AnyReset ==
  /\ count.resets < MaxResets
  /\ ChipReset
  /\ count' = [count EXCEPT !.resets = @ + 1]
  /\ UNCHANGED strap

RomNext ==
  \/ RomMain \/ EnterBootstrap
  \/ CmdWait \/ CmdClear \/ CmdPop \/ CmdPayload
  \/ Ignore \/ Skip \/ FirstErase \/ StartJob \/ BadAddress \/ ResetCommand
  \/ Transaction \/ FailedTransaction \/ EndJob \/ EraseVerify
  \/ Shutdown

-----------------------------------------------------------------------------
(* The bus and a host *)

\* Before spi_device is set up, a transaction does nothing and reads anything.
Shift(c) ==
  /\ spi.txn = None
  /\ \/ spi.on /\ spi' = Shifted(spi, c)
     \/ ~spi.on /\ \E b \in BOOLEAN :
          spi' = [spi EXCEPT !.txn = Bare("READ_STATUS"), !.seen = b]

\* Software clears the status while the address and payload of a command are
\* shifted in.
LatePop ==
  /\ spi.on /\ spi.txn # None /\ spi.pending > 0
  /\ spi.txn.op \in HasAddress
  /\ spi' = Popped(spi)
  /\ UNCHANGED <<flash, perms, rom, strap, count>>

AnyShift ==
  /\ \E c \in {Bare("READ_STATUS"), Bare("WREN"), Bare("WRDI")} \cup Commands :
       /\ Shift(c)
       /\ c.op \in Uploaded => count.commands < MaxCommands
       /\ count' = [count EXCEPT !.commands = IF c.op \in Uploaded THEN @ + 1 ELSE @]
  /\ UNCHANGED <<flash, perms, rom, strap>>

AnyRelease ==
  /\ spi.txn # None
  /\ spi' = Released(spi)
  /\ UNCHANGED <<flash, perms, rom, strap, count>>

AnyStrap ==
  /\ strap' = ~strap
  /\ UNCHANGED <<flash, perms, rom, spi, count>>

AnyNext == AnyShift \/ AnyRelease \/ AnyStrap \/ AnyReset

Init ==
  /\ flash \in OldFlash
  /\ perms = {}
  /\ rom = IdleRom
  /\ spi = ResetSpi
  /\ strap \in BOOLEAN
  /\ count = [commands |-> 0, resets |-> 0]

Next == RomNext \/ LatePop \/ AnyNext

Spec == Init /\ [][Next]_vars

-----------------------------------------------------------------------------
(* Properties *)

\* Calls of flash_ctrl that stay within the data partition.
Calls ==
  {c \in [op : {"erase", "write"}, at : Words, words : Nat \ {0},
          data : Seq(Data \cup {Erased})] :
     /\ c.at + c.words <= MaxAddress
     /\ c.op = "write" => Len(c.data) = c.words}

\* The variables have the expected values; no call of flash_ctrl leaves the data
\* partition, whatever address and payload a command comes with.
TypeOK ==
  /\ flash \in [Words -> Values]
  /\ perms \in SUBSET {"bank", "erase", "write"}
  /\ rom.pc \in {"main", "boot", "bootstrap", "poll", "clear", "pop", "payload", "dispatch",
                 "work", "verify", "shutdown"}
  /\ rom.state \in {"Erase", "EraseVerify", "Program"}
  /\ rom.cmd.op \in Ops /\ {rom.failed, rom.overflow} \subseteq BOOLEAN
  /\ rom.todo \in Seq(Calls)
  /\ {spi.staged, spi.committed, spi.sys} \subseteq [wip : BOOLEAN, wel : BOOLEAN]
  /\ spi.pending \in 0 .. 2
  /\ spi.cmds \in Seq(Uploaded)

\* spi_device_cmd_get() pops a command only when there is one: each interrupt
\* it takes stands for at least one command that is still in the FIFO, although
\* it clears interrupts of commands that came after it had read INTR_STATE.
PopsACommand == rom.pc = "pop" => spi.cmds # <<>>

\* What makes it so: the FIFO holds a command for the interrupt that was taken,
\* one for the interrupt that is set unless it is about to be cleared, and one
\* for a transaction that has not ended.
Uploading == spi.txn # None /\ spi.txn.op \in Uploaded
CommandsWait ==
  /\ spi.cmds \in Seq(Uploaded) /\ spi.intr \in BOOLEAN
  /\ ~spi.on => ~Uploading /\ ~spi.intr
  /\ Len(spi.cmds) >= (IF rom.pc \in {"clear", "pop"} THEN 1 ELSE 0)
                        + (IF spi.intr /\ rom.pc # "clear" THEN 1 ELSE 0)
                        + (IF Uploading THEN 1 ELSE 0)

\* Flash permissions are open only while the command that needs them is
\* executed, and only those that it needs, after errors too.
PermissionsMatch ==
  perms = IF rom.pc # "work" THEN {}
          ELSE IF rom.state = "Erase" \/ rom.cmd.op = "CHIP_ERASE" THEN {"bank"}
          ELSE IF rom.cmd.op = "SECTOR_ERASE" THEN {"erase"} ELSE {"write"}

\* What a serial NOR flash does for command c, whatever calls of flash_ctrl
\* carry it out: the new contents of the words it names.
SectorOf(a) == {w \in Words : w \div (2 * WordsPerPage) = a \div (2 * WordsPerPage)}

PageOf(a)   == {w \in Words : w \div WordsPerProgPage = a \div WordsPerProgPage}

ProgramEffect(c, mem) ==
  LET index(w) == ((w - c.at) % WordsPerProgPage) + 1
  IN  [w \in {w \in PageOf(c.at) : index(w) \in DOMAIN c.data} |->
         Programmed(mem[w], c.data[index(w)])]

NorEffect(c, mem) ==
  IF c.op = "PAGE_PROGRAM" THEN ProgramEffect(c, mem)
  ELSE [w \in (IF c.op = "CHIP_ERASE" THEN Words ELSE SectorOf(c.at)) |-> Erased]

Effect == IF rom.state = "Program" THEN NorEffect(rom.cmd, flash)
          ELSE NorEffect(Bare("CHIP_ERASE"), flash)

Job ==
  IF rom.pc = "work" THEN [to |-> Effect, ok |-> ~rom.failed]
  ELSE [to |-> [w \in {} |-> Erased], ok |-> TRUE]

Accepts == rom.state = "Program" /\ rom.pc # "shutdown"

B == INSTANCE BootstrapSpec WITH
  mem  <- flash,
  busy <- rom.pc = "work",
  job  <- Job,
  open <- Accepts,
  Reliable <- ~WeakErase

\* Bootstrap implements BootstrapSpec: the calls, windows and wrapped writes of
\* each command add up to the command of a serial NOR flash, on no other word.
NorFlash == B!Spec
=============================================================================
