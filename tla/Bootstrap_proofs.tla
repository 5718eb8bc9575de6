-------------------------- MODULE Bootstrap_proofs --------------------------
(***************************************************************************)
(* Properties of Bootstrap that hold for every host, every flash geometry  *)
(* and any number of commands, resets and flash errors; and that Bootstrap *)
(* implements BootstrapSpec.  For that, the arithmetic of pages, sectors   *)
(* and windows and what the calls of each command reach; then the types,   *)
(* which say that no call leaves the data partition; then the invariant    *)
(* that what a command has done and the calls it still has to make add up  *)
(* to the command; and the refinement.                                     *)
(***************************************************************************)
EXTENDS Bootstrap, SequenceTheorems, TLAPS

(* Fields of spi *)

SpiFields == DOMAIN ResetSpi

\* s has the fields of spi, and its FIFO and interrupt state have their types.
IsSpi(s) ==
  /\ s = [f \in SpiFields |-> s[f]]
  /\ s.staged = [f \in {"wip", "wel"} |-> s.staged[f]]
  /\ s.cmds \in Seq(Uploaded)
  /\ s.intr \in BOOLEAN

LEMMA PoppedFields ==
  ASSUME NEW s, IsSpi(s)
  PROVE  /\ IsSpi(Popped(s))
         /\ Popped(s).cmds = s.cmds /\ Popped(s).intr = s.intr
         /\ Popped(s).on = s.on /\ Popped(s).txn = s.txn
  BY DEF IsSpi, Popped, SpiFields, ResetSpi, NoStatus

LEMMA ClearedFields ==
  ASSUME NEW s, IsSpi(s)
  PROVE  /\ IsSpi(StatusCleared(s))
         /\ StatusCleared(s).cmds = s.cmds /\ StatusCleared(s).intr = s.intr
         /\ StatusCleared(s).on = s.on /\ StatusCleared(s).txn = s.txn
  BY DEF IsSpi, StatusCleared, SpiFields, ResetSpi

LEMMA ShiftedFields ==
  ASSUME NEW s, IsSpi(s), NEW c, c.op \in Ops
  PROVE  LET t == Shifted(s, c)
         IN  /\ IsSpi(t)
             /\ t.intr = s.intr /\ t.on = s.on /\ t.txn = c
             /\ t.cmds = IF c.op \in Uploaded THEN Append(s.cmds, c.op) ELSE s.cmds
<1> DEFINE p == [Popped(s) EXCEPT !.txn = c]
<1>1. /\ IsSpi(p) /\ p.cmds = s.cmds /\ p.intr = s.intr /\ p.on = s.on /\ p.txn = c
  BY PoppedFields DEF IsSpi, SpiFields, ResetSpi
<1> HIDE DEF p
<1>2. CASE c.op = "READ_STATUS"
  <2>1. Shifted(s, c) = [p EXCEPT !.seen = s.committed.wip]
    BY <1>2 DEF Shifted, p
  <2> QED BY <1>1, <1>2, <2>1 DEF IsSpi, SpiFields, ResetSpi, Uploaded
<1>3. CASE c.op = "WREN"
  <2>1. Shifted(s, c) = [p EXCEPT !.staged.wel = TRUE]
    BY <1>3 DEF Shifted, p
  <2> QED BY <1>1, <1>3, <2>1 DEF IsSpi, SpiFields, ResetSpi, Uploaded
<1>4. CASE c.op = "WRDI"
  <2>1. Shifted(s, c) = [p EXCEPT !.staged.wel = FALSE]
    BY <1>4 DEF Shifted, p
  <2> QED BY <1>1, <1>4, <2>1 DEF IsSpi, SpiFields, ResetSpi, Uploaded
<1>5. CASE c.op \in Uploaded
  <2>1. Shifted(s, c) = [p EXCEPT !.staged.wip = TRUE, !.data = <<>>, !.cmds = Append(@, c.op)]
    BY <1>5 DEF Shifted, p, Uploaded
  <2>2. p.cmds \in Seq(Uploaded) /\ Append(p.cmds, c.op) \in Seq(Uploaded)
    BY <1>1, <1>5 DEF IsSpi
  <2> QED BY <1>1, <1>5, <2>1, <2>2 DEF IsSpi, SpiFields, ResetSpi
<1> QED BY <1>2, <1>3, <1>4, <1>5 DEF Uploaded

LEMMA ReleasedFields ==
  ASSUME NEW s, IsSpi(s)
  PROVE  LET t == Released(s)
         IN  /\ IsSpi(t)
             /\ t.cmds = s.cmds /\ t.on = s.on /\ t.txn = None
             /\ t.intr = IF s.txn.op \in Uploaded THEN TRUE ELSE s.intr
  BY DEF IsSpi, Released, SpiFields, ResetSpi

(* Fields of rom *)

RomFields == DOMAIN IdleRom
IsRom == rom = [f \in RomFields |-> rom[f]]

LEMMA RomKeepsFields ==
  ASSUME IsRom, [Next]_vars
  PROVE  IsRom'
<1> USE DEF IsRom, RomFields, IdleRom
<1>1. ASSUME RomNext PROVE IsRom'
  <2>1. CASE RomMain \/ EnterBootstrap BY <2>1 DEF RomMain, EnterBootstrap
  <2>2. CASE CmdWait \/ CmdClear \/ CmdPop \/ CmdPayload
    BY <2>2 DEF CmdWait, CmdClear, CmdPop, CmdPayload
  <2>3. CASE Ignore \/ Skip \/ FirstErase \/ StartJob \/ BadAddress
    BY <2>3 DEF Ignore, Skip, FirstErase, StartJob, BadAddress, EndCommand, WithJob
  <2>4. CASE Transaction \/ FailedTransaction \/ EndJob \/ EraseVerify
    BY <2>4 DEF Transaction, FailedTransaction, EndJob, EraseVerify, AfterError, EndCommand
  <2>5. CASE ResetCommand \/ Shutdown
    BY <2>5 DEF ResetCommand, Shutdown, ChipReset
  <2> QED BY <1>1, <2>1, <2>2, <2>3, <2>4, <2>5 DEF RomNext
<1>2. CASE LatePop \/ AnyShift \/ AnyRelease \/ AnyStrap \/ AnyReset
  BY <1>2 DEF LatePop, AnyShift, AnyRelease, AnyStrap, AnyReset, ChipReset
<1>3. CASE UNCHANGED vars BY <1>3 DEF vars
<1> QED BY <1>1, <1>2, <1>3 DEF Next, AnyNext

(* A command for every interrupt *)

CmdInv == IsRom /\ IsSpi(spi) /\ CommandsWait

LEMMA InitCommands == Init => CmdInv
<1> SUFFICES ASSUME Init PROVE CmdInv OBVIOUS
<1>1. ~Uploading BY DEF Init, ResetSpi, Uploading
<1>2. IsSpi(spi) /\ spi.cmds = <<>> /\ ~spi.intr /\ Len(<<>>) = 0
  BY DEF Init, ResetSpi, IsSpi, SpiFields, NoStatus
<1>3. IsRom /\ rom.pc = "main" BY DEF Init, IdleRom, IsRom, RomFields
<1> QED BY <1>1, <1>2, <1>3 DEF CmdInv, CommandsWait, IsSpi

\* Steps that leave the FIFO, the interrupt and the transaction alone.
LEMMA QuietKeepsCommands ==
  ASSUME CmdInv, IsSpi(spi'), spi'.cmds = spi.cmds, spi'.intr = spi.intr,
         spi'.txn = spi.txn, spi.on => spi'.on,
         rom'.pc \in {"clear", "pop"} => rom.pc = rom'.pc,
         rom.pc # "clear"
  PROVE  CommandsWait'
  BY DEF CmdInv, CommandsWait, Uploading

\* The states that a reset leaves.
LEMMA ResetKeepsCommands ==
  ASSUME ChipReset PROVE IsSpi(spi') /\ CommandsWait'
<1>1. PICK b \in BOOLEAN :
       spi' = [ResetSpi EXCEPT !.seen = IF spi.txn = None THEN FALSE ELSE b,
                               !.txn = IF spi.txn = None THEN None ELSE Bare("READ_STATUS")]
  BY DEF ChipReset
<1>2. /\ IsSpi(spi') /\ spi'.cmds = <<>> /\ Len(<<>>) = 0 /\ ~spi'.intr /\ ~spi'.on
      /\ spi'.txn \in {None, Bare("READ_STATUS")}
  <2> DEFINE S(x, y) == [ResetSpi EXCEPT !.seen = x, !.txn = y]
  <2>1. ASSUME NEW x, NEW y
        PROVE  /\ IsSpi(S(x, y)) /\ S(x, y).cmds = <<>> /\ S(x, y).txn = y
               /\ ~S(x, y).intr /\ ~S(x, y).on
    <3> DEFINE s == S(x, y)
    <3>1. /\ s = [f \in SpiFields |-> s[f]] /\ s.txn = y /\ s.staged = NoStatus
          /\ s.cmds = <<>> /\ s.intr = FALSE /\ s.on = FALSE
      BY DEF SpiFields, ResetSpi
    <3> HIDE DEF s
    <3>2. NoStatus = [f \in {"wip", "wel"} |-> NoStatus[f]] BY DEF NoStatus
    <3>3. <<>> \in Seq(Uploaded) OBVIOUS
    <3>4. IsSpi(s) BY <3>1, <3>2, <3>3 DEF IsSpi
    <3> QED BY <3>1, <3>4 DEF s
  <2> HIDE DEF S
  <2>2. CASE spi.txn = None
    <3>1. spi' = S(FALSE, None) BY <1>1, <2>2 DEF S
    <3> QED BY <2>1, <3>1
  <2>3. CASE spi.txn # None
    <3>1. spi' = S(b, Bare("READ_STATUS")) BY <1>1, <2>3 DEF S
    <3> QED BY <2>1, <3>1
  <2> QED BY <2>2, <2>3
<1>3. ~Uploading' BY <1>2 DEF Uploading, Bare, Command, Uploaded
<1>4. rom'.pc = "main" BY DEF ChipReset, IdleRom
<1> QED BY <1>2, <1>3, <1>4 DEF CommandsWait, IsSpi

LEMMA RomKeepsCommands ==
  ASSUME CmdInv, RomNext PROVE IsSpi(spi') /\ CommandsWait'
<1>1. IsSpi(spi) /\ IsRom BY DEF CmdInv
<1>2. CASE RomMain \/ CmdPayload \/ Ignore \/ FirstErase \/ StartJob \/ BadAddress
           \/ Transaction \/ FailedTransaction
  <2>1. spi' = spi /\ rom.pc # "clear"
    BY <1>2 DEF RomMain, CmdPayload, Ignore, FirstErase, StartJob, BadAddress,
                Transaction, FailedTransaction
  <2>2. rom'.pc \notin {"clear", "pop"}
    BY <1>1, <1>2 DEF RomMain, CmdPayload, Ignore, FirstErase, StartJob, BadAddress,
      Transaction, FailedTransaction, AfterError, EndCommand, WithJob, IsRom, RomFields, IdleRom
  <2> QED BY <1>1, <2>1, <2>2, QuietKeepsCommands
<1>3. CASE EnterBootstrap \/ Skip \/ EndJob \/ EraseVerify
  <2> DEFINE e == [spi EXCEPT !.on = TRUE]
  <2>1. IsSpi(e) /\ e.cmds = spi.cmds /\ e.intr = spi.intr /\ e.txn = spi.txn /\ e.on
    BY <1>1 DEF IsSpi, SpiFields, ResetSpi
  <2>2. spi' \in {spi, StatusCleared(spi), StatusCleared(e)} /\ rom.pc # "clear"
    BY <1>3 DEF EnterBootstrap, Skip, EndJob, EraseVerify, SpiDeviceInit
  <2> HIDE DEF e
  <2>3. /\ IsSpi(spi') /\ spi'.cmds = spi.cmds /\ spi'.intr = spi.intr
        /\ spi'.txn = spi.txn /\ (spi.on => spi'.on)
    BY <1>1, <2>1, <2>2, ClearedFields
  <2>4. rom'.pc \notin {"clear", "pop"}
    BY <1>1, <1>3 DEF EnterBootstrap, Skip, EndJob, EraseVerify, EndCommand,
                      IsRom, RomFields, IdleRom
  <2> QED BY <2>2, <2>3, <2>4, QuietKeepsCommands
<1>4. CASE CmdWait
  <2>1. /\ spi' = spi /\ spi.intr /\ rom.pc = "poll" /\ rom'.pc = "clear"
    BY <1>1, <1>4 DEF CmdWait, IsRom, RomFields, IdleRom
  <2>2. Uploading' <=> Uploading BY <2>1 DEF Uploading
  <2>3. Len(spi.cmds) >= 1 + (IF Uploading THEN 1 ELSE 0)
    BY <2>1 DEF CmdInv, CommandsWait
  <2> QED BY <1>1, <2>1, <2>2, <2>3 DEF CmdInv, CommandsWait, IsSpi
<1>5. CASE CmdClear
  <2>1. /\ IsSpi(spi') /\ spi'.cmds = spi.cmds /\ ~spi'.intr
        /\ spi'.txn = spi.txn /\ spi'.on = spi.on
    BY <1>1, <1>5 DEF CmdClear, IsSpi, SpiFields, ResetSpi
  <2>2. rom.pc = "clear" /\ rom'.pc # "clear"
    BY <1>1, <1>5 DEF CmdClear, IsRom, RomFields, IdleRom
  <2> QED BY <2>1, <2>2 DEF CmdInv, CommandsWait, Uploading, IsSpi
<1>6. CASE CmdPop
  <2>1. spi.cmds \in Seq(Uploaded) /\ spi.cmds # <<>> /\ rom.pc = "pop"
    BY <1>6 DEF CmdInv, CommandsWait, CmdPop, Uploading
  <2>2. Tail(spi.cmds) \in Seq(Uploaded) /\ Len(Tail(spi.cmds)) = Len(spi.cmds) - 1
    BY <2>1
  <2>3. /\ IsSpi(spi') /\ spi'.cmds = Tail(spi.cmds) /\ spi'.intr = spi.intr
        /\ spi'.txn = spi.txn /\ spi'.on = spi.on
    BY <1>1, <1>6, <2>1, <2>2 DEF CmdPop, IsSpi, SpiFields, ResetSpi
  <2>4. rom'.pc = "payload"
    BY <1>1, <1>6 DEF CmdPop, IsRom, RomFields, IdleRom
  <2> QED BY <2>1, <2>2, <2>3, <2>4 DEF CmdInv, CommandsWait, Uploading, IsSpi
<1>7. CASE ResetCommand \/ Shutdown
  BY <1>7, ResetKeepsCommands DEF ResetCommand, Shutdown
<1> QED BY <1>2, <1>3, <1>4, <1>5, <1>6, <1>7 DEF RomNext

LEMMA BusKeepsCommands ==
  ASSUME CmdInv, LatePop \/ AnyNext PROVE IsSpi(spi') /\ CommandsWait'
<1>1. IsSpi(spi) BY DEF CmdInv
<1>2. CASE AnyShift
  <2>1. PICK c \in {Bare("READ_STATUS"), Bare("WREN"), Bare("WRDI")} \cup Commands : Shift(c)
    BY <1>2 DEF AnyShift
  <2>2. c.op \in Ops /\ ~Uploading /\ rom' = rom
    <3>1. c \in Commands => c.op \in Uploaded
      BY CommandsAssumption
    <3>2. c \notin Commands => c.op \in {"READ_STATUS", "WREN", "WRDI"}
      BY <2>1 DEF Bare, Command
    <3> QED BY <1>2, <2>1, <3>1, <3>2 DEF Ops, Uploaded, Uploading, Shift, AnyShift
  <2>3. CASE spi.on /\ spi' = Shifted(spi, c)
    <3>1. /\ IsSpi(spi') /\ spi'.intr = spi.intr /\ spi'.on = spi.on /\ spi'.txn = c
          /\ spi'.cmds = IF c.op \in Uploaded THEN Append(spi.cmds, c.op) ELSE spi.cmds
      BY <1>1, <2>2, <2>3, ShiftedFields
    <3>2. c.op \in Uploaded => /\ Append(spi.cmds, c.op) \in Seq(Uploaded)
                               /\ Len(Append(spi.cmds, c.op)) = Len(spi.cmds) + 1
      BY <1>1 DEF IsSpi
    <3>3. Uploading' => c.op \in Uploaded BY <3>1 DEF Uploading
    <3>4. CASE c.op \in Uploaded
      BY <2>2, <2>3, <3>1, <3>2, <3>4 DEF CmdInv, CommandsWait, IsSpi
    <3>5. CASE c.op \notin Uploaded
      BY <2>2, <2>3, <3>1, <3>3, <3>5 DEF CmdInv, CommandsWait, IsSpi
    <3> QED BY <3>4, <3>5
  <2>4. CASE ~spi.on /\ \E b \in BOOLEAN :
                spi' = [spi EXCEPT !.txn = Bare("READ_STATUS"), !.seen = b]
    <3>1. /\ IsSpi(spi') /\ spi'.cmds = spi.cmds /\ spi'.intr = spi.intr
          /\ spi'.on = spi.on /\ spi'.txn = Bare("READ_STATUS")
      BY <1>1, <2>4 DEF IsSpi, SpiFields, ResetSpi
    <3>2. ~Uploading' BY <3>1 DEF Uploading, Bare, Command, Uploaded
    <3> QED BY <2>2, <3>1, <3>2 DEF CmdInv, CommandsWait
  <2> QED BY <2>1, <2>3, <2>4 DEF Shift
<1>3. CASE AnyRelease
  <2>1. /\ spi' = Released(spi) /\ spi.txn # None /\ rom' = rom BY <1>3 DEF AnyRelease
  <2>2. /\ IsSpi(spi') /\ spi'.cmds = spi.cmds /\ spi'.on = spi.on /\ spi'.txn = None
        /\ spi'.intr = IF Uploading THEN TRUE ELSE spi.intr
    BY <1>1, <2>1, ReleasedFields DEF Uploading
  <2>3. ~Uploading' BY <2>2 DEF Uploading
  <2>4. CASE Uploading
    <3>1. spi.on /\ spi'.intr /\ Len(spi.cmds) \in Nat
      BY <1>1, <2>2, <2>4 DEF CmdInv, CommandsWait, IsSpi
    <3> QED BY <2>1, <2>2, <2>3, <2>4, <3>1 DEF CmdInv, CommandsWait, IsSpi
  <2>5. CASE ~Uploading
    BY <2>1, <2>2, <2>3, <2>5 DEF CmdInv, CommandsWait, IsSpi
  <2> QED BY <2>4, <2>5
<1>4. CASE LatePop
  <2>1. spi' = Popped(spi) /\ rom' = rom BY <1>4 DEF LatePop
  <2> QED BY <1>1, <2>1, PoppedFields DEF CmdInv, CommandsWait, Uploading
<1>5. CASE AnyStrap
  BY <1>5 DEF AnyStrap, CmdInv, CommandsWait, Uploading
<1>6. CASE AnyReset
  BY <1>6, ResetKeepsCommands DEF AnyReset
<1> QED BY <1>2, <1>3, <1>4, <1>5, <1>6 DEF AnyNext

\* The FIFO holds a command for every interrupt, and spi_device_cmd_get() pops
\* one only when there is one: with interrupts of several commands cleared at
\* once, however many commands a host sends and whenever it sends them.
THEOREM CommandsTheorem == Spec => [](CommandsWait /\ PopsACommand)
<1>1. ASSUME CmdInv, [Next]_vars PROVE CmdInv'
  <2>1. IsRom' BY <1>1, RomKeepsFields DEF CmdInv
  <2>2. CASE RomNext BY <1>1, <2>1, <2>2, RomKeepsCommands DEF CmdInv
  <2>3. CASE LatePop \/ AnyNext BY <1>1, <2>1, <2>3, BusKeepsCommands DEF CmdInv
  <2>4. CASE UNCHANGED vars
    BY <1>1, <2>4 DEF vars, CmdInv, IsRom, IsSpi, CommandsWait, Uploading
  <2> QED BY <1>1, <2>2, <2>3, <2>4 DEF Next
<1>2. CmdInv => CommandsWait /\ PopsACommand
  BY DEF CmdInv, CommandsWait, PopsACommand
<1> QED BY <1>1, <1>2, InitCommands, PTL DEF Spec

(* Permissions *)

\* Flash calls are under way only for the commands that have any.
WorkMatches ==
  /\ rom.state \in {"Erase", "EraseVerify", "Program"}
  /\ rom.pc \in {"main", "bootstrap"} => rom.state = "Erase"
  /\ rom.pc = "work" /\ rom.state # "Erase" =>
       /\ rom.state = "Program"
       /\ rom.cmd.op \in {"CHIP_ERASE", "SECTOR_ERASE", "PAGE_PROGRAM"}

PermInv == IsRom /\ WorkMatches /\ PermissionsMatch

LEMMA StepKeepsPermissions ==
  ASSUME PermInv, [Next]_vars PROVE WorkMatches' /\ PermissionsMatch'
<1>1. IsRom /\ IsRom' BY RomKeepsFields DEF PermInv
<1> USE DEF PermInv, IsRom, RomFields, IdleRom, WorkMatches, PermissionsMatch
<1>2. CASE RomMain \/ EnterBootstrap \/ CmdWait \/ CmdClear \/ CmdPop \/ CmdPayload
  BY <1>1, <1>2 DEF RomMain, EnterBootstrap, CmdWait, CmdClear, CmdPop, CmdPayload
<1>3. CASE Ignore \/ Skip \/ BadAddress
  BY <1>1, <1>3 DEF Ignore, Skip, BadAddress, EndCommand
<1>4. CASE FirstErase
  BY <1>1, <1>4 DEF FirstErase, WithJob
<1>5. CASE StartJob
  <2>1. /\ rom'.pc = "work" /\ rom'.state = "Program" /\ rom'.cmd = rom.cmd
        /\ rom.cmd.op \in {"CHIP_ERASE", "SECTOR_ERASE", "PAGE_PROGRAM"}
        /\ perms' = IF rom.cmd.op = "CHIP_ERASE" THEN {"bank"}
                    ELSE IF rom.cmd.op = "SECTOR_ERASE" THEN {"erase"} ELSE {"write"}
    BY <1>1, <1>5 DEF StartJob, WithJob
  <2> QED BY <2>1
<1>6. CASE Transaction \/ FailedTransaction
  BY <1>1, <1>6 DEF Transaction, FailedTransaction, AfterError
<1>7. CASE EndJob \/ EraseVerify
  BY <1>1, <1>7 DEF EndJob, EraseVerify, EndCommand
<1>8. CASE ResetCommand \/ Shutdown \/ AnyReset
  <2>1. rom' = IdleRom /\ perms' = {}
    BY <1>8 DEF ResetCommand, Shutdown, AnyReset, ChipReset
  <2> QED BY <2>1
<1>9. CASE LatePop \/ AnyShift \/ AnyRelease \/ AnyStrap \/ UNCHANGED vars
  BY <1>9 DEF LatePop, AnyShift, AnyRelease, AnyStrap, vars
<1> HIDE DEF PermInv, IsRom, RomFields, IdleRom, WorkMatches, PermissionsMatch
<1> QED BY <1>2, <1>3, <1>4, <1>5, <1>6, <1>7, <1>8, <1>9 DEF Next, RomNext, AnyNext

\* The permissions on the data partition are always those of the command that is
\* carried out, and none otherwise: after flash errors, and whatever a host does.
THEOREM PermissionsTheorem == Spec => []PermissionsMatch
<1>1. Init => PermInv
  BY DEF Init, IdleRom, PermInv, IsRom, RomFields, WorkMatches, PermissionsMatch
<1>2. ASSUME PermInv, [Next]_vars PROVE PermInv'
  BY <1>2, RomKeepsFields, StepKeepsPermissions DEF PermInv
<1>3. PermInv => PermissionsMatch BY DEF PermInv
<1> QED BY <1>1, <1>2, <1>3, PTL DEF Spec

-----------------------------------------------------------------------------
(* Bootstrap implements BootstrapSpec *)

(* Arithmetic of blocks: pages, sectors, windows *)

LEMMA Division ==
  ASSUME NEW P \in Nat \ {0}, NEW a \in Nat
  PROVE  a % P \in 0 .. P - 1 /\ a \div P \in Nat /\ a = P * (a \div P) + (a % P)
OBVIOUS

\* The quotient is the only one.
LEMMA Quotient ==
  ASSUME NEW P \in Nat \ {0}, NEW w \in Int, NEW q \in Int, P * q <= w, w < P * q + P
  PROVE  w \div P = q /\ w % P = w - P * q
OBVIOUS

\* The numbers of the block of a.
LEMMA BlockOf ==
  ASSUME NEW P \in Nat \ {0}, NEW a \in Nat, NEW w \in Nat
  PROVE  w \div P = a \div P <=> w \in a - (a % P) .. a - (a % P) + P - 1
OBVIOUS

LEMMA BlockInside ==
  ASSUME NEW P \in Nat \ {0}, NEW K \in Nat, NEW a \in Nat, a < P * K
  PROVE  a - (a % P) + P <= P * K
<1> DEFINE q == a \div P
<1>1. q \in Nat /\ a = P * q + (a % P) /\ a % P \in 0 .. P - 1
  BY Division
<1> HIDE DEF q
<1>2. ASSUME q >= K PROVE FALSE
  <2>1. P * q >= P * K BY <1>1, <1>2
  <2> QED BY <1>1, <2>1
<1>3. q + 1 <= K BY <1>1, <1>2
<1>4. P * (q + 1) <= P * K BY <1>1, <1>3
<1>5. P * (q + 1) = P * q + P BY <1>1
<1> QED BY <1>1, <1>4, <1>5

LEMMA Offset ==
  ASSUME NEW P \in Nat \ {0}, NEW k \in Int
  PROVE  /\ k \in 0 .. P - 1 => k % P = k
         /\ k \in -P .. -1 => k % P = k + P
OBVIOUS

(* Sizes and calls *)

LEMMA Sizes ==
  /\ {WordsPerWindow, WordsPerProgPage, WordsPerPage, 2 * WordsPerPage, WordsPerBank}
       \subseteq Nat \ {0}
  /\ MaxAddress \in Nat \ {0} /\ MaxAddress = 2 * WordsPerBank
  /\ MaxAddress = (2 * WordsPerPage) * PagesPerBank /\ PagesPerBank \in Nat
  /\ \E K \in Nat : MaxAddress = WordsPerProgPage * K
<1> DEFINE P == WordsPerProgPage
           G == ProgPagesPerPage
           B0 == PagesPerBank
<1>1. P \in Nat \ {0} /\ G \in Nat \ {0} /\ B0 \in Nat \ {0} /\ WordsPerWindow \in Nat \ {0}
  BY BootstrapAssumption
<1> HIDE DEF P, G, B0
<1>2. P * G \in Nat \ {0} /\ (P * G) * B0 \in Nat \ {0}
  <2>1. ASSUME NEW x \in Nat \ {0}, NEW y \in Nat \ {0} PROVE x * y \in Nat \ {0}
    OBVIOUS
  <2>2. P * G \in Nat \ {0} BY <1>1, <2>1
  <2> QED BY <1>1, <2>1, <2>2
<1>3. 2 * ((P * G) * B0) = (2 * (P * G)) * B0
  BY <1>1, <1>2
<1>4. G * (2 * B0) \in Nat /\ 2 * ((P * G) * B0) = P * (G * (2 * B0))
  BY <1>1
<1>5. /\ WordsPerPage = P * G /\ WordsPerBank = (P * G) * B0
      /\ MaxAddress = 2 * ((P * G) * B0)
  BY DEF WordsPerPage, WordsPerBank, MaxAddress, P, G, B0
<1>6. /\ WordsPerPage \in Nat \ {0} /\ 2 * WordsPerPage \in Nat \ {0}
      /\ WordsPerBank \in Nat \ {0} /\ MaxAddress \in Nat \ {0}
  BY <1>2, <1>5
<1>7. MaxAddress = (2 * WordsPerPage) * B0
  BY <1>3, <1>5
<1>8. \E K \in Nat : MaxAddress = P * K
  BY <1>4, <1>5
<1> QED BY <1>1, <1>5, <1>6, <1>7, <1>8 DEF P, G, B0, MaxAddress

Span(c) == c.at .. c.at + c.words - 1

LEMMA SpanInside ==
  ASSUME NEW c \in Calls PROVE Span(c) \subseteq Words
<1>1. c.at \in Nat /\ c.words \in Nat /\ c.at + c.words <= MaxAddress /\ MaxAddress \in Nat
  BY Sizes DEF Calls, Words
<1> QED BY <1>1 DEF Span, Words

LEMMA EraseCalls ==
  ASSUME NEW a \in Nat, NEW n \in Nat \ {0}, a + n <= MaxAddress
  PROVE  /\ EraseCall(a, n) \in Calls /\ EraseCall(a, n).op = "erase"
         /\ Span(EraseCall(a, n)) = a .. a + n - 1
<1>1. a \in Words BY Sizes DEF Words
<1>2. <<>> \in Seq(Data \cup {Erased}) OBVIOUS
<1> QED BY <1>1, <1>2 DEF EraseCall, Calls, Span

LEMMA WriteCalls ==
  ASSUME NEW a \in Nat, NEW d \in Seq(Data \cup {Erased}), d # <<>>, a + Len(d) <= MaxAddress
  PROVE  /\ WriteCall(a, d) \in Calls
         /\ WriteCall(a, d).op = "write" /\ WriteCall(a, d).data = d
         /\ WriteCall(a, d).at = a
         /\ Span(WriteCall(a, d)) = a .. a + Len(d) - 1
<1>1. Len(d) \in Nat /\ Len(d) # 0 OBVIOUS
<1>2. MaxAddress \in Nat BY Sizes
<1>3. a \in Words BY <1>1, <1>2 DEF Words
<1> QED BY <1>1, <1>3 DEF WriteCall, Calls, Span

\* A sequence cut in two.
LEMMA Cut ==
  ASSUME NEW S, NEW s \in Seq(S), NEW n \in 0 .. Len(s)
  PROVE  /\ SubSeq(s, 1, n) \in Seq(S) /\ Len(SubSeq(s, 1, n)) = n
         /\ \A k \in 1 .. n : SubSeq(s, 1, n)[k] = s[k]
         /\ SubSeq(s, n + 1, Len(s)) \in Seq(S) /\ Len(SubSeq(s, n + 1, Len(s))) = Len(s) - n
         /\ \A k \in 1 .. Len(s) - n : SubSeq(s, n + 1, Len(s))[k] = s[n + k]
<1>1. Len(s) \in Nat /\ \A k \in 1 .. Len(s) : s[k] \in S OBVIOUS
<1>2. /\ SubSeq(s, 1, n) \in Seq(S) /\ Len(SubSeq(s, 1, n)) = n
      /\ \A k \in 1 .. n : SubSeq(s, 1, n)[k] = s[k]
  BY <1>1
<1>3. /\ SubSeq(s, n + 1, Len(s)) \in Seq(S) /\ Len(SubSeq(s, n + 1, Len(s))) = Len(s) - n
      /\ \A k \in 1 .. Len(s) - n : SubSeq(s, n + 1, Len(s))[k] = s[n + k]
  BY <1>1
<1> QED BY <1>2, <1>3

(* Windows *)

\* The first transaction of a call, and the call that is left.
LEMMA WindowSize ==
  ASSUME NEW c \in Calls
  PROVE  /\ Window(c) \in 1 .. c.words
         /\ c.op = "erase" => Window(c) = c.words
<1>1. c.at \in Nat /\ c.words \in Nat \ {0} BY Sizes DEF Calls, Words
<1>2. c.at % WordsPerWindow \in 0 .. WordsPerWindow - 1 /\ WordsPerWindow \in Nat \ {0}
  BY <1>1, Sizes, Division
<1> DEFINE n == WordsPerWindow - (c.at % WordsPerWindow)
<1>3. n \in Nat \ {0} BY <1>2
<1>4. Window(c) = IF c.op = "erase" \/ c.words < n THEN c.words ELSE n
  BY DEF Window
<1> QED BY <1>1, <1>3, <1>4

LEMMA Rest ==
  ASSUME NEW c \in Calls
  PROVE  \/ Window(c) = c.words /\ RestOf(c) = <<>>
         \/ \E d \in Calls :
              /\ RestOf(c) = <<d>> /\ d.op = c.op /\ c.op = "write"
              /\ Span(d) = c.at + Window(c) .. c.at + c.words - 1
              /\ \A w \in Span(d) : d.data[w - d.at + 1] = c.data[w - c.at + 1]
<1> DEFINE n == Window(c)
           d == [c EXCEPT !.at = @ + n, !.words = @ - n, !.data = SubSeq(@, n + 1, Len(@))]
<1>1. /\ c.at \in Nat /\ c.words \in Nat \ {0} /\ c.at + c.words <= MaxAddress
      /\ c.op \in {"erase", "write"} /\ c.data \in Seq(Data \cup {Erased})
      /\ c.op = "write" => Len(c.data) = c.words
      /\ c = [op |-> c.op, at |-> c.at, words |-> c.words, data |-> c.data]
  BY Sizes DEF Calls, Words
<1>2. n \in 1 .. c.words /\ (n # c.words => c.op = "write")
  BY <1>1, WindowSize
<1>3. RestOf(c) = IF n = c.words THEN <<>> ELSE <<d>>
  BY DEF RestOf
<1> HIDE DEF n
<1>4. CASE n # c.words
  <2>1. /\ d.op = c.op /\ d.at = c.at + n /\ d.words = c.words - n
        /\ d.data = SubSeq(c.data, n + 1, c.words)
        /\ d \in [op : {"erase", "write"}, at : Int, words : Int, data : Seq(Data \cup {Erased})]
    <3>1. Len(c.data) = c.words BY <1>1, <1>2, <1>4
    <3>2. c \in [op : {"erase", "write"}, at : Words, words : Nat \ {0},
                data : Seq(Data \cup {Erased})]
      BY DEF Calls
    <3>3. d.op = c.op /\ d.at = c.at + n /\ d.words = c.words - n BY <3>2
    <3>4. d.data = SubSeq(c.data, n + 1, c.words) BY <3>1, <3>2
    <3>5. SubSeq(c.data, n + 1, c.words) \in Seq(Data \cup {Erased})
      BY <1>1, <1>2, <3>1
    <3>6. d \in [op : {"erase", "write"}, at : Int, words : Int, data : Seq(Data \cup {Erased})]
      <4> DEFINE X(a, k, s) == [c EXCEPT !.at = a, !.words = k, !.data = s]
      <4>1. ASSUME NEW a \in Int, NEW k \in Int, NEW s \in Seq(Data \cup {Erased})
            PROVE  X(a, k, s) \in [op : {"erase", "write"}, at : Int, words : Int,
                                    data : Seq(Data \cup {Erased})]
        BY <3>2
      <4>2. c.at + n \in Int /\ c.words - n \in Int BY <1>1, <1>2
      <4>3. d = X(c.at + n, c.words - n, SubSeq(c.data, n + 1, c.words))
        BY <3>1
      <4> HIDE DEF X, d
      <4> QED BY <3>5, <4>1, <4>2, <4>3
    <3> QED BY <3>3, <3>4, <3>6
  <2> HIDE DEF d
  <2>2. /\ d.data \in Seq(Data \cup {Erased}) /\ Len(d.data) = c.words - n
        /\ \A k \in 1 .. c.words - n : d.data[k] = c.data[n + k]
    <3>1. n \in 0 .. Len(c.data) /\ Len(c.data) = c.words BY <1>1, <1>2, <1>4
    <3>2. d.data = SubSeq(c.data, n + 1, Len(c.data)) BY <2>1, <3>1
    <3>3. c.data \in Seq(Data \cup {Erased}) BY <1>1
    <3> DEFINE s == SubSeq(c.data, n + 1, Len(c.data))
    <3>4. /\ s \in Seq(Data \cup {Erased}) /\ Len(s) = Len(c.data) - n
          /\ \A k \in 1 .. Len(c.data) - n : s[k] = c.data[n + k]
      BY <3>1, <3>3, Cut
    <3> HIDE DEF s
    <3>5. d.data = s BY <3>2 DEF s
    <3> QED BY <3>1, <3>4, <3>5
  <2>3. d \in Calls
    <3>1. /\ d.at \in Nat /\ d.words \in Nat \ {0} /\ d.at + d.words <= MaxAddress
          /\ Len(d.data) = d.words
      BY <1>1, <1>2, <1>4, <2>1, <2>2
    <3>2. d.at \in Words
      <4>1. MaxAddress \in Nat BY Sizes
      <4> QED BY <3>1, <4>1 DEF Words
    <3> QED BY <1>1, <2>1, <2>2, <3>1, <3>2 DEF Calls
  <2>4. Span(d) = c.at + n .. c.at + c.words - 1
    BY <1>1, <1>2, <2>1 DEF Span
  <2>5. ASSUME NEW w \in Span(d) PROVE d.data[w - d.at + 1] = c.data[w - c.at + 1]
    <3>1. w - d.at + 1 \in 1 .. c.words - n /\ n + (w - d.at + 1) = w - c.at + 1
      <4>1. c.at \in Nat /\ c.words \in Nat /\ n \in Nat BY <1>1, <1>2
      <4>2. d.at = c.at + n BY <2>1
      <4>3. w \in c.at + n .. c.at + c.words - 1 BY <2>4
      <4> QED BY <4>1, <4>2, <4>3
    <3> QED BY <2>2, <3>1
  <2> QED BY <1>2, <1>3, <1>4, <2>1, <2>3, <2>4, <2>5 DEF n
<1>5. CASE n = c.words
  BY <1>3, <1>5 DEF n
<1> QED BY <1>4, <1>5

(* The words of a transaction *)

ProgramWords == Data \cup {Erased}

LEMMA ProgrammedTwice ==
  ASSUME NEW x \in Values, NEW v \in ProgramWords
  PROVE  Programmed(x, v) \in Values /\ Programmed(Programmed(x, v), v) = Programmed(x, v)
BY BootstrapAssumption DEF Programmed, Values, ProgramWords

\* What a call makes of the words it has reached.
Result(c, w) ==
  IF c.op = "erase" THEN Erased ELSE Programmed(flash[w], c.data[w - c.at + 1])

LEMMA ResultType ==
  ASSUME NEW c \in Calls, flash \in [Words -> Values], NEW w \in Span(c)
  PROVE  /\ Result(c, w) \in Values
         /\ c.op = "write" => c.data[w - c.at + 1] \in ProgramWords
<1>1. /\ c.at \in Nat /\ c.words \in Nat \ {0} /\ c.op \in {"erase", "write"}
      /\ c.data \in Seq(ProgramWords) /\ (c.op = "write" => Len(c.data) = c.words)
  BY DEF Calls, Words, ProgramWords
<1>2. w \in Words /\ w - c.at + 1 \in 1 .. c.words
  BY <1>1, SpanInside DEF Span
<1>3. c.op = "write" => c.data[w - c.at + 1] \in ProgramWords
  BY <1>1, <1>2
<1> QED BY <1>1, <1>2, <1>3, ProgrammedTwice DEF Result, Values

LEMMA AfterWords ==
  ASSUME NEW c \in Calls, flash \in [Words -> Values], NEW torn \in BOOLEAN,
         NEW n \in 0 .. c.words, torn => n < c.words
  PROVE  LET m == After(c, n, torn)
         IN  /\ m \in [Words -> Values]
             /\ \A w \in Words : m[w] # flash[w] => w \in Span(c)
             /\ \A w \in c.at .. c.at + n - 1 : m[w] = Result(c, w)
             /\ ~torn => \A w \in Words : w \notin c.at .. c.at + n - 1 => m[w] = flash[w]
<1>1. c.at \in Nat /\ c.words \in Nat \ {0} BY DEF Calls, Words
<1>2. c.at .. c.at + n - 1 \subseteq Span(c) /\ (torn => c.at + n \in Span(c))
  BY <1>1 DEF Span
<1>3. Span(c) \subseteq Words BY SpanInside
<1> DEFINE m == After(c, n, torn)
<1>4. m = [w \in Words |->
             IF w \in c.at .. c.at + n - 1 THEN Result(c, w)
             ELSE IF torn /\ w = c.at + n THEN Mixed ELSE flash[w]]
  BY DEF After, Result
<1>5. Mixed \in Values BY DEF Values
<1> HIDE DEF m
<1>6. ASSUME NEW w \in Words PROVE m[w] \in Values
  BY <1>2, <1>4, <1>5, ResultType
<1> QED BY <1>2, <1>3, <1>4, <1>6 DEF m

LEMMA CutOffWords ==
  ASSUME NEW c \in Calls, flash \in [Words -> Values], NEW m \in CutOff(c)
  PROVE  m \in [Words -> Values] /\ \A w \in Words : m[w] # flash[w] => w \in Span(c)
<1>1. PICK n \in 0 .. Window(c) - 1, torn \in BOOLEAN : m = After(c, n, torn)
  BY DEF CutOff
<1>2. n \in 0 .. c.words /\ n < c.words
  BY WindowSize DEF Calls
<1> QED BY <1>1, <1>2, AfterWords

(* The calls that are left after a transaction *)

\* t is s with its head replaced by what r holds.
HeadReplaced(t, s, r) ==
  /\ \A i \in 1 .. Len(t) : \/ r = <<t[i]>>
                            \/ \E j \in 2 .. Len(s) : t[i] = s[j]
  /\ \A j \in 2 .. Len(s) : \E i \in 1 .. Len(t) : t[i] = s[j]
  /\ r # <<>> => 1 \in 1 .. Len(t) /\ r = <<t[1]>>

LEMMA CallsLeft ==
  ASSUME NEW S, NEW s \in Seq(S), s # <<>>, NEW r,
         r = <<>> \/ \E x \in S : r = <<x>>
  PROVE  r \o Tail(s) \in Seq(S) /\ HeadReplaced(r \o Tail(s), s, r)
<1> USE DEF HeadReplaced
<1> DEFINE t == r \o Tail(s)
<1>1. /\ Tail(s) \in Seq(S) /\ Len(Tail(s)) = Len(s) - 1 /\ Len(s) \in Nat \ {0}
      /\ \A i \in 1 .. Len(s) - 1 : Tail(s)[i] = s[i + 1]
  BY HeadTailProperties
<1>2. CASE r = <<>>
  <2>1. t = Tail(s) BY <1>1, <1>2
  <2> HIDE DEF t
  <2>2. ASSUME NEW j \in 2 .. Len(s) PROVE j - 1 \in 1 .. Len(t) /\ t[j - 1] = s[j]
    BY <1>1, <2>1
  <2>3. ASSUME NEW i \in 1 .. Len(t) PROVE i + 1 \in 2 .. Len(s) /\ t[i] = s[i + 1]
    BY <1>1, <2>1
  <2> QED BY <1>1, <1>2, <2>1, <2>2, <2>3 DEF t
<1>3. CASE r # <<>>
  <2>1. PICK x \in S : r = <<x>> BY <1>3
  <2>2. r \in Seq(S) /\ Len(r) = 1 /\ r[1] = x BY <2>1
  <2>3. t \in Seq(S) /\ Len(t) = Len(s) /\ t[1] = x
        /\ \A i \in 2 .. Len(s) : t[i] = Tail(s)[i - 1]
    <3>1. /\ t \in Seq(S) /\ Len(t) = Len(r) + Len(Tail(s))
          /\ \A i \in 1 .. Len(r) + Len(Tail(s)) :
               t[i] = IF i <= Len(r) THEN r[i] ELSE Tail(s)[i - Len(r)]
      <4>1. Tail(s) \in Seq(S) /\ r \in Seq(S) BY <1>1, <2>2
      <4> QED BY <4>1, ConcatProperties, Zenon
    <3> HIDE DEF t
    <3> QED BY <1>1, <2>2, <3>1
  <2>4. \A i \in 2 .. Len(s) : t[i] = s[i]
    BY <1>1, <2>3
  <2> HIDE DEF t
  <2>5. \A i \in 1 .. Len(t) : i = 1 \/ i \in 2 .. Len(s)
    BY <1>1, <2>3
  <2>6. \A j \in 2 .. Len(s) : j \in 1 .. Len(t)
    BY <1>1, <2>3
  <2> QED BY <1>1, <2>1, <2>3, <2>4, <2>5, <2>6 DEF t
<1> QED BY <1>2, <1>3

(* The calls of each command *)

\* Calls t erase the words of T, each of them at least once.
Erases(t, T) ==
  /\ t \in Seq(Calls)
  /\ \A i \in 1 .. Len(t) : t[i].op = "erase" /\ Span(t[i]) \subseteq T
  /\ \A w \in T : \E i \in 1 .. Len(t) : w \in Span(t[i])

\* The words of a page that payload d of a program at address a reaches, and
\* what of it goes to word w.
Index(a, w)   == ((w - a) % WordsPerProgPage) + 1
Reached(a, d) == {w \in PageOf(a) : Index(a, w) \in DOMAIN d}

\* Calls t program payload d at address a.
Programs(t, a, d) ==
  /\ t \in Seq(Calls)
  /\ \A i \in 1 .. Len(t) :
       /\ t[i].op = "write" /\ Span(t[i]) \subseteq Reached(a, d)
       /\ \A w \in Span(t[i]) : t[i].data[w - t[i].at + 1] = d[Index(a, w)]
  /\ \A w \in Reached(a, d) : \E i \in 1 .. Len(t) : w \in Span(t[i])

LEMMA TwoErases ==
  ASSUME NEW a \in Nat, NEW n \in Nat \ {0}, a + 2 * n <= MaxAddress
  PROVE  Erases(<<EraseCall(a, n), EraseCall(a + n, n)>>, a .. a + 2 * n - 1)
<1> DEFINE c == EraseCall(a, n)
           d == EraseCall(a + n, n)
           t == <<c, d>>
<1>1. MaxAddress \in Nat BY Sizes
<1>2. c \in Calls /\ c.op = "erase" /\ Span(c) = a .. a + n - 1
  BY <1>1, EraseCalls
<1>3. d \in Calls /\ d.op = "erase" /\ Span(d) = a + n .. a + 2 * n - 1
  <2>1. a + n \in Nat /\ (a + n) + n <= MaxAddress /\ (a + n) + n - 1 = a + 2 * n - 1
    BY <1>1
  <2> QED BY <2>1, EraseCalls
<1> HIDE DEF c, d
<1>4. t \in Seq(Calls) /\ Len(t) = 2 /\ t[1] = c /\ t[2] = d
  BY <1>2, <1>3
<1> HIDE DEF t
<1>5. \A i \in 1 .. Len(t) : t[i].op = "erase" /\ Span(t[i]) \subseteq a .. a + 2 * n - 1
  BY <1>2, <1>3, <1>4
<1>6. ASSUME NEW w \in a .. a + 2 * n - 1 PROVE \E i \in 1 .. Len(t) : w \in Span(t[i])
  <2>1. w \in Span(c) \/ w \in Span(d) BY <1>2, <1>3
  <2>2. 1 \in 1 .. Len(t) /\ 2 \in 1 .. Len(t) BY <1>4
  <2> QED BY <1>4, <2>1, <2>2
<1>7. Erases(t, a .. a + 2 * n - 1) BY <1>4, <1>5, <1>6 DEF Erases
<1> QED BY <1>7 DEF t, c, d

LEMMA ChipEraseCalls == Erases(ChipErase, Words)
<1>1. /\ WordsPerBank \in Nat \ {0} /\ MaxAddress = 2 * WordsPerBank
      /\ 0 + WordsPerBank = WordsPerBank
  BY Sizes
<1>2. Erases(<<EraseCall(0, WordsPerBank), EraseCall(0 + WordsPerBank, WordsPerBank)>>,
             0 .. 0 + 2 * WordsPerBank - 1)
  <2>1. 0 \in Nat /\ 0 + 2 * WordsPerBank <= MaxAddress BY <1>1
  <2> QED BY <1>1, <2>1, TwoErases
<1>3. 0 .. 0 + 2 * WordsPerBank - 1 = Words BY <1>1 DEF Words
<1> QED BY <1>1, <1>2, <1>3 DEF ChipErase

LEMMA SectorEraseCalls ==
  ASSUME NEW a \in Nat, a < MaxAddress
  PROVE  Erases(SectorErase(a), SectorOf(a))
<1> DEFINE S == 2 * WordsPerPage
           s == a - (a % S)
<1>1. /\ S \in Nat \ {0} /\ WordsPerPage \in Nat \ {0} /\ MaxAddress = S * PagesPerBank
      /\ PagesPerBank \in Nat /\ MaxAddress \in Nat
  BY Sizes
<1>2. s \in Nat /\ s + S <= MaxAddress
  <2> HIDE DEF S
  <2>1. a % S \in 0 .. S - 1 /\ a = S * (a \div S) + (a % S) /\ S * (a \div S) \in Nat
    <3>1. a % S \in 0 .. S - 1 /\ a \div S \in Nat /\ a = S * (a \div S) + (a % S)
      BY <1>1, Division
    <3> QED BY <1>1, <3>1
  <2>2. a < S * PagesPerBank BY <1>1
  <2>3. a - (a % S) + S <= S * PagesPerBank BY <1>1, <2>2, BlockInside
  <2>4. s \in Nat BY <2>1
  <2> QED BY <1>1, <2>3, <2>4
<1>3. SectorOf(a) = s .. s + S - 1
  <2>1. ASSUME NEW w \in Nat PROVE w \div S = a \div S <=> w \in s .. s + S - 1
    BY <1>1, BlockOf
  <2>2. SectorOf(a) = {w \in Words : w \div S = a \div S} BY DEF SectorOf
  <2>3. Words \subseteq Nat /\ s .. s + S - 1 \subseteq Words
    BY <1>1, <1>2 DEF Words
  <2> HIDE DEF S, s
  <2> QED BY <1>1, <1>2, <2>1, <2>2, <2>3
<1>4. Erases(<<EraseCall(s, WordsPerPage), EraseCall(s + WordsPerPage, WordsPerPage)>>,
             s .. s + 2 * WordsPerPage - 1)
  BY <1>1, <1>2, TwoErases
<1> QED BY <1>3, <1>4 DEF SectorErase

LEMMA PageBlock ==
  ASSUME NEW a \in Nat, a < MaxAddress
  PROVE  LET o == a % WordsPerProgPage
             s == a - o
         IN  /\ o \in 0 .. WordsPerProgPage - 1 /\ s \in Nat
             /\ s + WordsPerProgPage <= MaxAddress
             /\ PageOf(a) = s .. s + WordsPerProgPage - 1
<1> DEFINE P == WordsPerProgPage
           s == a - (a % P)
<1>1. P \in Nat \ {0} /\ MaxAddress \in Nat BY Sizes
<1>2. PICK K \in Nat : MaxAddress = P * K BY Sizes
<1>3. a % P \in 0 .. P - 1 /\ a = P * (a \div P) + (a % P) /\ P * (a \div P) \in Nat
  <2> HIDE DEF P
  <2>1. a % P \in 0 .. P - 1 /\ a \div P \in Nat /\ a = P * (a \div P) + (a % P)
    BY <1>1, Division
  <2> QED BY <1>1, <2>1
<1>4. s \in Nat /\ s + P <= MaxAddress
  <2> HIDE DEF P
  <2>1. a < P * K BY <1>2
  <2>2. a - (a % P) + P <= P * K BY <1>1, <2>1, BlockInside
  <2> QED BY <1>2, <1>3, <2>2
<1>5. PageOf(a) = s .. s + P - 1
  <2>1. ASSUME NEW w \in Nat PROVE w \div P = a \div P <=> w \in s .. s + P - 1
    BY <1>1, BlockOf
  <2>2. PageOf(a) = {w \in Words : w \div P = a \div P} BY DEF PageOf
  <2>3. Words \subseteq Nat /\ s .. s + P - 1 \subseteq Words
    BY <1>1, <1>4 DEF Words
  <2> HIDE DEF P, s
  <2> QED BY <1>1, <1>4, <2>1, <2>2, <2>3
<1> QED BY <1>3, <1>4, <1>5

LEMMA PageProgramCalls ==
  ASSUME NEW a \in Nat, a < MaxAddress, NEW d \in Payloads
  PROVE  Programs(PageProgram(a, d), a, d)
<1> DEFINE P == WordsPerProgPage
           L == Len(d)
           o == a % P
           n == IF o = 0 THEN 0 ELSE IF L < P - o THEN L ELSE P - o
           d1 == SubSeq(d, 1, n)
           d2 == SubSeq(d, n + 1, L)
           c1 == WriteCall(a, d1)
           c2 == WriteCall(a - o, d2)
           t1 == IF n = 0 THEN <<>> ELSE <<c1>>
           t2 == IF L = n THEN <<>> ELSE <<c2>>
           t  == t1 \o t2
<1>1. PageProgram(a, d) = t BY DEF PageProgram
<1>2. P \in Nat \ {0} /\ MaxAddress \in Nat BY Sizes
<1>3. d \in Seq(ProgramWords) /\ L \in Nat /\ L <= P /\ DOMAIN d = 1 .. L
  BY DEF Payloads, ProgramWords
<1>21. /\ o \in 0 .. P - 1 /\ a - o \in Nat /\ (a - o) + P <= MaxAddress
      /\ PageOf(a) = a - o .. (a - o) + P - 1
  BY PageBlock
<1> HIDE DEF P, o, L

\* The numbers involved.
<1>20. /\ P \in Nat \ {0} /\ MaxAddress \in Nat /\ L \in Nat /\ L <= P
      /\ o \in 0 .. P - 1 /\ a - o \in Nat /\ (a - o) + P <= MaxAddress
  BY <1>2, <1>3, <1>21
<1>4. /\ n \in 0 .. L /\ n <= P - o
      /\ o = 0 => n = 0
      /\ o # 0 /\ n # L => n = P - o
  BY <1>20
<1> HIDE DEF n
<1>5. /\ d1 \in Seq(ProgramWords) /\ Len(d1) = n /\ \A k \in 1 .. n : d1[k] = d[k]
      /\ d2 \in Seq(ProgramWords) /\ Len(d2) = L - n
      /\ \A k \in 1 .. L - n : d2[k] = d[n + k]
  <2>1. L = Len(d) BY DEF L
  <2>2. n \in 0 .. Len(d) BY <1>4, <2>1
  <2> QED BY <1>3, <2>1, <2>2, Cut
<1> HIDE DEF d1, d2
<1>6. n # 0 =>
        /\ c1 \in Calls /\ c1.op = "write" /\ c1.data = d1 /\ c1.at = a
        /\ Span(c1) = a .. a + n - 1
  <2>1. a + n <= MaxAddress BY <1>20, <1>4
  <2>2. n # 0 => d1 # <<>> BY <1>4, <1>5
  <2> QED BY <1>4, <1>5, <2>1, <2>2, WriteCalls DEF ProgramWords
<1>7. n # L =>
        /\ c2 \in Calls /\ c2.op = "write" /\ c2.data = d2 /\ c2.at = a - o
        /\ Span(c2) = a - o .. (a - o) + (L - n) - 1
  <2>1. (a - o) + (L - n) <= MaxAddress BY <1>20, <1>4
  <2>2. n # L => d2 # <<>>
    <3>1. n # L => L - n > 0 BY <1>20, <1>4
    <3> QED BY <1>5, <3>1
  <2> QED BY <1>20, <1>5, <2>1, <2>2, WriteCalls DEF ProgramWords
<1> HIDE DEF c1, c2

\* What of the payload goes to a word of the page.
<1>8. ASSUME NEW w \in PageOf(a)
      PROVE  /\ w \in Int /\ a - o <= w /\ w <= (a - o) + P - 1
             /\ w >= a => Index(a, w) = w - a + 1
             /\ w < a => Index(a, w) = w - a + P + 1
  <2>1. w \in Int /\ a - o <= w /\ w <= (a - o) + P - 1
    BY <1>20, <1>21
  <2>2. /\ w - a \in 0 .. P - 1 => (w - a) % P = w - a
        /\ w - a \in -P .. -1 => (w - a) % P = (w - a) + P
    BY <1>20, <2>1, Offset
  <2>3. Index(a, w) = ((w - a) % P) + 1 BY DEF Index, P
  <2> HIDE DEF Index
  <2>4. w >= a => w - a \in 0 .. P - 1 BY <1>20, <2>1
  <2>5. w < a => w - a \in -P .. -1 BY <1>20, <2>1
  <2>6. w >= a => Index(a, w) = w - a + 1 BY <2>2, <2>3, <2>4
  <2>7. w < a => Index(a, w) = w - a + P + 1 BY <1>20, <2>1, <2>2, <2>3, <2>5
  <2> QED BY <2>1, <2>6, <2>7
<1>9. ASSUME n # 0, NEW w \in Span(c1)
      PROVE  w \in Reached(a, d) /\ c1.data[w - c1.at + 1] = d[Index(a, w)]
  <2>1. w \in a .. a + n - 1 BY <1>6, <1>9
  <2>2. w \in PageOf(a) BY <1>20, <1>21, <1>4, <2>1
  <2>3. w - a + 1 \in 1 .. n /\ w - a + 1 \in 1 .. L BY <1>20, <1>4, <2>1
  <2>4. Index(a, w) = w - a + 1 BY <1>8, <2>1, <2>2
  <2>5. w \in Reached(a, d) BY <1>3, <2>2, <2>3, <2>4 DEF Reached
  <2>6. c1.data[w - c1.at + 1] = d[w - a + 1] BY <1>5, <1>6, <1>9, <2>3
  <2> QED BY <2>4, <2>5, <2>6
<1>10. ASSUME n # L, NEW w \in Span(c2)
       PROVE  w \in Reached(a, d) /\ c2.data[w - c2.at + 1] = d[Index(a, w)]
  <2> DEFINE k == w - (a - o) + 1
  <2>1. w \in a - o .. (a - o) + (L - n) - 1 BY <1>7, <1>10
  <2>2. w \in PageOf(a) BY <1>20, <1>21, <1>4, <2>1
  <2>3. k \in 1 .. L - n /\ n + k \in 1 .. L BY <1>20, <1>4, <2>1
  <2>4. Index(a, w) = n + k
    <3>1. CASE o = 0
      <4>1. w >= a /\ n + k = w - a + 1 BY <1>20, <1>4, <2>1, <3>1
      <4> QED BY <1>8, <2>2, <4>1
    <3>2. CASE o # 0
      <4>1. n = P - o BY <1>4, <1>10, <3>2
      <4>2. w < a /\ n + k = w - a + P + 1 BY <1>20, <2>1, <4>1
      <4> QED BY <1>8, <2>2, <4>2
    <3> QED BY <3>1, <3>2
  <2>5. w \in Reached(a, d) BY <1>3, <2>2, <2>3, <2>4 DEF Reached
  <2>6. c2.data[w - c2.at + 1] = d[n + k] BY <1>5, <1>7, <1>10, <2>3
  <2> QED BY <2>4, <2>5, <2>6
<1>11. ASSUME NEW w \in Reached(a, d)
       PROVE  \/ n # 0 /\ w \in Span(c1)
              \/ n # L /\ w \in Span(c2)
  <2>1. w \in PageOf(a) /\ Index(a, w) \in 1 .. L BY <1>3 DEF Reached
  <2>2. w \in Int /\ a - o <= w /\ w <= (a - o) + P - 1 BY <1>8, <2>1
  <2>3. CASE w >= a
    <3>1. w - a + 1 \in 1 .. L BY <1>8, <2>1, <2>3
    <3>2. CASE o = 0
      <4>1. n = 0 /\ n # L /\ w \in a - o .. (a - o) + (L - n) - 1
        BY <1>20, <1>4, <2>2, <2>3, <3>1, <3>2
      <4> QED BY <1>7, <4>1
    <3>3. CASE o # 0
      <4>1. w - a + 1 <= n BY <1>20, <1>4, <2>2, <3>1, <3>3
      <4>2. n # 0 /\ w \in a .. a + n - 1 BY <1>20, <1>4, <2>2, <2>3, <4>1
      <4> QED BY <1>6, <4>2
    <3> QED BY <3>2, <3>3
  <2>4. CASE w < a
    <3>1. w - a + P + 1 <= L BY <1>8, <2>1, <2>4
    <3>2. o # 0 /\ P - o < L BY <1>20, <2>2, <2>4, <3>1
    <3>3. n # L /\ n = P - o BY <1>20, <1>4, <3>2
    <3>4. w \in a - o .. (a - o) + (L - n) - 1 BY <1>20, <2>2, <3>1, <3>3
    <3> QED BY <1>7, <3>3, <3>4
  <2> QED BY <1>20, <2>2, <2>3, <2>4
<1>12. /\ t \in Seq(Calls)
       /\ \A i \in 1 .. Len(t) : (n # 0 /\ t[i] = c1) \/ (n # L /\ t[i] = c2)
       /\ n # 0 => \E i \in 1 .. Len(t) : t[i] = c1
       /\ n # L => \E i \in 1 .. Len(t) : t[i] = c2
  <2>1. CASE n # 0 /\ n # L
    <3>1. t = <<c1>> \o <<c2>> BY <2>1
    <3>2. t \in Seq(Calls) /\ Len(t) = 2 /\ t[1] = c1 /\ t[2] = c2
      <4>1. <<c1>> \in Seq(Calls) /\ <<c2>> \in Seq(Calls) /\ Len(<<c1>>) = 1 /\ Len(<<c2>>) = 1
        BY <1>6, <1>7, <2>1
      <4>2. /\ t \in Seq(Calls) /\ Len(t) = Len(<<c1>>) + Len(<<c2>>)
            /\ \A i \in 1 .. Len(<<c1>>) + Len(<<c2>>) :
                 t[i] = IF i <= Len(<<c1>>) THEN <<c1>>[i] ELSE <<c2>>[i - Len(<<c1>>)]
        BY <3>1, <4>1, ConcatProperties
      <4> HIDE DEF t
      <4> QED BY <4>1, <4>2
    <3> HIDE DEF t
    <3> QED BY <2>1, <3>2
  <2>2. CASE n # 0 /\ n = L
    <3>1. t = <<c1>> BY <2>2
    <3>2. t \in Seq(Calls) /\ Len(t) = 1 /\ t[1] = c1 BY <1>6, <2>2, <3>1
    <3> HIDE DEF t
    <3> QED BY <2>2, <3>2
  <2>3. CASE n = 0 /\ n # L
    <3>1. t = <<c2>> BY <2>3
    <3>2. t \in Seq(Calls) /\ Len(t) = 1 /\ t[1] = c2 BY <1>7, <2>3, <3>1
    <3> HIDE DEF t
    <3> QED BY <2>3, <3>2
  <2>4. CASE n = 0 /\ n = L
    <3>1. t = <<>> BY <2>4
    <3>2. t \in Seq(Calls) /\ Len(t) = 0 BY <3>1
    <3> HIDE DEF t
    <3> QED BY <2>4, <3>2
  <2> QED BY <2>1, <2>2, <2>3, <2>4
<1> HIDE DEF t
<1>13. ASSUME NEW i \in 1 .. Len(t)
       PROVE  /\ t[i].op = "write" /\ Span(t[i]) \subseteq Reached(a, d)
              /\ \A w \in Span(t[i]) : t[i].data[w - t[i].at + 1] = d[Index(a, w)]
  BY <1>6, <1>7, <1>9, <1>10, <1>12
<1>14. ASSUME NEW w \in Reached(a, d) PROVE \E i \in 1 .. Len(t) : w \in Span(t[i])
  BY <1>11, <1>12
<1> QED BY <1>1, <1>12, <1>13, <1>14 DEF Programs

-----------------------------------------------------------------------------
(* Types *)

Status       == [wip : BOOLEAN, wel : BOOLEAN]
Addresses    == [at : Nat \cup {None}, aligned : BOOLEAN]

RomType ==
  [pc : {"main", "boot", "bootstrap", "poll", "clear", "pop", "payload", "dispatch",
         "work", "verify", "shutdown"},
   state : {"Erase", "EraseVerify", "Program"}, overflow : BOOLEAN, cmd : HostCommands,
   todo : Seq(Calls), failed : BOOLEAN]

SpiType ==
  [on : BOOLEAN, txn : HostCommands \cup {None}, seen : BOOLEAN, staged : Status,
   committed : Status, sys : Status, pending : 0 .. 2, intr : BOOLEAN, overflow : BOOLEAN,
   cmds : Seq(Uploaded), addrs : Seq(Addresses), data : Payloads]

TypeInv ==
  /\ flash \in [Words -> Values]
  /\ perms \in SUBSET {"bank", "erase", "write"}
  /\ rom \in RomType
  /\ spi \in SpiType

LEMMA TypeInvImpliesTypeOK == TypeInv => TypeOK
BY DEF TypeInv, TypeOK, RomType, SpiType, HostCommands, Status

LEMMA BareType ==
  ASSUME NEW op \in Ops PROVE Bare(op) \in HostCommands /\ Bare(op).op = op
<1>1. <<>> \in Payloads
  BY Sizes DEF Payloads
<1> QED BY <1>1 DEF Bare, Command, HostCommands

LEMMA ResetTypes ==
  /\ IdleRom \in RomType
  /\ \A b \in BOOLEAN, c \in HostCommands \cup {None} :
       [ResetSpi EXCEPT !.seen = b, !.txn = c] \in SpiType
  /\ ResetSpi \in SpiType
<1>1. <<>> \in Payloads
  BY Sizes DEF Payloads
<1>2. Bare("OTHER") \in HostCommands BY BareType DEF Ops
<1>3. <<>> \in Seq(Calls) /\ <<>> \in Seq(Uploaded) /\ <<>> \in Seq(Addresses) OBVIOUS
<1>4. NoStatus \in Status BY DEF NoStatus, Status
<1>5. IdleRom \in RomType BY <1>2, <1>3 DEF IdleRom, RomType
<1>6. None \in HostCommands \cup {None} OBVIOUS
<1>7. ResetSpi \in SpiType BY <1>1, <1>3, <1>4, <1>6 DEF ResetSpi, SpiType
<1>8. ASSUME NEW b \in BOOLEAN, NEW c \in HostCommands \cup {None}
      PROVE  [ResetSpi EXCEPT !.seen = b, !.txn = c] \in SpiType
  BY <1>7 DEF SpiType
<1> QED BY <1>5, <1>7, <1>8

LEMMA PoppedType ==
  ASSUME NEW s \in SpiType PROVE Popped(s) \in SpiType
<1>1. NoStatus \in Status BY DEF NoStatus, Status
<1>2. ASSUME NEW k \in 0 .. 2, NEW x \in Status
      PROVE  [s EXCEPT !.pending = k, !.staged = x] \in SpiType
  BY DEF SpiType
<1>3. 0 \in 0 .. 2 OBVIOUS
<1>4. [s EXCEPT !.pending = 0, !.staged = NoStatus] \in SpiType BY <1>1, <1>2, <1>3, Zenon
<1>5. Popped(s) \in {s, [s EXCEPT !.pending = 0, !.staged = NoStatus]} BY DEF Popped
<1> QED BY <1>4, <1>5, Zenon

LEMMA ClearedType ==
  ASSUME NEW s \in SpiType PROVE StatusCleared(s) \in SpiType
BY DEF StatusCleared, SpiType

LEMMA ShiftedType ==
  ASSUME NEW s \in SpiType, NEW c \in HostCommands PROVE Shifted(s, c) \in SpiType
<1> DEFINE p == [Popped(s) EXCEPT !.txn = c]
<1>1. p \in SpiType BY PoppedType DEF SpiType
<1> HIDE DEF p
<1>2. ASSUME NEW b \in BOOLEAN
      PROVE  /\ [p EXCEPT !.seen = b] \in SpiType
             /\ [p EXCEPT !.staged.wel = b] \in SpiType
  BY <1>1 DEF SpiType, Status
<1>3. ASSUME c.op \in Uploaded
      PROVE  [p EXCEPT !.staged.wip = TRUE, !.data = <<>>, !.cmds = Append(@, c.op)] \in SpiType
  <2>1. <<>> \in Payloads BY Sizes DEF Payloads
  <2>2. Append(p.cmds, c.op) \in Seq(Uploaded) BY <1>1, <1>3 DEF SpiType
  <2> QED BY <1>1, <2>1, <2>2 DEF SpiType, Status
<1>4. s.committed.wip \in BOOLEAN BY DEF SpiType, Status
<1>5. CASE c.op = "READ_STATUS"
  <2>1. Shifted(s, c) = [p EXCEPT !.seen = s.committed.wip] BY <1>5 DEF Shifted, p
  <2> QED BY <1>2, <1>4, <2>1
<1>6. CASE c.op = "WREN"
  <2>1. Shifted(s, c) = [p EXCEPT !.staged.wel = TRUE] BY <1>6 DEF Shifted, p
  <2> QED BY <1>2, <2>1
<1>7. CASE c.op = "WRDI"
  <2>1. Shifted(s, c) = [p EXCEPT !.staged.wel = FALSE] BY <1>7 DEF Shifted, p
  <2> QED BY <1>2, <2>1
<1>8. CASE c.op \in Uploaded
  <2>1. Shifted(s, c) = [p EXCEPT !.staged.wip = TRUE, !.data = <<>>, !.cmds = Append(@, c.op)]
    BY <1>8 DEF Shifted, p, Uploaded
  <2> QED BY <1>3, <1>8, <2>1
<1> QED BY <1>5, <1>6, <1>7, <1>8 DEF HostCommands, Uploaded

LEMMA ReleasedType ==
  ASSUME NEW s \in SpiType, s.txn # None PROVE Released(s) \in SpiType
<1> DEFINE c == s.txn
           d == [s EXCEPT !.txn = None, !.committed = s.staged, !.sys = s.staged]
           a == IF c.at = None THEN s.addrs
                ELSE Append(s.addrs, [at |-> c.at, aligned |-> c.aligned])
<1>1. c \in HostCommands BY DEF SpiType
<1>2. d \in SpiType /\ d.addrs = s.addrs BY DEF SpiType
<1>3. a \in Seq(Addresses)
  <2>1. s.addrs \in Seq(Addresses) BY DEF SpiType
  <2>2. c.at # None => [at |-> c.at, aligned |-> c.aligned] \in Addresses
    BY <1>1 DEF HostCommands, Addresses
  <2> QED BY <2>1, <2>2
<1> HIDE DEF d, a
<1>4. [d EXCEPT !.addrs = a, !.data = c.data, !.intr = TRUE, !.overflow = @ \/ c.over] \in SpiType
  BY <1>1, <1>2, <1>3 DEF SpiType, HostCommands
<1>5. Released(s) = IF c.op \notin Uploaded THEN d
        ELSE [d EXCEPT !.addrs = a, !.data = c.data, !.intr = TRUE, !.overflow = @ \/ c.over]
  BY <1>2 DEF Released, d, a
<1> QED BY <1>2, <1>4, <1>5

(* Steps keep the types *)

\* The calls that FirstErase and StartJob begin.
LEMMA JobCalls ==
  ASSUME TypeInv, StartJob
  PROVE  \/ rom.cmd.op = "CHIP_ERASE" /\ rom' = WithJob(ChipErase) /\ Erases(ChipErase, Words)
         \/ /\ rom.cmd.op = "SECTOR_ERASE" /\ rom' = WithJob(SectorErase(rom.cmd.at))
            /\ Erases(SectorErase(rom.cmd.at), SectorOf(rom.cmd.at))
         \/ /\ rom.cmd.op = "PAGE_PROGRAM" /\ rom' = WithJob(PageProgram(rom.cmd.at, rom.cmd.data))
            /\ Programs(PageProgram(rom.cmd.at, rom.cmd.data), rom.cmd.at, rom.cmd.data)
<1>1. rom.cmd \in HostCommands BY DEF TypeInv, RomType
<1>2. rom.cmd.op \in {"SECTOR_ERASE", "PAGE_PROGRAM"} =>
        rom.cmd.at \in Nat /\ rom.cmd.at < MaxAddress
  BY <1>1 DEF StartJob, GoodCommand, InRange, HostCommands
<1>3. rom.cmd.data \in Payloads BY <1>1 DEF HostCommands
<1> QED BY <1>2, <1>3, ChipEraseCalls, SectorEraseCalls, PageProgramCalls DEF StartJob

LEMMA ResetKeepsTypes ==
  ASSUME TypeInv, ChipReset PROVE TypeInv'
<1>1. flash' \in [Words -> Values]
  <2>1. CASE flash' = flash BY <2>1 DEF TypeInv
  <2>2. CASE rom.todo # <<>> /\ flash' \in CutOff(Head(rom.todo))
    <3>1. rom.todo \in Seq(Calls) BY DEF TypeInv, RomType
    <3>2. Head(rom.todo) \in Calls BY <2>2, <3>1
    <3> QED BY <2>2, <3>2, CutOffWords DEF TypeInv
  <2> QED BY <2>1, <2>2 DEF ChipReset
<1>2. rom' \in RomType BY ResetTypes DEF ChipReset
<1>3. spi' \in SpiType
  <2>1. PICK b \in BOOLEAN :
          spi' = [ResetSpi EXCEPT !.seen = IF spi.txn = None THEN FALSE ELSE b,
                                  !.txn = IF spi.txn = None THEN None ELSE Bare("READ_STATUS")]
    BY DEF ChipReset
  <2>2. /\ (IF spi.txn = None THEN FALSE ELSE b) \in BOOLEAN
        /\ (IF spi.txn = None THEN None ELSE Bare("READ_STATUS")) \in HostCommands \cup {None}
    BY BareType DEF Ops
  <2> QED BY <2>1, <2>2, ResetTypes
<1> QED BY <1>1, <1>2, <1>3 DEF TypeInv, ChipReset

LEMMA TransactionKeepsTypes ==
  ASSUME TypeInv, Transaction \/ FailedTransaction PROVE TypeInv'
<1> DEFINE c == Head(rom.todo)
<1>1. rom.todo \in Seq(Calls) /\ rom.todo # <<>> /\ rom \in RomType
  BY DEF TypeInv, RomType, Transaction, FailedTransaction
<1>2. c \in Calls /\ Tail(rom.todo) \in Seq(Calls)
  BY <1>1
<1> HIDE DEF c
<1>3. flash' \in [Words -> Values]
  <2>1. \A m \in CutOff(c) : m \in [Words -> Values] BY <1>2, CutOffWords DEF TypeInv
  <2>2. After(c, Window(c), FALSE) \in [Words -> Values]
    <3>1. Window(c) \in 0 .. c.words BY <1>2, WindowSize DEF Calls
    <3> QED BY <1>2, <3>1, AfterWords DEF TypeInv
  <2> QED BY <2>1, <2>2 DEF Transaction, FailedTransaction, c
<1>4. RestOf(c) \o Tail(rom.todo) \in Seq(Calls)
  <2>1. RestOf(c) = <<>> \/ \E d \in Calls : RestOf(c) = <<d>> BY <1>2, Rest
  <2> QED BY <1>1, <2>1, CallsLeft
<1>5. rom' \in RomType
  <2>1. CASE Transaction
    <3>1. rom' = [rom EXCEPT !.todo = RestOf(c) \o Tail(rom.todo)]
      BY <2>1 DEF Transaction, c
    <3> QED BY <1>1, <1>4, <3>1 DEF RomType
  <2>2. CASE FailedTransaction
    <3>1. rom' = [rom EXCEPT !.todo = Tail(rom.todo), !.failed = TRUE]
      BY <2>2 DEF FailedTransaction, AfterError
    <3> QED BY <1>1, <1>2, <3>1 DEF RomType
  <2> QED BY <2>1, <2>2
<1> QED BY <1>3, <1>5 DEF TypeInv, Transaction, FailedTransaction

LEMMA CommandKeepsTypes ==
  ASSUME TypeInv, CmdWait \/ CmdClear \/ CmdPop \/ CmdPayload PROVE TypeInv'
<1>1. rom \in RomType /\ spi \in SpiType BY DEF TypeInv
<1>2. CASE CmdWait
  <2>1. rom' \in RomType BY <1>1, <1>2 DEF CmdWait, RomType, SpiType
  <2> QED BY <1>2, <2>1 DEF TypeInv, CmdWait
<1>3. CASE CmdClear
  <2>1. rom' \in RomType BY <1>1, <1>3 DEF CmdClear, RomType
  <2>2. spi' \in SpiType BY <1>1, <1>3 DEF CmdClear, SpiType
  <2> QED BY <1>3, <2>1, <2>2 DEF TypeInv, CmdClear
<1>4. CASE CmdPop
  <2> DEFINE op == IF spi.cmds = <<>> THEN "OTHER" ELSE Head(spi.cmds)
             a  == IF spi.addrs = <<>> THEN [at |-> None, aligned |-> TRUE] ELSE Head(spi.addrs)
  <2>1. spi.cmds \in Seq(Uploaded) /\ spi.addrs \in Seq(Addresses) BY <1>1 DEF SpiType
  <2>2. op \in Ops BY <2>1 DEF Uploaded, Ops
  <2>3. a \in Addresses
    <3>1. [at |-> None, aligned |-> TRUE] \in Addresses BY DEF Addresses
    <3>2. spi.addrs # <<>> => Head(spi.addrs) \in Addresses BY <2>1
    <3> QED BY <3>1, <3>2
  <2>4. Command(op, a.at, a.aligned, <<>>, FALSE) \in HostCommands
    <3>1. <<>> \in Payloads BY Sizes DEF Payloads
    <3>2. a.at \in Nat \cup {None} /\ a.aligned \in BOOLEAN BY <2>3 DEF Addresses
    <3> HIDE DEF op, a
    <3> QED BY <2>2, <3>1, <3>2 DEF Command, HostCommands
  <2>5. rom' = [rom EXCEPT !.pc = "payload", !.cmd = Command(op, a.at, a.aligned, <<>>, FALSE)]
    BY <1>4 DEF CmdPop
  <2> HIDE DEF op, a
  <2>6. rom' \in RomType BY <1>1, <2>4, <2>5 DEF RomType
  <2>7. spi' \in SpiType
    <3> DEFINE x == IF spi.cmds = <<>> THEN spi.cmds ELSE Tail(spi.cmds)
               y == IF spi.addrs = <<>> THEN spi.addrs ELSE Tail(spi.addrs)
    <3>1. x \in Seq(Uploaded) /\ y \in Seq(Addresses) BY <2>1
    <3>2. spi' = [spi EXCEPT !.cmds = x, !.addrs = y] BY <1>4 DEF CmdPop
    <3> HIDE DEF x, y
    <3> QED BY <1>1, <3>1, <3>2 DEF SpiType
  <2> QED BY <1>4, <2>6, <2>7 DEF TypeInv, CmdPop
<1>5. CASE CmdPayload
  <2>1. spi.data \in Payloads BY <1>1 DEF SpiType
  <2>2. rom' = [rom EXCEPT !.pc = "dispatch", !.cmd.data = spi.data] BY <1>5 DEF CmdPayload
  <2>3. rom' \in RomType BY <1>1, <2>1, <2>2 DEF RomType, HostCommands
  <2> QED BY <1>5, <2>3 DEF TypeInv, CmdPayload
<1> QED BY <1>2, <1>3, <1>4, <1>5

LEMMA RomKeepsTypes ==
  ASSUME TypeInv, RomNext PROVE TypeInv'
<1>1. rom \in RomType /\ spi \in SpiType BY DEF TypeInv
<1>2. CASE RomMain \/ EnterBootstrap
  <2>1. rom' \in RomType BY <1>1, <1>2 DEF RomMain, EnterBootstrap, RomType
  <2>2. spi' \in SpiType
    <3>1. [spi EXCEPT !.on = TRUE] \in SpiType BY <1>1 DEF SpiType
    <3> QED BY <1>1, <1>2, <3>1, ClearedType DEF RomMain, EnterBootstrap, SpiDeviceInit
  <2> QED BY <1>2, <2>1, <2>2 DEF TypeInv, RomMain, EnterBootstrap
<1>3. CASE Ignore \/ Skip \/ BadAddress \/ EraseVerify \/ EndJob
  <2>1. rom' \in RomType
    BY <1>1, <1>3 DEF Ignore, Skip, BadAddress, EraseVerify, EndJob, EndCommand, RomType
  <2>2. spi' \in {spi, StatusCleared(spi)} /\ flash' = flash /\ perms' \in {perms, {}}
    BY <1>3 DEF Ignore, Skip, BadAddress, EraseVerify, EndJob
  <2> QED BY <1>1, <2>1, <2>2, ClearedType DEF TypeInv
<1>4. CASE FirstErase \/ StartJob
  <2>1. \E todo \in Seq(Calls) : rom' = WithJob(todo)
    <3>1. ASSUME FirstErase PROVE rom' = WithJob(ChipErase) /\ ChipErase \in Seq(Calls)
      BY <3>1, ChipEraseCalls DEF FirstErase, Erases
    <3> QED BY <1>4, <3>1, JobCalls DEF Erases, Programs
  <2>2. rom' \in RomType BY <1>1, <2>1 DEF RomType, WithJob
  <2>3. perms' \in SUBSET {"bank", "erase", "write"} /\ flash' = flash /\ spi' = spi
    BY <1>4 DEF FirstErase, StartJob
  <2> QED BY <2>2, <2>3 DEF TypeInv
<1>5. CASE ResetCommand \/ Shutdown
  BY <1>5, ResetKeepsTypes DEF ResetCommand, Shutdown
<1> QED BY <1>2, <1>3, <1>4, <1>5, CommandKeepsTypes, TransactionKeepsTypes DEF RomNext

LEMMA StepKeepsTypes ==
  ASSUME TypeInv, [Next]_vars PROVE TypeInv'
<1>1. spi \in SpiType BY DEF TypeInv
<1>2. CASE AnyShift
  <2>1. PICK c \in {Bare("READ_STATUS"), Bare("WREN"), Bare("WRDI")} \cup Commands : Shift(c)
    BY <1>2 DEF AnyShift
  <2>2. /\ Bare("READ_STATUS") \in HostCommands /\ Bare("WREN") \in HostCommands
        /\ Bare("WRDI") \in HostCommands
    BY BareType DEF Ops
  <2>3. Commands \subseteq HostCommands
    BY CommandsAssumption DEF HostCommands, Uploaded
  <2>4. spi' \in SpiType
    <3>1. Shifted(spi, c) \in SpiType BY <1>1, <2>1, <2>2, <2>3, ShiftedType
    <3>2. ASSUME NEW b \in BOOLEAN, NEW x \in HostCommands
          PROVE  [spi EXCEPT !.txn = x, !.seen = b] \in SpiType
      BY <1>1 DEF SpiType
    <3> QED BY <2>1, <2>2, <3>1, <3>2 DEF Shift
  <2> QED BY <1>2, <2>4 DEF TypeInv, AnyShift
<1>3. CASE LatePop \/ AnyRelease
  BY <1>1, <1>3, PoppedType, ReleasedType DEF TypeInv, LatePop, AnyRelease
<1>4. CASE AnyStrap \/ UNCHANGED vars
  BY <1>4 DEF TypeInv, AnyStrap, vars
<1>5. CASE AnyReset
  BY <1>5, ResetKeepsTypes DEF AnyReset
<1> QED BY <1>2, <1>3, <1>4, <1>5, RomKeepsTypes DEF Next, AnyNext

LEMMA InitTypes == Init => TypeInv
BY BootstrapAssumption, ResetTypes DEF Init, TypeInv

\* The types of the variables; in particular no call of flash_ctrl leaves the
\* data partition, and every write comes with as many words as it writes:
\* whatever addresses and payloads a host sends, for every geometry of flash.
THEOREM TypeCorrect == Spec => []TypeOK
BY InitTypes, StepKeepsTypes, TypeInvImpliesTypeOK, PTL DEF Spec

-----------------------------------------------------------------------------
(* What is left of a command *)

IsProgram == rom.state = "Program" /\ rom.cmd.op = "PAGE_PROGRAM"

\* The words of the command, and what it makes of each of them.
Target ==
  IF IsProgram THEN Reached(rom.cmd.at, rom.cmd.data)
  ELSE IF rom.state # "Program" \/ rom.cmd.op = "CHIP_ERASE" THEN Words
  ELSE SectorOf(rom.cmd.at)

Given(w) == rom.cmd.data[Index(rom.cmd.at, w)]
Final(w) == IF IsProgram THEN Programmed(flash[w], Given(w)) ELSE Erased

\* A call that does a part of the command.
Fits(c) ==
  /\ Span(c) \subseteq Target
  /\ IF IsProgram
     THEN c.op = "write" /\ \A w \in Span(c) : c.data[w - c.at + 1] = Given(w)
     ELSE c.op = "erase"

Finished(w) == flash[w] = Final(w)
Waiting(w)  == \E i \in 1 .. Len(rom.todo) : w \in Span(rom.todo[i])

JobInv ==
  /\ rom.pc = "verify" => rom.state = "EraseVerify"
  /\ rom.pc = "work" =>
       /\ \A i \in 1 .. Len(rom.todo) : Fits(rom.todo[i])
       /\ ~rom.failed /\ ~WeakErase => \A w \in Target : Finished(w) \/ Waiting(w)

RefInv == TypeInv /\ PermInv /\ JobInv

LEMMA EffectIs ==
  ASSUME WorkMatches, rom.pc = "work"
  PROVE  Effect = [w \in Target |-> Final(w)]
<1> USE DEF Effect, NorEffect, Target, Final, Given, IsProgram
<1>1. CASE rom.state = "Erase"
  <2>1. Bare("CHIP_ERASE").op = "CHIP_ERASE" BY DEF Bare, Command
  <2> QED BY <1>1, <2>1
<1>2. CASE rom.state = "Program" /\ rom.cmd.op = "PAGE_PROGRAM"
  <2>1. NorEffect(rom.cmd, flash) = ProgramEffect(rom.cmd, flash) BY <1>2
  <2>2. ProgramEffect(rom.cmd, flash)
          = [w \in Reached(rom.cmd.at, rom.cmd.data) |-> Programmed(flash[w], Given(w))]
    BY DEF ProgramEffect, Reached, Index
  <2> QED BY <1>2, <2>1, <2>2
<1>3. CASE rom.state = "Program" /\ rom.cmd.op \in {"CHIP_ERASE", "SECTOR_ERASE"}
  BY <1>3
<1> QED BY <1>1, <1>2, <1>3 DEF WorkMatches

LEMMA EffectIsNext ==
  (WorkMatches /\ rom.pc = "work" => Effect = [w \in Target |-> Final(w)])'
<1>1. WorkMatches /\ rom.pc = "work" => Effect = [w \in Target |-> Final(w)]
  BY EffectIs
<1> QED BY <1>1, PTL

LEMMA TargetInside == ASSUME TypeInv PROVE Target \subseteq Words
BY DEF Target, Reached, PageOf, SectorOf

LEMMA GivenType ==
  ASSUME TypeInv, IsProgram, NEW w \in Target PROVE Given(w) \in ProgramWords
<1>1. Index(rom.cmd.at, w) \in DOMAIN rom.cmd.data BY DEF Target, Reached
<1>2. rom.cmd.data \in Seq(ProgramWords)
  BY DEF TypeInv, RomType, HostCommands, Payloads, ProgramWords
<1> QED BY <1>1, <1>2 DEF Given

LEMMA FinalType ==
  ASSUME TypeInv, NEW w \in Target PROVE Final(w) \in Values
<1>1. w \in Words BY TargetInside
<1>2. Erased \in Values BY DEF Values
<1> QED BY <1>1, <1>2, GivenType, ProgrammedTwice DEF Final, TypeInv

(* Transactions *)

\* What a transaction leaves of flash, of the command and of its calls.
LEMMA TransactionDoes ==
  ASSUME RefInv, Transaction \/ FailedTransaction
  PROVE  LET c == Head(rom.todo)
         IN  /\ rom.pc = "work" /\ rom'.pc = "work" /\ rom'.state = rom.state
             /\ rom'.cmd = rom.cmd
             /\ rom.todo \in Seq(Calls) /\ rom.todo # <<>>
             /\ c \in Calls /\ Fits(c) /\ c = rom.todo[1]
             /\ flash' \in [Words -> Values]
             /\ \A w \in Words : flash'[w] # flash[w] => w \in Span(c)
<1> DEFINE c == Head(rom.todo)
<1>1. rom.todo \in Seq(Calls) /\ rom.todo # <<>> /\ rom.pc = "work" /\ rom \in RomType
  BY DEF RefInv, TypeInv, RomType, Transaction, FailedTransaction
<1>2. c \in Calls /\ c = rom.todo[1] /\ 1 \in 1 .. Len(rom.todo)
  BY <1>1
<1>3. Fits(c) BY <1>1, <1>2 DEF RefInv, JobInv
<1> HIDE DEF c
<1>4. flash' \in [Words -> Values] /\ \A w \in Words : flash'[w] # flash[w] => w \in Span(c)
  <2>1. \A m \in CutOff(c) :
          m \in [Words -> Values] /\ \A w \in Words : m[w] # flash[w] => w \in Span(c)
    BY <1>2, CutOffWords DEF RefInv, TypeInv
  <2>2. /\ After(c, Window(c), FALSE) \in [Words -> Values]
        /\ \A w \in Words : After(c, Window(c), FALSE)[w] # flash[w] => w \in Span(c)
    <3>1. Window(c) \in 0 .. c.words BY <1>2, WindowSize DEF Calls
    <3> QED BY <1>2, <3>1, AfterWords DEF RefInv, TypeInv
  <2>3. flash' = After(c, Window(c), FALSE) \/ flash' \in CutOff(c)
    BY DEF Transaction, FailedTransaction, c
  <2>4. CASE flash' \in CutOff(c) BY <2>1, <2>4
  <2>5. CASE flash' = After(c, Window(c), FALSE) BY <2>2, <2>5
  <2> QED BY <2>3, <2>4, <2>5
<1>5. rom'.pc = "work" /\ rom'.state = rom.state /\ rom'.cmd = rom.cmd
  BY <1>1 DEF RomType, Transaction, FailedTransaction, AfterError
<1> QED BY <1>1, <1>2, <1>3, <1>4, <1>5 DEF c

\* The command stays what it is.
LEMMA SameCommand ==
  ASSUME rom'.state = rom.state, rom'.cmd = rom.cmd
  PROVE  /\ IsProgram' = IsProgram /\ Target' = Target
         /\ \A w : Given(w)' = Given(w)
         /\ \A w : Final(w)' = IF IsProgram THEN Programmed(flash'[w], Given(w)) ELSE Erased
<1>1. IsProgram' = IsProgram BY DEF IsProgram
<1>2. Target' = Target BY <1>1 DEF Target
<1>3. \A w : Given(w)' = Given(w) BY DEF Given
<1> QED BY <1>1, <1>2, <1>3 DEF Final

\* A transaction without an error: its words take their final contents, and the
\* others stay.
LEMMA TransactionWords ==
  ASSUME RefInv, Transaction
  PROVE  /\ \A w \in Target : Final(w)' = Final(w)
         /\ ~WeakErase =>
              LET c == Head(rom.todo)
              IN  /\ \A w \in c.at .. c.at + Window(c) - 1 : flash'[w] = Final(w)
                  /\ \A w \in Words : w \notin c.at .. c.at + Window(c) - 1 => flash'[w] = flash[w]
<1> DEFINE c == Head(rom.todo)
           W == c.at .. c.at + Window(c) - 1
<1>1. /\ rom'.state = rom.state /\ rom'.cmd = rom.cmd /\ c \in Calls /\ Fits(c)
  BY TransactionDoes
<1> HIDE DEF c
<1>2. /\ Window(c) \in 0 .. c.words /\ W \subseteq Span(c)
      /\ Span(c) \subseteq Target /\ Target \subseteq Words
  <2>1. Window(c) \in 1 .. c.words /\ c.words \in Nat /\ c.at \in Nat
    BY <1>1, WindowSize DEF Calls, Words
  <2> QED BY <1>1, <2>1, TargetInside DEF RefInv, Fits, Span
<1>3. ASSUME NEW w \in Span(c) PROVE Result(c, w) = Final(w)
  BY <1>1 DEF Fits, Result, Final
<1>4. CASE flash' = After(c, Window(c), FALSE)
  <2>1. /\ \A w \in W : flash'[w] = Result(c, w)
        /\ \A w \in Words : w \notin W => flash'[w] = flash[w]
    BY <1>1, <1>2, <1>4, AfterWords DEF RefInv, TypeInv
  <2>2. ASSUME NEW w \in Target PROVE Final(w)' = Final(w)
    <3>1. CASE ~IsProgram BY <1>1, <3>1, SameCommand DEF Final
    <3>2. CASE IsProgram
      <4>1. Final(w)' = Programmed(flash'[w], Given(w)) BY <1>1, <3>2, SameCommand
      <4>2. Final(w) = Programmed(flash[w], Given(w)) BY <3>2 DEF Final
      <4>3. CASE w \in W
        <5>1. flash'[w] = Programmed(flash[w], Given(w)) BY <1>2, <1>3, <2>1, <4>2, <4>3
        <5>2. flash[w] \in Values /\ Given(w) \in ProgramWords
          BY <1>2, <3>2, GivenType DEF RefInv, TypeInv
        <5> QED BY <4>1, <4>2, <5>1, <5>2, ProgrammedTwice
      <4>4. CASE w \notin W
        <5>1. flash'[w] = flash[w] BY <1>2, <2>1, <4>4
        <5> QED BY <4>1, <4>2, <5>1
      <4> QED BY <4>3, <4>4
    <3> QED BY <3>1, <3>2
  <2> QED BY <1>2, <1>3, <2>1, <2>2 DEF c
<1>5. CASE WeakErase /\ c.op = "erase"
  <2>1. ~IsProgram BY <1>1, <1>5 DEF Fits
  <2> QED BY <1>1, <1>5, <2>1, SameCommand DEF Final
<1> QED BY <1>4, <1>5 DEF Transaction, c

(* The job invariant *)

LEMMA FitsNext ==
  ASSUME rom'.state = rom.state, rom'.cmd = rom.cmd, NEW i, Fits(rom'.todo[i])
  PROVE  Fits(rom.todo[i])'
BY SameCommand DEF Fits

LEMMA TransactionKeepsJob ==
  ASSUME RefInv, Transaction PROVE JobInv'
<1> DEFINE c == Head(rom.todo)
           r == RestOf(c)
           t == r \o Tail(rom.todo)
           n == Window(c)
<1>1. /\ rom.pc = "work" /\ rom'.pc = "work" /\ rom'.state = rom.state /\ rom'.cmd = rom.cmd
      /\ rom.todo \in Seq(Calls) /\ rom.todo # <<>> /\ c \in Calls /\ Fits(c)
      /\ c = rom.todo[1]
  BY TransactionDoes
<1>2. rom'.todo = t /\ rom'.failed = rom.failed
  BY DEF Transaction, RefInv, TypeInv, RomType
<1> HIDE DEF c
<1>3. \/ n = c.words /\ r = <<>>
      \/ \E d \in Calls :
           /\ r = <<d>> /\ d.op = c.op /\ c.op = "write"
           /\ Span(d) = c.at + n .. c.at + c.words - 1
           /\ \A w \in Span(d) : d.data[w - d.at + 1] = c.data[w - c.at + 1]
  BY <1>1, Rest
<1> HIDE DEF r
<1>4. r = <<>> \/ \E x \in Calls : r = <<x>> BY <1>3
<1>5. HeadReplaced(t, rom.todo, r)
  BY <1>1, <1>4, CallsLeft
<1> HIDE DEF t
<1>6. /\ c.at \in Nat /\ c.words \in Nat /\ n \in 1 .. c.words
      /\ Span(c) = c.at .. c.at + c.words - 1
  BY <1>1, WindowSize DEF Calls, Words, Span
<1> HIDE DEF n
<1>7. ASSUME NEW d, r = <<d>> PROVE Fits(d) /\ Span(d) = c.at + n .. c.at + c.words - 1
  <2>1. /\ d.op = c.op /\ c.op = "write"
        /\ Span(d) = c.at + n .. c.at + c.words - 1
        /\ \A w \in Span(d) : d.data[w - d.at + 1] = c.data[w - c.at + 1]
    <3>1. PICK x \in Calls :
            /\ r = <<x>> /\ x.op = c.op /\ c.op = "write"
            /\ Span(x) = c.at + n .. c.at + c.words - 1
            /\ \A w \in Span(x) : x.data[w - x.at + 1] = c.data[w - c.at + 1]
      BY <1>3, <1>7
    <3>2. x = d BY <1>7, <3>1
    <3> QED BY <3>1, <3>2
  <2>2. Span(d) \subseteq Span(c) BY <1>6, <2>1
  <2> QED BY <1>1, <2>1, <2>2 DEF Fits
<1>8. ASSUME NEW i \in 1 .. Len(t) PROVE Fits(t[i])
  <2>1. CASE r = <<t[i]>> BY <1>7, <2>1
  <2>2. ASSUME NEW j \in 2 .. Len(rom.todo), t[i] = rom.todo[j] PROVE Fits(t[i])
    <3>1. j \in 1 .. Len(rom.todo) OBVIOUS
    <3> QED BY <1>1, <2>2, <3>1 DEF RefInv, JobInv
  <2> QED BY <1>5, <2>1, <2>2 DEF HeadReplaced
<1>9. \A i \in 1 .. Len(rom'.todo) : Fits(rom.todo[i])'
  BY <1>1, <1>2, <1>8, FitsNext
<1>10. ASSUME ~rom.failed, ~WeakErase, NEW w \in Target
       PROVE  flash'[w] = Final(w) \/ \E i \in 1 .. Len(t) : w \in Span(t[i])
  <2> DEFINE W == c.at .. c.at + n - 1
  <2>1. /\ \A v \in W : flash'[v] = Final(v)
        /\ \A v \in Words : v \notin W => flash'[v] = flash[v]
    BY <1>10, TransactionWords DEF c, n
  <2>2. w \in Words BY TargetInside DEF RefInv
  <2>3. Finished(w) \/ Waiting(w) BY <1>1, <1>10 DEF RefInv, JobInv
  <2>4. CASE w \in W BY <2>1, <2>4
  <2>5. CASE w \notin W /\ Finished(w) BY <2>1, <2>2, <2>5 DEF Finished
  <2>6. CASE w \notin W /\ Waiting(w)
    <3>1. PICK j \in 1 .. Len(rom.todo) : w \in Span(rom.todo[j]) BY <2>6 DEF Waiting
    <3>2. CASE j # 1
      <4>1. j \in 2 .. Len(rom.todo) BY <1>1, <3>2
      <4> QED BY <1>5, <3>1, <4>1 DEF HeadReplaced
    <3>3. CASE j = 1
      <4>1. w \in Span(c) BY <1>1, <3>1, <3>3
      <4>2. w \in c.at + n .. c.at + c.words - 1 BY <1>6, <2>6, <4>1
      <4>3. n # c.words BY <1>6, <4>2
      <4>4. r # <<>>
        <5>1. PICK d \in Calls : r = <<d>> BY <1>3, <4>3
        <5> QED BY <5>1
      <4> QED BY <1>5, <1>7, <4>2, <4>4 DEF HeadReplaced
    <3> QED BY <3>2, <3>3
  <2> QED BY <2>3, <2>4, <2>5, <2>6
<1>11. ASSUME ~rom.failed, ~WeakErase, NEW w \in Target
       PROVE  Finished(w)' \/ Waiting(w)'
  <2>1. Final(w)' = Final(w) BY TransactionWords
  <2> QED BY <1>2, <1>10, <1>11, <2>1 DEF Finished, Waiting
<1>12. Target' = Target BY <1>1, SameCommand
<1> QED BY <1>1, <1>2, <1>9, <1>11, <1>12 DEF JobInv

LEMMA FailureKeepsJob ==
  ASSUME RefInv, FailedTransaction PROVE JobInv'
<1>1. /\ rom.pc = "work" /\ rom'.pc = "work" /\ rom'.state = rom.state /\ rom'.cmd = rom.cmd
      /\ rom.todo \in Seq(Calls) /\ rom.todo # <<>>
  BY TransactionDoes
<1>2. rom'.todo = Tail(rom.todo) /\ rom'.failed
  BY DEF FailedTransaction, AfterError, RefInv, TypeInv, RomType
<1>3. ASSUME NEW i \in 1 .. Len(Tail(rom.todo)) PROVE Fits(Tail(rom.todo)[i])
  <2>1. i + 1 \in 1 .. Len(rom.todo) /\ Tail(rom.todo)[i] = rom.todo[i + 1]
    BY <1>1
  <2> QED BY <1>1, <2>1 DEF RefInv, JobInv
<1>4. \A i \in 1 .. Len(rom'.todo) : Fits(rom.todo[i])'
  BY <1>1, <1>2, <1>3, FitsNext
<1> QED BY <1>1, <1>2, <1>4 DEF JobInv

LEMMA BeginKeepsJob ==
  ASSUME RefInv, FirstErase \/ StartJob PROVE JobInv'
<1>1. rom \in RomType /\ rom.pc = "dispatch" /\ WorkMatches
  BY DEF RefInv, TypeInv, PermInv, FirstErase, StartJob
<1>2. \E t \in Seq(Calls) : rom' = WithJob(t)
  BY ChipEraseCalls, JobCalls DEF FirstErase, Erases, Programs, RefInv
<1>3. rom'.pc = "work" /\ rom'.state = rom.state /\ rom'.cmd = rom.cmd
  BY <1>1, <1>2 DEF WithJob, RomType
<1>4. ASSUME NEW t, rom' = WithJob(t) PROVE rom'.todo = t
  BY <1>1, <1>4 DEF WithJob, RomType
<1>5. /\ IsProgram' = IsProgram /\ Target' = Target /\ \A w : Given(w)' = Given(w)
  BY <1>3, SameCommand
<1>6. CASE ~IsProgram /\ Erases(rom'.todo, Target)
  <2>1. ASSUME NEW i \in 1 .. Len(rom'.todo) PROVE Fits(rom.todo[i])'
    <3>1. Fits(rom'.todo[i]) BY <1>6 DEF Erases, Fits
    <3> QED BY <1>3, <3>1, FitsNext
  <2>2. \A w \in Target' : Waiting(w)' BY <1>5, <1>6 DEF Erases, Waiting
  <2> QED BY <1>3, <2>1, <2>2 DEF JobInv
<1>7. CASE IsProgram /\ Programs(rom'.todo, rom.cmd.at, rom.cmd.data)
  <2>1. Target = Reached(rom.cmd.at, rom.cmd.data) BY <1>7 DEF Target
  <2>2. ASSUME NEW i \in 1 .. Len(rom'.todo) PROVE Fits(rom.todo[i])'
    <3>1. Fits(rom'.todo[i]) BY <1>7, <2>1 DEF Programs, Fits, Given
    <3> QED BY <1>3, <3>1, FitsNext
  <2>3. \A w \in Target' : Waiting(w)' BY <1>5, <1>7, <2>1 DEF Programs, Waiting
  <2> QED BY <1>3, <2>2, <2>3 DEF JobInv
<1>8. CASE FirstErase
  <2>1. ~IsProgram /\ Target = Words BY <1>8 DEF FirstErase, IsProgram, Target
  <2>2. rom'.todo = ChipErase BY <1>4, <1>8 DEF FirstErase
  <2> QED BY <1>6, <2>1, <2>2, ChipEraseCalls
<1>9. CASE StartJob
  <2>1. rom.state = "Program" BY <1>9 DEF StartJob
  <2> QED BY <1>4, <1>6, <1>7, <1>9, <2>1, JobCalls DEF IsProgram, Target, RefInv
<1> QED BY <1>8, <1>9

\* The steps of the ROM outside of a command's work.
Between ==
  \/ RomMain \/ EnterBootstrap \/ CmdWait \/ CmdClear \/ CmdPop \/ CmdPayload
  \/ Ignore \/ Skip \/ BadAddress \/ EraseVerify

\* Steps of the host and the bus.
Outside == LatePop \/ AnyShift \/ AnyRelease \/ AnyStrap \/ UNCHANGED vars

Resets == ResetCommand \/ Shutdown \/ AnyReset

LEMMA Steps ==
  [Next]_vars <=> \/ Between \/ Outside \/ Resets \/ FirstErase \/ StartJob
                  \/ Transaction \/ FailedTransaction \/ EndJob
BY DEF Next, RomNext, AnyNext, Between, Outside, Resets

LEMMA BetweenDoes ==
  ASSUME RefInv, Between
  PROVE  /\ rom.pc # "work" /\ rom'.pc \notin {"work", "verify"}
         /\ flash' = flash /\ rom'.cmd.op \in Ops
         /\ \/ rom'.state = rom.state
            \/ rom.state = "EraseVerify" /\ rom'.state = "Program" /\ Verified
<1>1. rom \in RomType /\ rom' \in RomType /\ rom.cmd \in HostCommands /\ rom'.cmd \in HostCommands
  BY Steps, StepKeepsTypes DEF RefInv, TypeInv, RomType
<1>2. rom'.cmd.op \in Ops BY <1>1 DEF HostCommands
<1>3. WorkMatches /\ JobInv BY DEF RefInv, PermInv
<1>4. CASE RomMain \/ EnterBootstrap
  BY <1>1, <1>2, <1>3, <1>4 DEF RomMain, EnterBootstrap, WorkMatches, RomType
<1>5. CASE CmdWait \/ CmdClear \/ CmdPop \/ CmdPayload
  BY <1>1, <1>2, <1>5 DEF CmdWait, CmdClear, CmdPop, CmdPayload, RomType
<1>6. CASE Ignore \/ Skip \/ BadAddress
  BY <1>1, <1>2, <1>6 DEF Ignore, Skip, BadAddress, EndCommand, RomType
<1>7. CASE EraseVerify
  BY <1>1, <1>2, <1>3, <1>7 DEF EraseVerify, JobInv, RomType
<1> QED BY <1>4, <1>5, <1>6, <1>7 DEF Between

LEMMA ResetDoes ==
  ASSUME RefInv, ChipReset
  PROVE  /\ rom' = IdleRom
         /\ \/ flash' = flash
            \/ /\ rom.pc = "work" /\ flash' \in [Words -> Values]
               /\ \A w \in Words : flash'[w] # flash[w] => w \in Target
<1>2. rom' = IdleRom BY DEF ChipReset
<1>3. CASE rom.pc = "work" /\ rom.todo # <<>> /\ flash' \in CutOff(Head(rom.todo))
  <2> DEFINE c == Head(rom.todo)
  <2>1. rom.todo \in Seq(Calls) BY DEF RefInv, TypeInv, RomType
  <2>2. c \in Calls /\ c = rom.todo[1] /\ 1 \in 1 .. Len(rom.todo) BY <1>3, <2>1
  <2>3. Span(c) \subseteq Target BY <1>3, <2>2 DEF RefInv, JobInv, Fits
  <2>4. flash' \in [Words -> Values] /\ \A w \in Words : flash'[w] # flash[w] => w \in Span(c)
    BY <1>3, <2>2, CutOffWords DEF RefInv, TypeInv
  <2> QED BY <1>2, <1>3, <2>3, <2>4
<1> QED BY <1>2, <1>3 DEF ChipReset

LEMMA EndDoes ==
  ASSUME RefInv, EndJob
  PROVE  /\ rom.pc = "work" /\ rom.todo = <<>> /\ flash' = flash
         /\ rom'.pc \in {"shutdown", "verify", "poll"}
         /\ rom'.pc = "shutdown" <=> rom.failed
         /\ rom'.pc = "verify" => rom.state = "Erase" /\ rom'.state = "EraseVerify"
         /\ rom'.pc = "poll" => rom.state = "Program" /\ rom'.state = "Program"
BY DEF EndJob, EndCommand, RefInv, TypeInv, RomType

LEMMA StepKeepsJob ==
  ASSUME RefInv, [Next]_vars PROVE JobInv'
<1>1. CASE Between BY <1>1, BetweenDoes DEF JobInv
<1>2. CASE Resets
  <2>1. rom'.pc = "main"
    BY <1>2, ResetDoes DEF IdleRom, Resets, ResetCommand, Shutdown, AnyReset
  <2> QED BY <2>1 DEF JobInv
<1>3. CASE EndJob BY <1>3, EndDoes DEF JobInv
<1>4. CASE Outside
  <2>1. rom' = rom /\ flash' = flash
    BY <1>4 DEF Outside, LatePop, AnyShift, AnyRelease, AnyStrap, vars
  <2>2. Target' = Target /\ \A w : Given(w)' = Given(w) /\ IsProgram' = IsProgram
    BY <2>1, SameCommand
  <2>3. \A i \in 1 .. Len(rom'.todo) : Fits(rom'.todo[i]) => Fits(rom.todo[i])'
    BY <2>1, FitsNext
  <2>4. \A w : (Finished(w)' <=> Finished(w)) /\ (Waiting(w)' <=> Waiting(w))
    BY <2>1, <2>2 DEF Finished, Waiting, Final
  <2> QED BY <2>1, <2>2, <2>3, <2>4 DEF RefInv, JobInv
<1> QED BY <1>1, <1>2, <1>3, <1>4, Steps, BeginKeepsJob, TransactionKeepsJob, FailureKeepsJob

LEMMA StepKeepsRefInv == RefInv /\ [Next]_vars => RefInv'
<1> SUFFICES ASSUME RefInv, [Next]_vars PROVE RefInv'
  OBVIOUS
<1>1. TypeInv' BY StepKeepsTypes DEF RefInv
<1>2. PermInv' BY RomKeepsFields, StepKeepsPermissions DEF RefInv, PermInv
<1> QED BY <1>1, <1>2, StepKeepsJob DEF RefInv

LEMMA InitRefInv == Init => RefInv
<1> SUFFICES ASSUME Init PROVE RefInv
  OBVIOUS
<1>1. PermInv
  BY DEF Init, IdleRom, PermInv, IsRom, RomFields, WorkMatches, PermissionsMatch
<1>2. JobInv BY DEF Init, IdleRom, JobInv
<1> QED BY <1>1, <1>2, InitTypes DEF RefInv

-----------------------------------------------------------------------------
(* The refinement *)

Working == rom.pc = "work"

LEMMA JobIs ==
  RefInv => /\ Working => Job = [to |-> [w \in Target |-> Final(w)], ok |-> ~rom.failed]
            /\ ~Working => Job = [to |-> [w \in {} |-> Erased], ok |-> TRUE]
BY EffectIs DEF Job, RefInv, PermInv, Working

LEMMA JobIsNext ==
  (RefInv => /\ Working => Job = [to |-> [w \in Target |-> Final(w)], ok |-> ~rom.failed]
             /\ ~Working => Job = [to |-> [w \in {} |-> Erased], ok |-> TRUE])'
BY JobIs, PTL

LEMMA InitRefines == Init => B!Init
BY BootstrapAssumption DEF Init, IdleRom, B!Init, Accepts

\* A step without work that changes neither flash nor the session.
LEMMA IdleStutters ==
  ASSUME ~Working, ~Working', flash' = flash, Accepts' = Accepts
  PROVE  UNCHANGED B!vars
BY DEF Working, Job, B!vars

LEMMA BetweenRefines ==
  ASSUME RefInv, RefInv', Between PROVE [B!Next]_(B!vars)
<1>1. /\ rom.pc # "work" /\ rom'.pc \notin {"work", "verify"} /\ flash' = flash
      /\ \/ rom'.state = rom.state
         \/ rom.state = "EraseVerify" /\ rom'.state = "Program" /\ Verified
  BY BetweenDoes
<1>2. CASE Accepts' = Accepts BY <1>1, <1>2, IdleStutters DEF Working
<1>3. CASE Accepts /\ ~Accepts'
  BY <1>1, <1>3 DEF B!Next, B!Fail
<1>4. CASE ~Accepts /\ Accepts'
  <2>1. rom'.state # rom.state
    <3>1. rom.pc # "shutdown"
      BY DEF Between, RomMain, EnterBootstrap, CmdWait, CmdClear, CmdPop, CmdPayload,
             Ignore, Skip, BadAddress, EraseVerify
    <3> QED BY <1>1, <1>4, <3>1 DEF Accepts
  <2>2. flash = [w \in Words |-> Erased]
    BY <1>1, <2>1 DEF Verified, RefInv, TypeInv
  <2> QED BY <1>1, <1>4, <2>2 DEF B!Next, B!Open, B!EraseAll
<1> QED BY <1>2, <1>3, <1>4 DEF Accepts

LEMMA SameStutters ==
  ASSUME rom' = rom, flash' = flash PROVE UNCHANGED B!vars
<1>1. Job' = Job BY DEF Job, Effect, NorEffect, ProgramEffect
<1> QED BY <1>1 DEF B!vars, Accepts

LEMMA OutsideRefines ==
  ASSUME Outside PROVE UNCHANGED B!vars
<1>1. rom' = rom /\ flash' = flash
  BY DEF Outside, LatePop, AnyShift, AnyRelease, AnyStrap, vars
<1> QED BY <1>1, SameStutters

\* The words that change belong to the command.
LEMMA ChangesAreTarget ==
  ASSUME RefInv, Working, flash' \in [Words -> Values],
         \A w \in Words : flash'[w] # flash[w] => w \in Target
  PROVE  B!OnlyJobChanges
<1>1. DOMAIN Job.to = Target BY JobIs
<1> QED BY <1>1 DEF B!OnlyJobChanges

LEMMA ResetRefines ==
  ASSUME RefInv, ChipReset PROVE B!Fail
<1>1. rom'.pc = "main" /\ ~Accepts' BY ResetDoes DEF IdleRom, Accepts
<1>2. CASE flash' = flash
  <2>1. Working => B!OnlyJobChanges BY <1>2, ChangesAreTarget DEF RefInv, TypeInv
  <2> QED BY <1>1, <1>2, <2>1 DEF B!Fail, Working
<1>3. CASE /\ rom.pc = "work" /\ flash' \in [Words -> Values]
           /\ \A w \in Words : flash'[w] # flash[w] => w \in Target
  <2>1. B!OnlyJobChanges BY <1>3, ChangesAreTarget DEF Working
  <2> QED BY <1>1, <1>3, <2>1 DEF B!Fail
<1> QED BY <1>2, <1>3, ResetDoes

LEMMA BeginRefines ==
  ASSUME RefInv, RefInv', FirstErase \/ StartJob PROVE B!Begin
<1>1. rom \in RomType /\ rom.pc = "dispatch" /\ flash' = flash
  BY DEF RefInv, TypeInv, FirstErase, StartJob
<1>2. \E t : rom' = WithJob(t)
  BY DEF FirstErase, StartJob
<1>3. /\ rom'.pc = "work" /\ rom'.state = rom.state /\ rom'.cmd = rom.cmd /\ ~rom'.failed
  BY <1>1, <1>2 DEF WithJob, RomType
<1>4. Job' = [to |-> [w \in Target |-> Final(w)], ok |-> TRUE]
  <2>1. Job' = ([to |-> [w \in Target |-> Final(w)], ok |-> ~rom.failed])'
    BY <1>3, JobIsNext DEF Working
  <2>2. Target' = Target /\ \A w : Final(w)' = Final(w)
    BY <1>1, <1>3, SameCommand DEF Final
  <2> QED BY <1>3, <2>1, <2>2
<1>5. Target \subseteq Words /\ \A w \in Target : Final(w) \in Values
  BY TargetInside, FinalType DEF RefInv
<1>6. Accepts' = Accepts BY <1>1, <1>3 DEF Accepts
<1>7. ~Accepts => Target = Words /\ \A w \in Target : Final(w) = Erased
  <2>1. ~Accepts => rom.state # "Program" BY <1>1 DEF Accepts
  <2> QED BY <2>1 DEF Target, Final, IsProgram
<1>8. ~Accepts => Job'.to = [w \in Words |-> Erased]
  BY <1>4, <1>7
<1>9. /\ Job'.ok /\ DOMAIN Job'.to \subseteq Words
      /\ \A w \in DOMAIN Job'.to : Job'.to[w] \in Values
  BY <1>4, <1>5
<1> QED BY <1>1, <1>3, <1>6, <1>8, <1>9 DEF B!Begin, B!EraseAll

LEMMA WorkRefines ==
  ASSUME RefInv, RefInv', Transaction PROVE B!Work
<1> DEFINE c == Head(rom.todo)
<1>1. /\ rom.pc = "work" /\ rom'.pc = "work" /\ rom'.state = rom.state /\ rom'.cmd = rom.cmd
      /\ c \in Calls /\ Fits(c) /\ flash' \in [Words -> Values]
      /\ \A w \in Words : flash'[w] # flash[w] => w \in Span(c)
  BY TransactionDoes
<1>2. rom'.failed = rom.failed BY DEF Transaction, RefInv, TypeInv, RomType
<1>3. Span(c) \subseteq Target BY <1>1 DEF Fits
<1>4. B!OnlyJobChanges BY <1>1, <1>3, ChangesAreTarget DEF Working
<1>5. Job = [to |-> [w \in Target |-> Final(w)], ok |-> ~rom.failed]
  BY <1>1, JobIs DEF Working
<1>6. Job' = Job
  <2>1. Job' = ([to |-> [w \in Target |-> Final(w)], ok |-> ~rom.failed])'
    BY <1>1, JobIsNext DEF Working
  <2>2. Target' = Target /\ \A w \in Target : Final(w)' = Final(w)
    BY <1>1, SameCommand, TransactionWords
  <2> QED BY <1>2, <1>5, <2>1, <2>2
<1>7. ASSUME ~WeakErase, NEW w \in Words, flash'[w] # flash[w] PROVE flash'[w] = Job.to[w]
  <2>1. flash'[w] = Final(w) BY <1>7, TransactionWords
  <2>2. w \in Target BY <1>1, <1>3, <1>7
  <2> QED BY <1>5, <2>1, <2>2
<1>8. Accepts' = Accepts BY <1>1 DEF Accepts
<1> QED BY <1>1, <1>4, <1>6, <1>7, <1>8 DEF B!Work

LEMMA SpoilRefines ==
  ASSUME RefInv, RefInv', FailedTransaction PROVE B!Spoil
<1> DEFINE c == Head(rom.todo)
<1>1. /\ rom.pc = "work" /\ rom'.pc = "work" /\ rom'.state = rom.state /\ rom'.cmd = rom.cmd
      /\ c \in Calls /\ Fits(c) /\ flash' \in [Words -> Values]
      /\ \A w \in Words : flash'[w] # flash[w] => w \in Span(c)
  BY TransactionDoes
<1>2. rom'.failed BY DEF FailedTransaction, AfterError, RefInv, TypeInv, RomType
<1>3. B!OnlyJobChanges BY <1>1, ChangesAreTarget DEF Working, Fits
<1>4. Job = [to |-> [w \in Target |-> Final(w)], ok |-> ~rom.failed]
  BY <1>1, JobIs DEF Working
<1>5. /\ ~Job'.ok /\ DOMAIN Job'.to = Target
      /\ \A w \in Target : Job'.to[w] = Final(w)'
  <2>1. Job' = ([to |-> [w \in Target |-> Final(w)], ok |-> ~rom.failed])'
    BY <1>1, JobIsNext DEF Working
  <2>2. Target' = Target BY <1>1, SameCommand
  <2> QED BY <1>2, <2>1, <2>2
<1>6. \A w \in Target : flash'[w] = flash[w] => Final(w)' = Final(w)
  BY <1>1, SameCommand DEF Final
<1>7. Accepts' = Accepts BY <1>1 DEF Accepts
<1> QED BY <1>1, <1>3, <1>4, <1>5, <1>6, <1>7 DEF B!Spoil

LEMMA EndRefines ==
  ASSUME RefInv, EndJob PROVE B!Finish \/ B!Fail
<1>1. /\ rom.pc = "work" /\ rom.todo = <<>> /\ flash' = flash /\ rom'.pc # "work"
      /\ rom'.pc \in {"shutdown", "verify", "poll"}
      /\ rom'.pc = "shutdown" <=> rom.failed
      /\ rom'.pc = "verify" => rom.state = "Erase" /\ rom'.state = "EraseVerify"
      /\ rom'.pc = "poll" => rom.state = "Program" /\ rom'.state = "Program"
  BY EndDoes
<1>2. CASE rom.failed
  <2>1. B!OnlyJobChanges BY <1>1, ChangesAreTarget DEF RefInv, TypeInv, Working
  <2>2. ~Accepts' BY <1>1, <1>2 DEF Accepts
  <2> QED BY <1>1, <2>1, <2>2 DEF B!Fail
<1>3. CASE ~rom.failed
  <2>1. Job = [to |-> [w \in Target |-> Final(w)], ok |-> TRUE]
    BY <1>1, <1>3, JobIs DEF Working
  <2>2. ~WeakErase => \A w \in Target : flash[w] = Final(w)
    <3>1. Len(rom.todo) = 0 BY <1>1
    <3> QED BY <1>1, <1>3, <3>1 DEF RefInv, JobInv, Finished, Waiting
  <2>3. Accepts' = Accepts BY <1>1, <1>3 DEF Accepts
  <2> QED BY <1>1, <2>1, <2>2, <2>3 DEF B!Finish
<1> QED BY <1>2, <1>3

LEMMA StepRefines ==
  ASSUME RefInv, RefInv', [Next]_vars PROVE [B!Next]_(B!vars)
<1>1. CASE Between BY <1>1, BetweenRefines
<1>2. CASE Outside BY <1>2, OutsideRefines
<1>3. CASE Resets
  BY <1>3, ResetRefines DEF B!Next, Resets, ResetCommand, Shutdown, AnyReset
<1>4. CASE FirstErase \/ StartJob BY <1>4, BeginRefines DEF B!Next
<1>5. CASE Transaction BY <1>5, WorkRefines DEF B!Next
<1>6. CASE FailedTransaction BY <1>6, SpoilRefines DEF B!Next
<1>7. CASE EndJob BY <1>7, EndRefines DEF B!Next
<1> QED BY <1>1, <1>2, <1>3, <1>4, <1>5, <1>6, <1>7, Steps

\* For every host, every number of commands, resets and flash errors, and every
\* geometry of flash, bootstrap is the flash memory of BootstrapSpec: a command
\* changes the words it names and no other, into what a serial NOR flash makes
\* of them, and nothing is programmed before all of flash was seen erased.
THEOREM Refinement == Spec => NorFlash
BY StepRefines, InitRefInv, StepKeepsRefInv, InitRefines, PTL DEF Spec, NorFlash, B!Spec
=============================================================================
