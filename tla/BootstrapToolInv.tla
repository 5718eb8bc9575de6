-------------------------- MODULE BootstrapToolInv --------------------------
(***************************************************************************)
(* The inductive invariant of BootstrapTool: how far the tool is, what is  *)
(* on its way between the tool and the ROM while it is there, and what the *)
(* two make of flash.  Where it holds, the chip was not reset since the    *)
(* tool began (view.sure).                                                 *)
(***************************************************************************)
EXTENDS BootstrapTool

ToolType ==
  /\ tool \in [pc : {"start", "skip", "wren", "cmd", "poll", "unstrap", "reset", "done"},
               i : Nat \ {0}, script : Seq(Items), image : Images \cup {None}]
  /\ view \in [mem : [Words -> Values] \cup {None}, sure : BOOLEAN]
  /\ GoodScript(tool.script)
  /\ tool.image # None => tool.script = Update(tool.image)

\* The item that each step is about.
Place ==
  /\ tool.pc = "start" => tool.i = 1 /\ spi.txn = None /\ ~view.sure
  /\ InSession => tool.i \in 1 .. Len(tool.script)
  /\ tool.pc = "skip" => Skipped(Current)
  /\ tool.pc = "wren" => Current.wren
  /\ tool.pc = "poll" => Current.poll
  /\ tool.pc \in {"unstrap", "reset", "done"} => tool.i = Len(tool.script) + 1
  /\ InSession /\ tool.i = 1 => view.mem = None

-----------------------------------------------------------------------------
(* What the tool knows *)

\* An erase of everything is over if the tool knows flash, and what it knows is
\* what is there.
Known(mem) ==
  mem # None =>
    /\ rom.state = "Program"
    /\ ~WeakErase => flash = mem

\* Once an image has been written up to item i.
WrittenBefore(i) ==
  [w \in Words |->
     IF w < Len(tool.image) /\ w < (i - 2) * WordsPerProgPage THEN tool.image[w + 1] ELSE Erased]

Progress ==
  tool.image # None /\ tool.pc # "start" /\ tool.i >= 2 => view.mem = WrittenBefore(tool.i)

-----------------------------------------------------------------------------
(* The bus and the ROM *)

NoneWaits == spi.cmds = <<>> /\ spi.addrs = <<>> /\ ~spi.intr /\ ~spi.overflow

Waits(c) ==
  /\ spi.cmds = <<c.op>>
  /\ spi.addrs = IF c.at = None THEN <<>> ELSE <<[at |-> c.at, aligned |-> c.aligned]>>
  /\ spi.data = c.data

\* The ROM waits for the next command.
Quiet == rom.pc = "poll" /\ spi.on /\ NoneWaits

Enable == [wip |-> FALSE, wel |-> TRUE]
Busy   == [wip |-> TRUE, wel |-> Current.wren]

\* The chip has come out of the reset that begins the session.
Setup ==
  /\ InSession /\ tool = AtItem(1)
  /\ strap
  /\ rom.pc \in {"main", "bootstrap"}
  /\ spi = ResetSpi

AtRest ==
  /\ tool.pc \in {"skip", "wren"} \/ (tool.pc = "cmd" /\ ~Current.wren)
  /\ Quiet /\ spi.txn = None /\ spi.staged = NoStatus
  /\ Known(view.mem)

\* WRITE_ENABLE is on the bus; it was released.
Enabling ==
  /\ tool.pc = "wren"
  /\ Quiet /\ spi.txn = Bare("WREN") /\ spi.staged = Enable /\ spi.pending = 0
  /\ Known(view.mem)

Enabled ==
  /\ tool.pc = "cmd" /\ Current.wren
  /\ Quiet /\ spi.txn = None /\ spi.staged = Enable /\ spi.pending = 0
  /\ Known(view.mem)

\* The command is on the bus: it is in its FIFO and the rest is not.
Sending ==
  /\ tool.pc = "cmd"
  /\ rom.pc = "poll" /\ spi.on /\ ~spi.intr /\ ~spi.overflow
  /\ spi.cmds = <<Current.cmd.op>> /\ spi.addrs = <<>>
  /\ spi.txn = Current.cmd /\ spi.staged = Busy /\ spi.pending = 0
  /\ Known(view.mem)

\* The calls of the command, from what flash holds now, end with what the tool
\* expects, and have changed no other word.
Doing ==
  /\ rom.state # "Program" => view.mem = None
  /\ rom.state = "Program" /\ view.mem # None /\ ~rom.failed /\ ~WeakErase =>
       /\ Effect = NorEffect(rom.cmd, view.mem)
       /\ \A w \in Words \ DOMAIN Effect : flash[w] = view.mem[w]

\* How far the ROM is with command c; at the end it has ignored the command.
InRom(c) ==
  \/ rom.pc = "poll" /\ Waits(c) /\ spi.intr /\ spi.overflow = c.over /\ Known(view.mem)
  \/ rom.pc = "clear" /\ Waits(c) /\ rom.overflow = c.over /\ Known(view.mem)
  \/ rom.pc = "pop" /\ Waits(c) /\ ~spi.intr /\ ~spi.overflow /\ ~c.over /\ Known(view.mem)
  \/ /\ rom.pc = "payload" /\ NoneWaits /\ spi.data = c.data /\ ~c.over
     /\ rom.cmd = [c EXCEPT !.data = <<>>]
     /\ Known(view.mem)
  \/ rom.pc = "dispatch" /\ NoneWaits /\ rom.cmd = c /\ Known(view.mem)
  \/ rom.pc = "work" /\ NoneWaits /\ rom.cmd = c /\ Doing
  \/ rom.pc = "verify" /\ NoneWaits /\ rom.cmd = c /\ view.mem = None
  \/ rom.pc = "shutdown"
  \/ rom.pc = "poll" /\ NoneWaits /\ ~Current.wren

\* The ROM has the command, and the tool reads that it is busy.
Flight ==
  /\ tool.pc = "poll"
  /\ spi.on /\ spi.pending = 0
  /\ spi.staged = Busy /\ spi.committed = Busy /\ spi.sys = Busy
  /\ spi.txn = None \/ (spi.txn = Bare("READ_STATUS") /\ spi.seen)
  /\ InRom(Current.cmd)

\* The ROM has done the command and cleared the status, which the tool may not
\* see at once.
Cleared == spi.staged = NoStatus /\ spi.pending = 0

Ended ==
  /\ tool.pc = "poll"
  /\ Quiet
  /\ Cleared \/ (spi.pending > 0 /\ spi.staged.wip /\ spi.committed.wip)
  /\ spi.txn = None \/ (spi.txn = Bare("READ_STATUS") /\ (spi.seen \/ Cleared))
  /\ Known(Believed(view.mem, Current.cmd))

\* Nothing but a RESET can be left.
Ending ==
  /\ tool.pc \in {"unstrap", "reset", "done"}
  /\ spi.txn = None
  /\ spi.cmds \in Seq({"RESET"})
  /\ rom.pc \notin {"work", "verify"}
  /\ rom.pc \in {"payload", "dispatch"} => rom.cmd.op \in {"RESET", "OTHER"}
  /\ view.mem # None /\ ~WeakErase => flash = view.mem

Phase ==
  view.sure =>
    Setup \/ AtRest \/ Enabling \/ Enabled \/ Sending \/ Flight \/ Ended \/ Ending

\* The inductive invariant.
IInv ==
  /\ ToolType
  /\ Place
  /\ Progress
  /\ Phase
=============================================================================
