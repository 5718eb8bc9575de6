------------------------------ MODULE DualCore ------------------------------
(***************************************************************************)
(* The two cores of rv_core_ibex.  Both execute what memory returns for the *)
(* addresses on the bus.  While code runs in the boot section the shadow    *)
(* core is clocked, and while software's compare bit is set as well, the    *)
(* comparator gives the bus to the shadow core in each cycle in which the   *)
(* outputs differ, and copies its registers to the main core.  CTC ("check  *)
(* the checker") flips the main core's registers to test that.              *)
(*                                                                         *)
(* A core is reduced to one stage: an instruction takes one cycle, in which *)
(* its result is on the outputs together with the address of the next       *)
(* instruction.  A step is a clock cycle.                                   *)
(***************************************************************************)
EXTENDS Naturals

CONSTANTS
  Regs,    \* registers
  Words,   \* what a register holds: addresses, data, values for mstatus
  Window,  \* the addresses of the boot section
  Reset,   \* the address at which execution starts
  Succ,    \* address of the next instruction
  Flip,    \* all bits of a word inverted
  Comp,    \* words that have the compare bit of mstatus,
  Ctc,     \* its CTC bit,
  Mpie,    \* its MPIE bit
  None     \* no data on the bus

ASSUME DualCoreAssumption ==
  /\ Reset \in Window /\ Window \subseteq Words
  /\ {Succ, Flip} \subseteq [Words -> Words]
  /\ None \notin Words

VARIABLES
  main,      \* main core: address of its last fetch, instruction in its ID
  shadow,    \* stage, registers; and the shadow core's
  ref,       \* what the main core would be if it had never been damaged
  status,    \* mstatus of the main core, and ctc_pulse of ibex_csr
  ctc,       \* the flops that derive the flip from the CTC bit
  mismatch,  \* the value that outputs_mismatch settles at in this cycle
  blind      \* whether the comparator had no chance (see Exposed)

vars == <<main, shadow, ref, status, ctc, mismatch, blind>>

-----------------------------------------------------------------------------
(* A core *)

\* What the cores' ID stage tells apart.  A load is a store, which puts its
\* address on the bus, and a set, which is memory's answer; a jump writes the
\* link register.
Instrs ==
  [op : {"set"}, rd : Regs, word : Words] \cup [op : {"move", "jump"}, rd : Regs, rs : Regs]
    \cup [op : {"store", "csrw"}, rs : Regs] \cup [op : {"bubble"}]

Bubble == [op |-> "bubble"]

Core == [pc : Words, id : Instrs, regs : [Regs -> Words]]

\* Address of the instruction that is fetched, and data of a store.
Outputs(c) ==
  [addr |-> CASE c.id.op = "jump"   -> c.regs[c.id.rs]
              [] c.id.op = "bubble" -> c.pc
              [] OTHER              -> Succ[c.pc],
   data |-> IF c.id.op = "store" THEN c.regs[c.id.rs] ELSE None]

\* What the instruction in ID makes of the registers.
Written(c) ==
  CASE c.id.op = "set"  -> [c.regs EXCEPT ![c.id.rd] = c.id.word]
    [] c.id.op = "move" -> [c.regs EXCEPT ![c.id.rd] = c.regs[c.id.rs]]
    [] c.id.op = "jump" -> [c.regs EXCEPT ![c.id.rd] = Succ[c.pc]]
    [] OTHER            -> c.regs

\* Mutant: a write of mstatus does not flush the pipeline.
ClockedNoFlush(c, i, regs) == [pc |-> Outputs(c).addr, id |-> i, regs |-> regs]

\* A clock edge at which memory returns instruction i; a write of mstatus
\* flushes the pipeline.
Clocked(c, i, regs) ==
  [pc   |-> Outputs(c).addr,
   id   |-> IF c.id.op = "csrw" THEN Bubble ELSE i,
   regs |-> regs]

-----------------------------------------------------------------------------
(* Comparator *)

Bus(m) == Outputs(IF m THEN shadow ELSE main)

\* Mutant: data outputs are not compared.
ComparedAddr(addr) ==
  addr \in Window /\ status.comp /\ Outputs(shadow).addr # Outputs(main).addr

\* outputs_mismatch for a bus address
Compared(addr) ==
  addr \in Window /\ status.comp /\ Outputs(shadow) # Outputs(main)

\* The bus address depends on outputs_mismatch, which depends on secure_boot,
\* which depends on the bus address.  The loop settles at a value that
\* reproduces itself; if both do or none does, either may be seen.
Settled ==
  LET Stable == {m \in BOOLEAN : m = Compared(Bus(m).addr)}
  IN  IF Stable = {} THEN BOOLEAN ELSE Stable

SecureBoot == Bus(mismatch).addr \in Window

-----------------------------------------------------------------------------
(* Compare and CTC commands *)

\* Mutant: the bit is cleared only by the next write of mstatus.
AfterStatusKept(write, word) ==
  IF write
  THEN [comp  |-> word \in Comp, ctc |-> word \in Ctc /\ ~status.pulse,
        pulse |-> word \in Ctc \cup Mpie /\ ~status.pulse]
  ELSE [status EXCEPT !.pulse = FALSE]

\* The pulse register clears the CTC bit in the cycle after it was set.
AfterStatus(write, word) ==
  IF write
  THEN [comp  |-> word \in Comp, ctc |-> word \in Ctc /\ ~status.pulse,
        pulse |-> word \in Ctc \cup Mpie /\ ~status.pulse]
  ELSE [status EXCEPT !.ctc = @ /\ ~status.pulse, !.pulse = FALSE]

\* A rising edge of the CTC bit flips the registers in the cycle after it.
AfterCtc == [last |-> status.ctc, active |-> status.ctc /\ ~ctc.last]

\* Mutant: nothing is rolled back.
AfterRegsNoCopy ==
  IF ctc.active THEN [r \in Regs |-> Flip[main.regs[r]]] ELSE Written(main)

\* What the flops of the main core's registers become.
AfterRegs ==
  CASE ctc.active -> [r \in Regs |-> Flip[main.regs[r]]]
    [] ~ctc.active /\ mismatch -> shadow.regs
    [] OTHER -> Written(main)

-----------------------------------------------------------------------------
(* A clock cycle *)

\* The comparator cannot help: a damaged register decides where the main core
\* goes on or what it writes to mstatus, the main core is damaged while nothing
\* is compared, or the shadow core is compared although it missed a cycle.
Exposed ==
  \/ main.id.op \in {"jump", "csrw"} /\ main.regs[main.id.rs] # ref.regs[main.id.rs]
  \/ main # ref /\ ~(status.comp /\ Outputs(ref).addr \in Window)
  \/ status.comp /\ shadow # ref

Cycle(i) ==
  /\ main'   = Clocked(main, i, AfterRegs)
  /\ shadow' = IF SecureBoot THEN Clocked(shadow, i, Written(shadow)) ELSE shadow
  /\ ref'    = Clocked(ref, i, Written(ref))
  /\ status' = IF main.id.op = "csrw" THEN AfterStatus(TRUE, main.regs[main.id.rs])
               ELSE AfterStatus(FALSE, Reset)
  /\ ctc'    = AfterCtc
  /\ mismatch' \in Settled'
  /\ blind'  = (blind \/ Exposed')

Init ==
  /\ main = [pc |-> Reset, id |-> Bubble, regs |-> [r \in Regs |-> Reset]]
  /\ shadow = main
  /\ ref = main
  /\ status = [comp |-> FALSE, ctc |-> FALSE, pulse |-> FALSE]
  /\ ctc = [last |-> FALSE, active |-> FALSE]
  /\ mismatch = FALSE
  /\ blind = FALSE

Next == \E i \in Instrs : Cycle(i)

Spec == Init /\ [][Next]_vars

-----------------------------------------------------------------------------
(* Properties *)

\* The types; and the CTC bit is only set while ctc_pulse is about to clear it.
TypeOK ==
  /\ {main, shadow, ref} \subseteq Core
  /\ status \in [comp : BOOLEAN, ctc : BOOLEAN, pulse : BOOLEAN]
  /\ status.ctc => status.pulse
  /\ ctc \in [last : BOOLEAN, active : BOOLEAN]
  /\ {mismatch, blind} \subseteq BOOLEAN

\* Damage to the main core's registers never shows on the bus, neither while the
\* cores are compared nor after software ended that; unless it was Exposed.
Masked == ~blind => Bus(mismatch) = Outputs(ref)

\* The main core takes over again undamaged: in the cycle in which a damaged
\* register shows, the shadow core's registers repair all of them.
Repaired ==
  [][mismatch /\ ~blind /\ ~ctc.active => main' = ref']_vars

\* Each CTC command makes an edge, and so flips the registers, however soon it
\* follows another one or a write that sets MPIE.
EachCommandFlips ==
  [][main.id.op = "csrw" /\ main.regs[main.id.rs] \in Ctc
       => status'.ctc /\ ~ctc'.last]_vars

\* While the cores are compared and boot code goes on inside the boot section,
\* the bus carries what it would without damage.
Uninterrupted ==
  status.comp /\ shadow = ref /\ Outputs(ref).addr \in Window =>
    Bus(mismatch) = Outputs(ref)
=============================================================================
