----------------------------- MODULE RomBootInv -----------------------------
(***************************************************************************)
(* The inductive invariant of RomBoot.                                     *)
(***************************************************************************)
EXTENDS RomBoot

Passed == loc.result = "ok" /\ loc.flashExec = "unlock" /\ loc.measured = Current

\* Nothing is configured for an image before rom_boot().
Unconfigured ==
  /\ regs.exec = "zero" /\ regs.remap = NoSlot /\ regs.text = NoSlot

\* How far rom_try_boot() and rom_boot() have come.
Flow ==
  /\ pc \in {"start", "reasons", "store", "clear", "initend", "strap"} => loc = NoLoc
  /\ pc \in (InRom \ {"precheck", "exec"}) \cup {"bootstrap"} => Unconfigured
  /\ pc = "verify" => loc.result = "none"
  /\ pc = "judge" => loc.result \in {"ok", "bad"}
  /\ pc = "judge" /\ loc.result = "ok" => Passed
  /\ pc \in {"keymgr", "remap", "precheck", "exec"} => Passed
  /\ pc \in {"remap", "precheck", "exec"} => regs.binding = Current
  /\ pc \in {"precheck", "exec"} => regs.text = Current /\ regs.exec = "zero"
  /\ pc = "romext" => regs.text \in Slots

\* An image that passed is eligible; the first one was given up before the second.
Judged ==
  LET m == slots[Current] IN
  /\ loc.result = "ok" /\ pc \in InRom =>
       m.form /\ m.ver >= min /\ KeyIsValid(m.key) /\ m.sig
  /\ pc = "judge" /\ loc.result = "bad" =>
       \/ ~m.form \/ ~(m.ver >= min) \/ ~KeyIsValid(m.key) \/ ~m.sig
       \/ UsesOtbn

\* Retention SRAM and reset reasons at each step of rom_init().
Retained ==
  /\ ram.owner = "random" =>
       "PowerOn" \in reasons /\ pc \in {"start", "reasons", "shutdown"}
  /\ pc \in {"store", "clear"} /\ WipesRam => ram.owner = "wiped"
  /\ pc = "clear" => ram.reasons = reasons

\* Both counters of sec_mmio_ctx at each step.
MmioInv ==
  /\ pc \in InRom \ {"start"} => mmio.writes = mmio.expected
  /\ pc \in {"reasons", "store", "clear", "initend"} => mmio.checks = 0
  /\ pc \in {"strap", "verify", "judge", "keymgr"} => mmio.checks = 2
  /\ pc \in {"remap", "precheck"} => mmio.checks = 3
  /\ pc = "exec" => mmio.checks = 4

\* The CFI counters that are checked next.
CfiInv ==
  /\ pc \in {"reasons", "store", "clear", "initend"} =>
       At(cfi, "RomInit", 2) /\ At(cfi, "RomMain", 3)
  /\ pc = "strap" => At(cfi, "RomInit", 3) /\ At(cfi, "RomMain", 4)
  /\ pc = "verify" => At(cfi, "RomVerify", 1)
  /\ pc \in {"verify", "judge"} =>
       At(cfi, "RomTryBoot", IF loc.attempt = 0 THEN 4 ELSE 7)
  /\ pc = "judge" /\ loc.result = "ok" => At(cfi, "RomVerify", 3)
  /\ pc \in {"keymgr", "remap", "precheck"} => At(cfi, "RomBoot", 2)
  /\ pc = "exec" => At(cfi, "RomBoot", 5) /\ At(cfi, "RomPreBootCheck", 7)

\* rom_main() keeps its registers and counters at the values of the step it is at.
IInv ==
  /\ TypeOK /\ Flow /\ Judged /\ Retained /\ MmioInv /\ CfiInv
  /\ ChecksAgree /\ OneImage
=============================================================================
