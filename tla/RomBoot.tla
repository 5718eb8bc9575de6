------------------------------ MODULE RomBoot ------------------------------
(***************************************************************************)
(* The ROM's boot flow: rom/rom.c with the drivers it calls, over any      *)
(* number of resets.                                                       *)
(*                                                                         *)
(* One step is one stretch of code between two points where the flow can   *)
(* branch, fail or leave a trace that a reset does not erase (retention    *)
(* SRAM, reset reasons).  Two mechanisms check the flow as it runs and     *)
(* are modelled with it: the CFI counters of lib/cfi.h, counted in steps,  *)
(* and the write and check counters of lib/base/sec_mmio.c.  A hardened    *)
(* check that fails traps.                                                 *)
(***************************************************************************)
EXTENDS Integers

CONSTANTS
  NoSlot,     \* no slot
  Versions,   \* values of security_version and min_security_version_rom_ext
  Manifests,  \* manifests that may be in flash
  Chips,      \* life cycle states with OTP values
  Causes      \* reset causes other than power-on

LcStates == {"Test", "Dev", "Prod", "ProdEnd", "Rma"}

\* The fields of a manifest: whether identifier, length, code region and entry
\* point are well-formed; security_version; the key it names; whether its
\* signature is one over this image and chip; address_translation.
ManifestType ==
  [form : BOOLEAN, ver : Versions,
   key : {"test", "dev", "prod", "revoked", "unknown"},
   sig : BOOLEAN, at : {"on", "off", "malformed"}]

ChipType ==
  [lc : LcStates, swRsa : BOOLEAN, bootstrapEn : BOOLEAN,
   wdogEn : BOOLEAN,        \* the threshold is at least kWatchdogMinThreshold
   romExtMeas : BOOLEAN,    \* ROM_KEYMGR_ROM_EXT_MEAS_EN
   wipeMask : SUBSET Causes]  \* CREATOR_SW_CFG_RET_RAM_RESET_MASK

ASSUME RomBootAssumption ==
  /\ Versions \subseteq Nat
  /\ Manifests \subseteq ManifestType
  /\ Chips \subseteq ChipType
  /\ NoSlot \notin {"A", "B"}
  /\ "PowerOn" \notin Causes

VARIABLES
  chip,     \* life cycle state and OTP, fixed
  slots,    \* slots[s]: the manifest in flash slot s
  min,      \* min_security_version_rom_ext as boot data storage returns it
  reasons,  \* rstmgr RESET_INFO
  ram,      \* retention SRAM: the recorded reset reasons and the owner's part
  pc,       \* where the boot flow is
  loc,      \* locals and globals of rom.c that outlive a step
  regs,     \* registers the flow configures
  cfi,      \* rom_counters[], in steps; 0 is uninitialized
  mmio      \* counters of sec_mmio_ctx

vars == <<chip, slots, min, reasons, ram, pc, loc, regs, cfi, mmio>>

Slots == {"A", "B"}

Funcs == {"RomMain", "RomInit", "RomVerify", "RomTryBoot", "RomPreBootCheck", "RomBoot"}

-----------------------------------------------------------------------------
(* CFI counters and sec_mmio counters *)

\* Mutant: the counter of the caller goes down.
PrepCallDown(c, f, g) == [c EXCEPT ![f] = @ - 2, ![g] = 1]

\* CFI_FUNC_COUNTER_PREPCALL
PrepCall(c, f, g) == [c EXCEPT ![f] = @ + 2, ![g] = 1]

\* n times CFI_FUNC_COUNTER_INCREMENT
Increment(c, f, n) == [c EXCEPT ![f] = @ + n]

\* CFI_FUNC_COUNTER_CHECK, and the check in CFI_FUNC_COUNTER_INCREMENT
At(c, f, step) == c[f] = step

\* n calls of sec_mmio_write32() and SEC_MMIO_WRITE_INCREMENT(e).
Writes(m, n, e) == [m EXCEPT !.writes = @ + n, !.expected = @ + e]

\* sec_mmio_check_counters(n)
CountersAgree(m, n) == m.writes = m.expected /\ m.checks = n

\* n calls of sec_mmio_check_values() and sec_mmio_check_counters().
Checks(m, n) == [m EXCEPT !.checks = @ + n]

\* kWatchdogSecMmioInit and so on, next to the number of writes in the driver.
WatchdogWrites    == 4
FlashInitWrites   == 3
InfoPermsWrites   == 4   \* open and close two pages
KeymgrWrites      == 17 + 2
RemapWrites       == 6

\* Mutant: the write to the OTBN CTRL register is not expected.
OtbnExpectedNone == 0

OtbnExpected == 1

-----------------------------------------------------------------------------
(* Start *)

NoLoc == [attempt |-> 0, result |-> "none", flashExec |-> "zero", measured |-> NoSlot]

ResetRegs == [exec |-> "zero", wdog |-> TRUE, otbnLocked |-> FALSE,
              binding |-> NoSlot, attest |-> "none", remap |-> NoSlot,
              text |-> NoSlot, textAt |-> "none"]

ResetCfi  == [f \in Funcs |-> 0]
ResetMmio == [writes |-> 0, expected |-> 0, checks |-> 0]

\* rom_start.S has enabled the watchdog.
Init ==
  /\ chip \in Chips
  /\ slots \in [Slots -> Manifests]
  /\ min \in Versions
  /\ reasons = {"PowerOn"}
  /\ ram = [reasons |-> {}, owner |-> "random"]
  /\ pc = "start"
  /\ loc = NoLoc
  /\ regs = ResetRegs
  /\ cfi = ResetCfi
  /\ mmio = ResetMmio

Goto(label) == pc' = label

\* A hardened check that fails, or HARDENED_UNREACHABLE().
Trap == Goto("trap") /\ UNCHANGED <<loc, regs, cfi, mmio>>

\* shutdown_finalize(), which never returns.
Shutdown == Goto("shutdown") /\ UNCHANGED <<loc, regs, cfi, mmio>>

Flash     == <<chip, slots, min>>
Retention == <<reasons, ram>>

-----------------------------------------------------------------------------
(* rom_main() and rom_init() *)

WatchdogOn == chip.lc \in {"Dev", "Prod", "ProdEnd"} /\ chip.wdogEn

\* rom_main() up to the check of AST in rom_init().
RomInit ==
  /\ pc = "start"
  /\ cfi' = [PrepCall([cfi EXCEPT !["RomMain"] = 1], "RomMain", "RomInit")
               EXCEPT !["RomInit"] = @ + 1]
  /\ mmio' = Writes(ResetMmio, WatchdogWrites + FlashInitWrites,
                    WatchdogWrites + FlashInitWrites)
  /\ regs' = [regs EXCEPT !.wdog = WatchdogOn]
  /\ Goto("reasons")
  /\ UNCHANGED <<Flash, Retention, loc>>

\* Mutant: only the OTP value decides.
WipesRamMask == reasons \cap chip.wipeMask # {}

WipesRam == reasons \cap ({"PowerOn"} \cup chip.wipeMask) # {}

WipeRetention ==
  /\ pc = "reasons"
  /\ ram' = IF WipesRam THEN [reasons |-> {}, owner |-> "wiped"] ELSE ram
  /\ Goto("store")
  /\ UNCHANGED <<Flash, reasons, loc, regs, cfi, mmio>>

\* Mutant: the reasons are added to those of the boot before.
StoreReasonsOr ==
  /\ pc = "store"
  /\ ram' = [ram EXCEPT !.reasons = @ \cup reasons]
  /\ Goto("clear")
  /\ UNCHANGED <<Flash, reasons, loc, regs, cfi, mmio>>

StoreReasons ==
  /\ pc = "store"
  /\ ram' = [ram EXCEPT !.reasons = reasons]
  /\ Goto("clear")
  /\ UNCHANGED <<Flash, reasons, loc, regs, cfi, mmio>>

ClearReasons ==
  /\ pc = "clear"
  /\ reasons' = {}
  /\ Goto("initend")
  /\ UNCHANGED <<Flash, ram, loc, regs, cfi, mmio>>

\* The end of rom_init() and its checks in rom_main().
InitEnd ==
  /\ pc = "initend"
  /\ UNCHANGED <<Flash, Retention>>
  /\ IF /\ CountersAgree(Checks(mmio, 1), 1)
        /\ At(cfi, "RomInit", 2)
        /\ At(cfi, "RomMain", 3)
     THEN /\ mmio' = Checks(mmio, 2)
          /\ cfi' = Increment(Increment(cfi, "RomInit", 1), "RomMain", 1)
          /\ Goto("strap")
          /\ UNCHANGED <<loc, regs>>
     ELSE Trap

\* watchdog_disable() is not followed by SEC_MMIO_WRITE_INCREMENT().
EnterBootstrap ==
  /\ pc = "strap"
  /\ chip.bootstrapEn
  /\ regs' = [regs EXCEPT !.wdog = FALSE]
  /\ mmio' = Writes(mmio, 1, 0)
  /\ Goto("bootstrap")
  /\ UNCHANGED <<Flash, Retention, loc, cfi>>

-----------------------------------------------------------------------------
(* rom_try_boot() *)

TryBoot ==
  /\ pc = "strap"
  /\ UNCHANGED <<Flash, Retention>>
  /\ IF At(cfi, "RomInit", 3) /\ At(cfi, "RomMain", 4)
     THEN LET c == Increment(PrepCall(cfi, "RomMain", "RomTryBoot"), "RomTryBoot", 1)
          IN  /\ cfi' = PrepCall(c, "RomTryBoot", "RomVerify")
              /\ mmio' = Writes(mmio, InfoPermsWrites, InfoPermsWrites)
              /\ Goto("verify")
              /\ UNCHANGED <<loc, regs>>
     ELSE Trap

\* Mutant: slot B comes first when the versions are equal.
OrderedStrict(i) ==
  LET first == IF slots["A"].ver > slots["B"].ver THEN "A" ELSE "B"
  IN  IF i = 0 THEN first ELSE CHOOSE s \in Slots : s # first

\* boot_policy_manifests_get()
Ordered(i) ==
  LET first == IF slots["A"].ver >= slots["B"].ver THEN "A" ELSE "B"
  IN  IF i = 0 THEN first ELSE CHOOSE s \in Slots : s # first

Current == Ordered(loc.attempt)

\* boot_policy_manifest_check()
ManifestCheck(m) == m.form /\ m.ver >= min

\* key_is_valid()
KeyIsValid(key) ==
  \/ key = "prod"
  \/ key = "test" /\ chip.lc \in {"Test", "Rma"}
  \/ key = "dev" /\ chip.lc = "Dev"
  \/ key = "revoked" /\ chip.lc = "Test"

\* sigverify_use_sw_rsa_verify()
UsesOtbn == chip.lc # "Test" /\ ~chip.swRsa

\* rom_verify() that returns before the image is measured.
VerifyEarlyReturn ==
  /\ pc = "verify"
  /\ UNCHANGED <<Flash, Retention, regs, mmio>>
  /\ ~(ManifestCheck(slots[Current]) /\ KeyIsValid(slots[Current].key))
  /\ At(cfi, "RomVerify", 1)
  /\ cfi' = Increment(cfi, "RomVerify", 1)
  /\ loc' = [loc EXCEPT !.flashExec = "zero", !.result = "bad"]
  /\ Goto("judge")

\* The result of sigverify_rsa_verify() and the value it gives flash_exec.
Verdict(ok) ==
  loc' = [loc EXCEPT !.measured = Current,
                     !.result = IF ok THEN "ok" ELSE "bad",
                     !.flashExec = IF ok THEN "unlock" ELSE "ones"]

\* rom_verify() that measures the image and checks its signature.
Verify ==
  /\ pc = "verify"
  /\ UNCHANGED <<Flash, Retention>>
  /\ ManifestCheck(slots[Current]) /\ KeyIsValid(slots[Current].key)
  /\ IF At(cfi, "RomVerify", 1) /\ slots[Current].ver >= min
     THEN /\ cfi' = Increment(cfi, "RomVerify", 2)
          /\ Goto("judge")
          /\ \/ \* mod_exp_ibex, or a signature that is not smaller than the modulus
                /\ UsesOtbn => ~slots[Current].sig
                /\ Verdict(slots[Current].sig)
                /\ UNCHANGED <<regs, mmio>>
             \/ \* OTBN completes
                /\ UsesOtbn /\ ~regs.otbnLocked
                /\ Verdict(slots[Current].sig)
                /\ mmio' = Writes(mmio, 1, OtbnExpected)
                /\ UNCHANGED regs
             \/ \* OTBN meets an error as its program is loaded or runs, which
                \* locks it until the next reset
                /\ UsesOtbn /\ ~regs.otbnLocked
                /\ Verdict(FALSE)
                /\ mmio' \in {mmio, Writes(mmio, 1, OtbnExpected)}
                /\ regs' = [regs EXCEPT !.otbnLocked = TRUE]
             \/ \* otbn_load_app() finds OTBN locked
                /\ UsesOtbn /\ regs.otbnLocked
                /\ Verdict(FALSE)
                /\ UNCHANGED <<regs, mmio>>
     ELSE Trap

\* rom_try_boot() calls rom_boot() with an image that passed; the first attempt
\* starts the counter of rom_try_boot() again.
Accept ==
  /\ pc = "judge"
  /\ loc.result = "ok"
  /\ UNCHANGED <<Flash, Retention>>
  /\ IF /\ At(cfi, "RomTryBoot", IF loc.attempt = 0 THEN 4 ELSE 7)
        /\ At(cfi, "RomVerify", 3)
     THEN LET c == IF loc.attempt = 0 THEN [cfi EXCEPT !["RomTryBoot"] = 1]
                   ELSE Increment(cfi, "RomTryBoot", 1)
          IN  /\ cfi' = Increment(PrepCall(c, "RomTryBoot", "RomBoot"), "RomBoot", 1)
              /\ Goto("keymgr")
              /\ UNCHANGED <<loc, regs, mmio>>
     ELSE Trap

\* The first image failed; the second one is verified.
SecondAttempt ==
  /\ pc = "judge"
  /\ loc.result = "bad" /\ loc.attempt = 0
  /\ UNCHANGED <<Flash, Retention>>
  /\ IF At(cfi, "RomTryBoot", 4)
     THEN /\ cfi' = PrepCall(Increment(cfi, "RomTryBoot", 1), "RomTryBoot", "RomVerify")
          /\ loc' = [loc EXCEPT !.attempt = 1, !.result = "none"]
          /\ Goto("verify")
          /\ UNCHANGED <<regs, mmio>>
     ELSE Trap

BothFail ==
  /\ pc = "judge"
  /\ loc.result = "bad" /\ loc.attempt = 1
  /\ Shutdown
  /\ UNCHANGED <<Flash, Retention>>

-----------------------------------------------------------------------------
(* rom_boot() *)

\* Mutant: the slot that was tried first is configured.
ImageFirst == Ordered(0)

\* The slot whose manifest rom_boot() gets.
Image == Current

\* keymgr_sw_binding_set() and keymgr_creator_max_ver_set()
BindKeymgr ==
  /\ pc = "keymgr"
  /\ UNCHANGED <<Flash, Retention>>
  /\ LET m == Writes(mmio, KeymgrWrites, KeymgrWrites)
     IN  IF CountersAgree(m, 2)
         THEN /\ mmio' = Checks(m, 1)
              /\ regs' = [regs EXCEPT !.binding = Image,
                                      !.attest = IF chip.romExtMeas THEN "measurement"
                                                 ELSE "manifest"]
              /\ Goto("remap")
              /\ UNCHANGED <<loc, cfi>>
         ELSE Trap

\* Address translation, then the execution region of the image.
Translate ==
  /\ pc = "remap"
  /\ UNCHANGED <<Flash, Retention>>
  /\ CASE slots[Image].at = "on" ->
            /\ mmio' = Writes(mmio, RemapWrites, RemapWrites)
            /\ regs' = [regs EXCEPT !.remap = Image, !.text = Image, !.textAt = "virtual"]
            /\ Goto("precheck")
            /\ UNCHANGED <<loc, cfi>>
       [] slots[Image].at = "off" ->
            /\ regs' = [regs EXCEPT !.text = Image, !.textAt = "load"]
            /\ Goto("precheck")
            /\ UNCHANGED <<loc, cfi, mmio>>
       [] slots[Image].at = "malformed" -> Trap

\* rom_pre_boot_check() between its CFI preparation and check.
PreBootCheck ==
  /\ pc = "precheck"
  /\ UNCHANGED <<Flash, Retention>>
  /\ IF CountersAgree(mmio, 3) /\ At(cfi, "RomBoot", 2)
     THEN /\ mmio' = Checks(mmio, 1)
          /\ cfi' = Increment(Increment(PrepCall(cfi, "RomBoot", "RomPreBootCheck"),
                                        "RomPreBootCheck", 6), "RomBoot", 1)
          /\ Goto("exec")
          /\ UNCHANGED <<loc, regs>>
     ELSE Trap

\* Flash execution is enabled, everything is checked again, and the ROM jumps.
Jump ==
  /\ pc = "exec"
  /\ UNCHANGED <<Flash, Retention>>
  /\ LET m == Checks(Writes(mmio, 1, 1), 1)
     IN  IF /\ CountersAgree(m, 5)
            /\ At(cfi, "RomPreBootCheck", 7)
            /\ At(cfi, "RomBoot", 5)
         THEN /\ regs' = [regs EXCEPT !.exec = loc.flashExec]
              /\ mmio' = Checks(m, 1)
              /\ cfi' = Increment(cfi, "RomBoot", 1)
              /\ Goto("romext")
              /\ UNCHANGED loc
         ELSE Trap

\* A driver reports an error: AST, boot data, key manager, ePMP or alert
\* configuration, or the ROM_EXT or bootstrap returns.
Fallible == {"reasons", "strap", "keymgr", "remap", "precheck", "romext", "bootstrap"}

ErrorReturn ==
  /\ pc \in Fallible
  /\ Shutdown
  /\ UNCHANGED <<Flash, Retention>>

-----------------------------------------------------------------------------
(* Resets, and what the software after the ROM may do *)

\* A power-on reset, or one of the other causes, which add up in RESET_INFO.
Reset(cause) ==
  /\ IF cause = "PowerOn"
     THEN reasons' = {"PowerOn"} /\ ram' = [reasons |-> {}, owner |-> "random"]
     ELSE reasons' = reasons \cup {cause} /\ UNCHANGED ram
  /\ Goto("start")
  /\ loc' = NoLoc
  /\ regs' = ResetRegs
  /\ cfi' = ResetCfi
  /\ mmio' = ResetMmio
  /\ UNCHANGED Flash

UpdateSlot ==
  /\ pc \in {"romext", "bootstrap"}
  /\ \E s \in Slots, m \in Manifests : slots' = [slots EXCEPT ![s] = m]
  /\ UNCHANGED <<chip, min, Retention, pc, loc, regs, cfi, mmio>>

RaiseMin ==
  /\ pc = "romext"
  /\ \E v \in Versions : v > min /\ min' = v
  /\ UNCHANGED <<chip, slots, Retention, pc, loc, regs, cfi, mmio>>

UseRam ==
  /\ pc = "romext"
  /\ ram' = [ram EXCEPT !.owner = "used"]
  /\ UNCHANGED <<Flash, reasons, pc, loc, regs, cfi, mmio>>

Next ==
  \/ RomInit \/ WipeRetention \/ StoreReasons \/ ClearReasons \/ InitEnd
  \/ EnterBootstrap \/ TryBoot
  \/ VerifyEarlyReturn \/ Verify \/ Accept \/ SecondAttempt \/ BothFail
  \/ BindKeymgr \/ Translate \/ PreBootCheck \/ Jump
  \/ ErrorReturn
  \/ \E cause \in {"PowerOn"} \cup Causes : Reset(cause)
  \/ UpdateSlot \/ RaiseMin \/ UseRam

Spec == Init /\ [][Next]_vars

-----------------------------------------------------------------------------
(* Properties *)

InRom == {"start", "reasons", "store", "clear", "initend", "strap", "verify",
          "judge", "keymgr", "remap", "precheck", "exec"}

\* Every variable keeps its type.
TypeOK ==
  /\ chip \in Chips
  /\ slots \in [Slots -> Manifests]
  /\ min \in Versions
  /\ reasons \subseteq {"PowerOn"} \cup Causes
  /\ ram \in [reasons : SUBSET ({"PowerOn"} \cup Causes),
              owner : {"random", "wiped", "used"}]
  /\ pc \in InRom \cup {"bootstrap", "romext", "shutdown", "trap"}
  /\ loc \in [attempt : {0, 1}, result : {"none", "ok", "bad"},
              flashExec : {"zero", "ones", "unlock"}, measured : Slots \cup {NoSlot}]
  /\ regs \in [exec : {"zero", "ones", "unlock"}, wdog : BOOLEAN, otbnLocked : BOOLEAN,
               binding : Slots \cup {NoSlot}, attest : {"none", "manifest", "measurement"},
               remap : Slots \cup {NoSlot}, text : Slots \cup {NoSlot},
               textAt : {"none", "load", "virtual"}]
  /\ cfi \in [Funcs -> Nat]
  /\ mmio \in [writes : Nat, expected : Nat, checks : Nat]

\* On no path of the boot flow, fallback to the second slot, OTBN or address
\* translation included, do the CFI counters or the sec_mmio counters disagree
\* with what the code expects; a hardened check only fails for a signed image
\* whose address_translation is not a hardened boolean.
ChecksAgree ==
  pc = "trap" => loc.result = "ok" /\ slots[Current].at = "malformed"

\* The key manager binding, the measurement, the remapping and the executable
\* region are all those of one slot whose signature passed, although both slots
\* may have been tried, before flash execution is enabled with its value.
OneImage ==
  /\ regs.text # NoSlot =>
       /\ loc.result = "ok" /\ loc.flashExec = "unlock"
       /\ regs.text = loc.measured /\ regs.binding = loc.measured
       /\ regs.remap = IF regs.textAt = "virtual" THEN loc.measured ELSE NoSlot
  /\ regs.exec # "zero" => regs.exec = "unlock" /\ regs.text # NoSlot

\* No later stage sees retention SRAM as power-on left it, wherever other resets
\* stopped the ROM before.
RetentionReady == pc \in {"strap", "bootstrap", "romext"} => ram.owner # "random"

\* A reset reason is only forgotten once it is recorded and, when it asks for
\* it, retention SRAM is wiped: a reset between two steps loses none of it.
ReasonsKept ==
  [][reasons # {} /\ reasons' = {} =>
       /\ ram.reasons = reasons
       /\ WipesRam => ram.owner = "wiped"]_vars

\* What RomBootSpec sees of the flow: who is in control, the slot that runs and
\* the slots given up.
BootMode == IF pc \in InRom THEN "rom" ELSE IF pc \in {"shutdown", "trap"} THEN "halted" ELSE pc
Running  == IF pc = "romext" THEN regs.text ELSE NoSlot
GivenUp  == IF pc \in InRom /\ loc.attempt = 1 THEN {Ordered(0)} ELSE {}

Promise == INSTANCE RomBootSpec WITH mode <- BootMode, image <- Running, rejected <- GivenUp

\* The ROM only starts an eligible image, in the order of the boot policy.
SecureBoot == Promise!Spec
=============================================================================
