# Verification of the silicon creator boot code

This directory holds TLA+ models of the first boot stage of this OpenTitan
tree (`src/sw/device/silicon_creator`), the TLC configurations that check them
on small instances, and TLAPS proofs of the properties that matter most. Paths
below are relative to `sw/device/silicon_creator` unless they start with `hw/`
or `sw/`.

* [The system](#the-system)
* [Modules](#modules)
* [Boot data storage](#boot-data-storage)
* [The ROM boot flow](#the-rom-boot-flow)
* [SPI bootstrap](#spi-bootstrap)
* [Secure MMIO](#secure-mmio)
* [Memory protection and the ROM_EXT](#memory-protection-and-the-rom_ext)
* [The two cores](#the-two-cores)
* [The reset path](#the-reset-path)
* [Runs](#runs)
* [Proofs](#proofs)
* [Where the code and its documentation differ](#where-the-code-and-its-documentation-differ)
* [What is not modelled](#what-is-not-modelled)
* [Plan](#plan)

## The system

A chip leaves reset in mask ROM. `rom/rom_start.S` sets up the processor and the
watchdog and calls `rom_main()`, which configures the chip, then either enters
bootstrap (an SPI flash emulation through which a host erases and programs
flash) or verifies one of two ROM_EXT images in flash and jumps to it. One hart
runs with interrupts disabled in all of this: what makes the code hard is not
threads but *where it may stop*. A reset (power, watchdog, software, a
lost supply) may come between any two instructions, flash and retention SRAM
survive it in the state they were left in, and every hardened check of the code
turns a disagreement between two pieces of state into a trap.

| Component | State | Operations | Interacts with | What makes it hard | What makes it correct |
|---|---|---|---|---|---|
| Boot data storage, `lib/boot_data.c` | two flash info pages, each an append-only log of entries; page permissions | `boot_data_read`, `boot_data_write`, `boot_data_check` | flash controller (transactions that fail or are cut off), HMAC (digest), OTP (defaults) | a reset at any flash word; program errors that are not reported; a check that traps when two counters are equal | one register that survives resets, whose counter only goes up |
| ROM boot flow, `rom/rom.c` | globals, `lc_state`, `boot_data`, CFI counters, peripheral registers | `rom_init`, `rom_try_boot`, `rom_verify`, `rom_boot`, `rom_pre_boot_check` | everything below | a second attempt that inherits what the first one left; counters compared at fixed values on every path; resets between any two steps | only an eligible image runs, in policy order, and everything that is configured belongs to it |
| Boot policy, `rom/boot_policy.c` | none | order of the slots, manifest check | boot flow, boot data | ties and rollback | larger version first, slot A on a tie |
| Signature verification, `rom/sigverify_keys.c`, `lib/sigverify/` | none, but it uses OTBN | key selection, RSA on Ibex or OTBN, value of `flash_exec` | OTP, life cycle, OTBN | the key set and the engine depend on life cycle state and OTP; OTBN may lock | the value that enables flash execution comes only from a good signature |
| Secure MMIO, `lib/base/sec_mmio.c` | table of expected register values with a fixed number of slots; write, expected and check counters | read, write, write shadowed, check values, check counters, next stage | every driver | registers change under it; a table at its limit; a check that starts anywhere; each driver announces its number of writes at another place than it does them | a map that every check compares completely; counters agree wherever they are compared |
| CFI counters, `lib/cfi.h` | one counter per function | init, prepare call, increment, check | boot flow | one counter restarts when the first image passes | same |
| Retention SRAM, `lib/drivers/retention_sram.c`; reset reasons, `lib/drivers/rstmgr.c` | retention SRAM, `RESET_INFO` | wipe, record, clear | software after the ROM | reasons add up over resets; a reset may come between recording and clearing | no reason is lost, no stage reads SRAM that was not initialised |
| Watchdog, `rom/rom_start.S`, `lib/drivers/watchdog.c` | thresholds, count, enable, behind synchronisers | init, configure, disable, pet | every wait loop, power manager | each write arrives at a time of its own; a request to synchronise may be lost; it is what ends an unbounded poll | it never counts with values of another configuration, and its bite resets the chip |
| OTBN, `lib/drivers/otbn.c`, `lib/otbn_util.c` | idle, busy, locked | load, execute, wait | signature verification | an error locks it until reset | an error is a failed verification |
| Key manager driver, `lib/drivers/keymgr.c` | binding, maximum version | set, state check | boot flow | counted writes | binding of the image that runs |
| Flash controller driver, `lib/drivers/flash_ctrl.c` | permissions per page and bank | read, program, erase, verify, permissions | boot data, bootstrap | unbounded polling, errors | closed permissions between operations |
| Bootstrap, `rom/bootstrap.c`, `lib/drivers/spi_device.c` | state erase, verify, program; command FIFO, WEL and BUSY | chip and sector erase, page program, reset | a host on SPI | the host runs concurrently; ignored commands; interrupt state cleared late | nothing is programmed before both banks verify erased |
| Shutdown, `lib/shutdown.c` | key manager, flash, alert and reset registers | redaction, `shutdown_finalize` | everything | each step must still work after the ones before it | it ends with a reset |
| Alerts, `lib/drivers/alert.c` | alert handler registers | configuration per life cycle state | alert handler, power manager, processor | escalation stops the processor, and the watchdog with it | what is configured to reset does |
| ePMP, `rom/rom_epmp.c`, `lib/epmp_state.c`; address translation, `lib/drivers/ibex.c` | 16 PMP entries, a copy of them in RAM, two translated regions | initialise, configure debug ROM, open a region for reading or executing, check the copy, map a region | ROM, ROM_EXT, processor | code changes the entries it is fetched through; entries overlap and the lowest decides; permissions are for virtual addresses, verification is of physical ones | only verified code can be fetched, and never what can be written |
| ROM_EXT, `rom_ext/` | none of its own | order of the owner's slots, verification, opening and mapping the owner's image | memory protection and the copy that the ROM left | what it opens must be effective behind the entries of the ROM | the owner's image that was verified is the one that runs |
| Dual-core comparator (`hw/ip/rv_core_ibex`, `hw/vendor/lowrisc_ibex`) | registers of two cores, compare and CTC bit | clock, compare, select, roll back | boot code, which turns the comparison on and off | the comparator decides about the address that decides about the comparator; what is repaired when | the bus carries what an undamaged core would put there |
| Power manager, reset manager, alert handler (`hw/`) | requests in flops of the slow clock, state machine, `RESET_INFO`, escalation phase | stop clocks, reset, release, start | watchdog, software, alerts | handshakes between clock domains; flops that no reset clears | a reset has a cause, one, that is recorded |
| Other hardware: ROM, life cycle and flash controllers | finite state machines | | | | |
| Host bootstrap (`sw/host/opentitanlib/src/bootstrap`) | | erase, program, poll | bootstrap | retries | |

`PROJECT.json` lists the components with their sources, and the hazards of the
code at the lines where they bite.

## Modules

| Module | Content |
|---|---|
| `BootDataSpec` | abstract: a register that survives resets |
| `BootData` | `lib/boot_data.c` on two flash pages, its properties, the refinement of `BootDataSpec` |
| `BootDataInv` | the inductive invariant of `BootData`, and what the refinement adds to it |
| `MCBootData` | instance for TLC |
| `BootData_proofs` | the inductive invariant of `BootData`, its safety properties, and that it implements `BootDataSpec` |
| `RomBootSpec` | abstract: which image the ROM may start |
| `RomBoot` | `rom/rom.c` with what it uses of its drivers, its properties, the refinement of `RomBootSpec` |
| `RomBootInv` | the inductive invariant of `RomBoot` |
| `MCRomBoot` | instance for TLC |
| `RomBoot_proofs` | theorems about `RomBoot` |
| `BootstrapSpec` | abstract: a serial NOR flash that is programmed only after all of it was seen erased |
| `Bootstrap` | `rom/bootstrap.c`, `lib/drivers/spi_device.c`, the upload and status hardware below it, and any host; the refinement of `BootstrapSpec` |
| `BootstrapTool` | `Bootstrap` with the host tool of this tree |
| `BootstrapToolInv` | the inductive invariant of `BootstrapTool` |
| `MCBootstrap`, `MCBootstrapTool` | instances for TLC |
| `Bootstrap_proofs` | theorems about `Bootstrap`, and that it implements `BootstrapSpec` |
| `BootstrapTool_proofs` | theorems about `BootstrapTool`: its invariant, its safety properties, and that it implements `BootstrapSpec` |
| `SecMmioSpec` | abstract: a map from registers to expected values |
| `SecMmio` | `lib/base/sec_mmio.c` on plain and shadowed registers; the refinement of `SecMmioSpec` |
| `MCSecMmio` | instance for TLC |
| `SecMmioInv` | the inductive invariant of `SecMmio` |
| `SecMmio_proofs` | theorems about `SecMmio` |
| `Epmp` | PMP entries, address translation, the copy of the entries, and the register writes of the functions that open regions |
| `Handover` | reset, ROM and ROM_EXT as far as they decide what can be executed |
| `HandoverInv` | the inductive invariant of `Handover` |
| `MCHandover` | instance for TLC |
| `Handover_proofs` | what the operators of `Epmp` compute, the inductive invariant of `Handover`, and its properties |
| `DualCore` | the two cores of `rv_core_ibex` with comparator and roll back |
| `MCDualCore` | instance for TLC |
| `DualCore_proofs` | theorems about `DualCore` |
| `AonTimer` | the watchdog behind its clock domain crossings |
| `ResetPath` | `AonTimer` with the code that configures it, shutdown, escalation, power and reset manager |
| `ResetPathInv` | the inductive invariant of `ResetPath` |
| `MCResetPath` | instance for TLC |
| `ResetPath_proofs` | theorems about `ResetPath` |

`Handover` extends `Epmp` and takes up where `RomBoot` leaves off: `RomBoot` says
which ROM_EXT the ROM may run, `Handover` what can be executed on the way to
it and from it to the owner stage. `RomBoot` uses the counters of `lib/base/sec_mmio.c` and `SecMmio` is the whole
library. `RomBoot` and `BootData` meet at the interface of boot data storage: `RomBoot`
reads `min`, the register that `BootDataSpec` describes, as one value, and
`BootData` implements `BootDataSpec`. `ResetPath` is below all of them: it knows
only whether the code configures the watchdog, runs, polls or shuts down, and
shows where the resets of the other modules come from and that
`RESET_INFO`, which `RomBoot` records, names their cause.

A definition whose comment starts with "Mutant:" is a plausible bug in place of
the definition that follows it; nothing else uses it. Each property of a
passing run is violated when one of them replaces the original
(`PROJECT.json`, "mutants").

## Boot data storage

### State

`flash[p][i]` is entry `i` of page `p`. An entry is four fields in flash order:
`dig` (the digest), `valid` (whether the `is_valid` word holds
`kBootDataValidEntry`, which is also the erased value), `ctr` (the flash word of
identifier and counter) and `ver` (the security versions). A digest is
represented by the content it was computed over, so an entry is valid exactly
if its digest is that of its content. `Erased` and `Torn` are a field of erased
words and a field that holds no value ever written. `perms`, `info` and `job`
are the page permissions, `active_page_info_t` with the newest entry found, and
the place and content of the entry to write. `pc` names the flash transaction
that comes next.

### Actions

| Action | Code |
|---|---|
| `StartRead`, `StartWrite` | `boot_data_read()` and `boot_data_write()` up to the first search |
| `ScanPage(p)` | `boot_data_page_info_update()`: forward search for the first empty entry with the sniffed words, backward search for the last valid one, comparison of counters with the trap |
| `ReadReturn` | the entry found, or the default where the life cycle state and OTP allow it |
| `Plan` | counter, page and index of the new entry, and whether a page is erased |
| `Erase`, `ProgramDigest`, `ProgramRest` | the transactions of `boot_data_entry_write_impl()` |
| `ReadBack` | its comparison with the entry, and the permissions for the invalidation |
| `Invalidate` | `boot_data_entry_invalidate()` |
| `FlashError` | `wait_for_done()` reports an error and the transaction took effect up to some word |
| `Reset` | a reset, with the transaction in progress cut off at some word |

A step is one flash transaction: nothing else runs on the hart between two of
them and a reset between two of them is a step of its own. Transactions that do
not complete leave a prefix of the words they go through in ascending order,
which is how the generic flash bank of this tree erases and programs
(`hw/ip/prim_generic/rtl/prim_generic_flash_bank.sv`, 338-370). A program
transaction that reports success may leave a field `Torn` (`WeakFlash`), which is
what the read-back in the code is for. An erase that reports success erased
everything.

### Properties

* `CrashAtomic`: `BootData` implements `BootDataSpec`. The abstract register is
  the content of the newest valid entry. Wherever a reset or an error ends a
  write, the register holds the old or the new content; a write that returns
  `kErrorOk` replaced it; a read returns it; the counter goes up by exactly one.
* `NoTrap`: the check at `lib/boot_data.c:405` never fails.
* `ErasureSparesNewest`: erase permission is never open on the page with the
  newest entry, and all pages are closed between calls, after errors too.
* `ProgramsErasedWords`: no word is programmed twice without an erase, although
  torn transactions leave words anywhere. (A torn digest with an erased rest is
  the case the full comparison in the search is for.)
* `CallsEnd`: every call returns or a reset ends it.
* `IInv`: the inductive invariant (see Proofs).

## The ROM boot flow

### State

`chip` is what OTP and the life cycle state fix: `swRsa`, `bootstrapEn`, the
watchdog threshold (enough or not), whether the ROM_EXT measurement is bound,
and the mask of reset reasons that wipe retention SRAM. `slots`, `min`,
`reasons` and `ram` survive resets or change outside the ROM: the manifests in flash, the
stored minimum version, `RESET_INFO`, and retention SRAM with its recorded
reasons and the owner's part. `loc`, `regs`, `cfi` and `mmio` start anew with
every reset: which slot is being tried, the last result and value of `flash_exec`,
the registers the flow configures (each names the slot it was configured for),
the CFI counters in steps, and the write, expected and check counters of
`sec_mmio_ctx`.

A manifest is reduced to what the flow decides on: well-formed or not, version,
type of the key it names, whether the signature is one over this image on this
chip, and `address_translation`.

### Actions

| Action | Code |
|---|---|
| `RomInit` | `rom_main()` and `rom_init()` up to `ast_init_done_check` |
| `WipeRetention`, `StoreReasons`, `ClearReasons` | the three accesses of `rom_init()` whose effects survive a reset, `rom/rom.c:163-174` |
| `InitEnd` | the rest of `rom_init()` with its checks |
| `EnterBootstrap` | the branch of `rom_main()` with `watchdog_disable()` |
| `TryBoot` | `rom_try_boot()` up to the first `rom_verify()`, boot data read included |
| `VerifyEarlyReturn` | `rom_verify()` when the manifest check or the key lookup fails |
| `Verify` | `rom_verify()` otherwise, on Ibex or OTBN, with an error or a locked OTBN |
| `Accept`, `SecondAttempt`, `BothFail` | the branches of `rom_try_boot()` on the result |
| `BindKeymgr`, `Translate`, `PreBootCheck`, `Jump` | `rom_boot()` in order |
| `ErrorReturn` | every error that reaches `SHUTDOWN_IF_ERROR`, and a ROM_EXT or bootstrap that returns |
| `Reset(cause)` | any reset at any moment; power-on scrambles retention SRAM, other causes add up in `RESET_INFO` |
| `UpdateSlot`, `RaiseMin`, `UseRam` | external: what bootstrap, the ROM_EXT and the owner do to flash, boot data and retention SRAM |

`EnterBootstrap` and `TryBoot` are both enabled when OTP allows bootstrap,
because the strap pins are an input. A step is a stretch of code in which
nothing that outlives a reset changes more than once, so a reset between two
steps covers a reset between any two instructions.

### Properties

* `SecureBoot`: `RomBoot` implements `RomBootSpec`. An image only runs if it is
  well-formed, not older than the stored minimum, signed by a key its life cycle
  state accepts, and first in policy order except for slots that were given up.
  A slot is only given up when it is not eligible, or when OTBN verified it.
  `Keys` of `RomBootSpec` states the accepted keys for each life cycle state,
  independently of `key_is_valid()`.
* `ChecksAgree`: no CFI or `sec_mmio` counter check fails on any path. The one
  trap that is reachable is `HARDENED_UNREACHABLE()` at `rom/rom.c:374`, for an
  image that is signed and whose `address_translation` is no hardened boolean:
  the ROM then neither boots it nor tries the other slot.
* `OneImage`: binding, remapping, executable region and measured image are the
  same slot, and flash execution is enabled with the value its verification gave.
* `RetentionReady`: bootstrap and the ROM_EXT never see retention SRAM as
  power-on left it, whatever resets came in between.
* `ReasonsKept` (action property): `RESET_INFO` goes to zero only when all of
  its reasons are recorded and the wipe they ask for is done.
* `IInv`: the inductive invariant.

### Assumptions of the model

OTP fields that hold hardened booleans hold one of the two values.
`rom_pre_boot_check()` reads life cycle state, boot data and `cpuctrl` again and
traps if they changed; they only change through faults, which are out of scope.
The same holds for `sec_mmio_check_values()`.

## SPI bootstrap

### State

`flash` maps flash words to contents, `perms` is what is open on the data
partition. `rom` is the ROM: next step, state of `bootstrap_state_t`, the command
being executed and the flash calls that are left of it. `spi` is the hardware
below the driver: the three copies of the status register (staged while SCK
runs, committed and copied to software when CSB is released), software's writes
on their way through a FIFO of two entries, command, address and payload FIFOs,
the interrupt, and the transaction on the bus. `strap` are the pins.

The host runs in parallel. A transaction is two steps, its bits and the release
of CSB, because the command FIFO and the busy bit change with the bits and the
address, the payload and the interrupt with the release. The ROM's steps are
its single accesses to registers that the host can change, and its flash
transactions. The host of `Bootstrap` sends anything at any time, which covers
hosts that ignore the busy bit.

### Actions

| Action | Code |
|---|---|
| `RomMain`, `EnterBootstrap` | the two samples of the straps, `spi_device_init()` |
| `CmdWait`, `CmdClear`, `CmdPop`, `CmdPayload` | `spi_device_cmd_get()`: poll the interrupt, clear all of `INTR_STATE`, read command and address FIFO, read the payload |
| `Ignore`, `Skip`, `FirstErase` | `bootstrap_handle_erase()`, and what the program phase does without WEL or with an unknown command |
| `StartJob`, `BadAddress`, `ResetCommand` | `bootstrap_handle_program()` |
| `Transaction`, `FailedTransaction`, `EndJob` | the calls of `flash_ctrl` in windows, the errors of each, permissions and status at the end |
| `EraseVerify` | `bootstrap_handle_erase_verify()` |
| `Shutdown` | the error that `bootstrap()` returned |
| `AnyShift`, `AnyRelease`, `LatePop`, `AnyStrap`, `AnyReset` | the bus, the host and resets |

`BootstrapTool` replaces the host by `do_update()`, `Eeprom::update()` and
`SpiFlash`: `ToolStart` (straps, reset), `ToolShift` and `ToolRelease` (write
enable, command, polling), `ToolSkip` (a chunk of ones is not sent),
`ToolUnstrap`, `ToolReset`. An item of a script is a command with what
`SpiFlash` sends around it; an update's items are the chunks of its image, one for
each programming page, between a chip erase and a RESET. `view.mem` is what the
tool must believe flash to be, from the commands it saw end. The tool cannot
notice a reset of the chip in the middle of a session, since a status register
that reads 0 looks like the end of a command; `view.sure` says that none came,
and what is claimed of the tool is claimed then. The tool begins a session only
when `spi_device` is set up, which in the code is when it reads the SFDP table.

### Properties

* `NorFlash`: `Bootstrap` implements `BootstrapSpec`. The pages, windows and
  wrapped writes of a command add up to the command of a serial NOR flash on no
  other word; a command that fails ends the session; nothing is programmed
  before all of flash was seen erased in the same session.
* `PopsACommand`: each interrupt the ROM takes stands for a command in the FIFO,
  although it clears interrupts of commands that arrived after it had read the
  register. Its inductive form is `CommandsWait`.
* `PermissionsMatch`: permissions are those of the command in progress.
* `DoneIsDone`: what the tool saw end has ended. The busy bit, its three copies,
  late writes and the flash work must fit together for it.
* `InStep`: the ROM executes the command the tool waits for.
* `ImageWritten`, `UpdateEnds`: the update ends, with the image in flash.
* `BusyEnds` is violated (see Where the code and its documentation differ).

## Secure MMIO

`hw[r]` is a register: its value and, for a shadowed register, the value staged
by a first write (the inverse that hardware keeps of it is not). `addrs`,
`values`, `last` are the table, `writes`, `announced`, `checks` its counters,
`cur`, `i` and `offset` the locals of the call in progress. Values are masked
before they are stored; `Mask` is that involution. `alien` is no state of the code:
the registers that something else changed since the library confirmed them.

A call of `sec_mmio_read32()`, `sec_mmio_write32()` or `sec_mmio_write32_shadowed()`
is two steps: the access with the entry in the table (`Read32`, `Write32`,
`Write32Shadowed`), and the read that compares (`Compare`). A round of the loop
in `sec_mmio_check_values()` is a step (`CheckRound`). Between two steps `Change`
may set any register, and stage a value in a shadowed one: hardware, software
that does not use the library, and faults. A write that the register ignores is
a `Change` back. SRAM holds anything after `Reset`.

* `RegisterMap`: `SecMmio` implements `SecMmioSpec`. The abstract map takes no
  notice of slots and offsets; a check compares each of its registers exactly
  once whatever the random start, and `sec_mmio_next_stage_init()` loses none.
* `NoFalseTrap` (action property): a trap means that something else changed a
  register, that the counters differ, or that a new register finds all slots
  in use.
* `Tracked`: what nothing else changed holds what the table expects.
* `OneSlotEach`: slots are distinct and used from the first.
* `IInv`: the inductive invariant, with `Tracked` and `OneSlotEach` among its
  conjuncts.

## Memory protection and the ROM_EXT

Addresses count words. `pmpaddr` and `pmpcfg` are the CSRs, an entry's
configuration as its set of bits; `remap` the two regions of the address
translation; `epmp_state` the copy in RAM (`None` before `rom_epmp_state_init()`);
`ops` the register writes that are left of the function in progress. `Write`
executes one of them, so every state between two CSR writes is a state of the
model. `Allowed` is the processor's check for M-mode with the reset value of
`mseccfg`: the matching entry with the lowest number decides, and what no entry
matches is denied. `Physical` is the translation behind it.

`RomEpmpInit`, `ConfigDebugRom`, `StateInit`, `RomBoot`, `RomUnlockR`,
`RomUnlockRx`, `RomJump` are the ROM in order; `RomExtMain`, `RomExtReject`,
`RomExtBoot`, `RomExtUnlockR`, `RomExtUnlockRx`, `RomExtJump` the ROM_EXT. Each begins
when the writes of the one before are done. `epmp_state_check()` is part of the
action that follows it in the code (`Checked`). Any image may be the one the ROM
verified. Flash holds any two owner images when the ROM_EXT reads them, and
verifying one may fail although it is good.

* `OnlyVerified`: whatever can be fetched, at any virtual address, is code of
  the ROM or of the image that was verified, in the bank where it was verified.
* `NeverWritableCode`: no word can be written at one address and fetched at
  another or the same one, except debug ROM where the life cycle state opens it.
* `Continues`: after each register write, the code that runs can be fetched and
  what it needs be accessed.
* `Confined` (action property): a function changes permissions in its own region
  only, in every intermediate state.
* `ChecksPass`: CSRs and copy agree wherever they are compared, and a verified
  ROM_EXT is entered.
* `IInv`: the inductive invariant (see Proofs).
* `OwnerStarts` and `OwnerIsVerified` are violated (see Where the code and its
  documentation differ). `OnlyVerified` leaves out the owner stage for that reason.

## The two cores

This tree adds a second Ibex to OpenTitan. Both cores execute what memory
returns for the address on the bus. `DualCore` models what surrounds them.

| Definition | Code |
|---|---|
| `Outputs`, `Written`, `Clocked` | a core, reduced to one stage (Ibex has no write-back stage here). It shows the next fetch address and the data of a store, writes a register, and refetches after a write of `mstatus` |
| `Bus(m)` | the multiplexer of the outputs (`rv_core_ibex.sv:669`) |
| `SecureBoot` | `secure_boot`, decoded from the address on the bus; it gates the clock of the shadow core (`:496`, `:536`) |
| `Compared`, `Settled` | `outputs_mismatch`, and the values at which the loop through `secure_boot` settles. If two do, or none does, either is possible |
| `AfterStatus` | the write of `mstatus` in `ibex_csr.sv`, with the pulse that clears the CTC bit |
| `AfterCtc`, `AfterRegs` | `ibex_register_file_ff.sv`: the edge of the CTC bit, and the priority of flip, roll back and write |

`ref` is no part of the chip: it is the main core as it would be without damage,
fed with the same instructions. Damage is what CTC does, all registers of the
main core inverted. Memory returns any instruction in every cycle, so a run is
any program. `blind` records whether damage was `Exposed` to what the
comparator cannot see: it decided about a jump or a write of `mstatus`, or was
still there when software ended the comparison or left the boot section, or the
shadow core had missed a cycle.

* `Masked`: otherwise the bus carries what `ref` would put there, during the
  comparison and after it.
* `Repaired`: the cycle in which a damaged register shows as data ends with the
  main core equal to `ref`. A jump is the only instruction that shows a register
  and writes one in the same cycle; there the roll back loses the write.
* `EachCommandFlips`: no CTC command is lost. `ibex_csr` ignores the CTC bit in
  the cycle after a write that sets it or MPIE, but the pipeline flush after
  such a write keeps the next one away.
* `TypeOK` includes that the CTC bit lasts one cycle.
* `Uninterrupted` is violated (see Where the code and its documentation differ).

## The reset path

What ends a boot that is stuck or has failed. Software, the escalation timer and
the state machine of the power manager take steps of their own; `SlowEdge` is
one edge of the always-on clock, in which the timer and the synchronisers of the
power manager sample what the others left. Any number of steps of software may come
between two edges, and any number of edges between two steps, so nothing
depends on the ratio of the clocks.

| Definition | Code |
|---|---|
| `reg`, `new`, `age`, `Put`, `Landing` | a register of the timer in the slow domain, the value of a write on its way and for how many edges (`prim_reg_cdc`). The bus stalls accesses to a register with a write on its way (`Free`), so a write followed by a read waits; other registers overtake. The counter is also written by hardware, whose arbiter may hold a write of software for three edges more |
| `TimerEdge` | count, bark, bite, and the reset request that stays (`aon_timer_core.sv`, `aon_timer.sv`); escalation stops the count |
| `RomStart`, `Configure`, `Advance` | the accesses of `rom_start.S` and of `watchdog_init()` with `watchdog_configure()` in order; `EnableReset`, `Synchronise`, `WriteReg`, `ReadBack` execute one. A write of `sec_mmio` is a write and a read |
| `toggle`, `sync`, `slowEn` | `CFG_CDC_SYNC` toggles a level in the fast domain; an edge on it in the slow one copies `RESET_EN`. Two requests between two edges of the slow clock are none |
| `ConfigureAlerts`, `StartPoll`, `EndPoll`, `EnterFlash`, `EnterBootstrap`, `Fail`, `Nmi` | what the boot flow may do, as far as resets are concerned |
| `ShutdownStep` | `shutdown_finalize()`: report, escalate by software, request a reset, kill flash, hang. Code in flash ends with flash (`CanRun`) |
| `RaiseAlert`, `Escalate` | the phases of the class of the alerts, with the signals that OTP enables |
| `Raw`, `reqs`, `Seen` | requests for a reset, in the flops of `u_slow_ext_req_sync`, masked with the enable bit that came through |
| `StopClocks`, `EnterReset`, `ReleaseReset`, `Activate` | `pwrmgr_fsm.sv`; `EnterReset` is also `rstmgr.sv`, which records the causes |

* `ArmsClean` (action property): the counter only runs with thresholds that have
  arrived, and starts from 0 with those of the code that started it. A count left
  over from `rom_start.S`, or a bite threshold that is still 0, would bite at once.
  `watchdog_configure()` reads back only the bite threshold and the enable bit:
  this is enough because a count, held as long as the arbiter can hold it, is
  written two accesses earlier.
* `Guarded`: when boot goes on, `RESET_EN` has come through. `rom_start.S` and
  `watchdog_configure()` ask for it three times in all. If two of the requests
  fall between two edges and are lost, the third is not.
* `BarkBehind`: the bark comes when it is too late to bite, for thresholds whose
  9/8 fits 32 bits; those above 2^32 / 9 bark at once
  (`lib/drivers/watchdog.c:66`).
* `ResetsForCause` (action property): the cause for which a reset is entered is still
  there, and `RESET_INFO` names it. The flops of the requests are not reset; that
  the processor starts only when they are empty is due to the edges OTP and the
  life cycle controller take (`InitEdges`).
* `PollEnds`: a poll without end is ended by the watchdog, if it is on, unless an
  alert stopped the processor, and with it the watchdog, for good.
* `ShutdownEnds`: shutdown ends with a reset from each stage, with the watchdog and
  without it, unless the signals that OTP enables stop the chip.
* `IInv`: the inductive invariant (see Proofs).

Left out: the wakeup timer, pausing in sleep and interrupt tests; low power
entry; requests for resets of the debug module and for lack of main power; the
spin for an RMA chip (`rom_start.S`, 285-306); a power-on reset in the middle,
after which everything is as in `Init`; killing the key manager, which changes nothing
here; the writes with which the hang loop of `lib/shutdown.c` repeats its request.

## Runs

| Run | Expect | Question |
|---|---|---|
| `boot_data` | pass | Is storage crash-atomic, is `IInv` an invariant, and does every call end? |
| `rom_boot` | pass | Does the flow start only what it may, with agreeing counters, over any number of resets? |
| `bootstrap` | pass | Is bootstrap a serial NOR flash for any host, with commands sent at any time, flash errors and erases that fail silently? |
| `bootstrap_tool` | pass | Is what the tool saw end done, does it write its image, and does the update end, with flash errors? |
| `bootstrap_busy` | violation | Does a busy bit always end? |
| `sec_mmio` | pass | Is the library a bounded map whose checks are complete, while registers change under it? |
| `handover` | pass | Can anything but verified code be executed, and does every stage start that should, up to the owner's? |
| `handover_owner_starts` | violation | Does every verified owner image start? |
| `handover_owner_verified` | violation | Is the owner code that can be executed the one that was verified? |
| `dual_core` | pass | Does damage to the main core stay off the bus, and is it repaired? |
| `dual_core_uninterrupted` | violation | Does the comparator decide in each cycle in which it is on? |
| `reset_path` | pass | Is the watchdog armed as configured whatever the clocks do, does what is stuck or failed end with a reset, and does each reset have its cause? |

Bounds. `boot_data`: two entries per page (the code has 32) are the least with a
page that is neither empty nor full, and with a torn entry before a good one; the
default counter is 5 as in the code and no write starts at `MaxCounter` = 9, so
four committed writes fill the first page, then the second, and come back to
erase the first. Any number of writes that fail, reads and resets come in between. Two versions
tell old content from new. `rom_boot` has two good images of different
versions, and one image for each way in which an image is refused or traps; five
chips so that each life cycle state, each engine and each OTP switch occurs;
two reset causes of which chips wipe for one, the other, or none. Nothing else is
bounded: its counters restart at every reset. The `bootstrap` runs have two
banks of one sector (two pages) each, pages of one programming page of two or
four words, and windows of one or two words: the least geometry with two banks,
a sector of more than one page, a program that wraps, and a write of more than
one window. Two commands by any host are an erase and one that overlaps it or
follows it, or one in each of two sessions with a reset between; the FIFOs hold 16 commands in hardware, so they do not overflow
(an overflow of the payload is one of the commands). `bootstrap_tool` writes
an image that covers three pages with one of ones between, one that begins with
ones and one that ends with them, and runs two scripts of five commands.

`sec_mmio` has two slots for three registers, so the table is empty, in
between, full and too small; four random numbers give each start offset, and
counters up to 2 let them agree and differ. Its proof covers every size.

`handover` has 64 words of addresses, in which every region of the chip's map has
a place in the same order and of the least size at which its properties differ:
the part of ROM that reset opens is smaller than its code, and that smaller than
ROM; the translated windows are as large as a bank. Two code regions in an image
make the two banks differ in what is code. All life cycle states are run.

`dual_core` has two registers, so that one is used while the other is damaged,
and words of two bits, so that each word is an address in or behind the boot
section and a value for `mstatus` with each combination of the two bits. Nothing is
explored behind an exposed cycle (`NotBlind`), where nothing is promised.

`reset_path` counts to ten, so that 9/8 of one threshold overflows; a bite of
`rom_start.S` after 3 is the least that lets software reach `watchdog_configure()`.
Its five chips have the watchdog on, off by OTP and off by the life cycle state, and
escalation that does nothing, stops the processor, or resets the chip. Two
edges pass before OTP is ready (`InitEdges`), the least that is enough for
`ResetsForCause`. Resets are not bounded.

Fairness. `boot_data` assumes `WF_vars(Step)` for `CallsEnd`, the processor
executes the next transaction of a call in progress unless a reset or an error
ends the call. `wait_for_done()` returning is part of that step; that it returns
is the flash controller's promise (the watchdog's otherwise). Nothing is assumed
about resets or new calls. `bootstrap_tool` and `bootstrap_busy` assume
`WF(RomNext)` and `WF(ToolNext)`: the ROM executes its next step, which waits for
no other actor except in the poll for a command, and the tool its next
transfer. `reset_path` assumes that the slow clock ticks, that the power manager
and the escalation timer advance (`WF` of `SlowEdge`, `Pwrmgr`, `Escalate`), and that
the processor executes the configuration and `shutdown_finalize()` while it has a
clock and is not stopped (`Config`, `ShutdownStep`): those have no loop that waits
for anything but a write on its way. Nothing says that a poll ends. The other runs
check safety only. A deadlock is an error in every run
without the tool, whose script ends.

## Proofs

`RomBoot_proofs` proves, for every set of manifests, versions, chips and reset
causes (`RomBootAssumption`):

| Theorem | Statement |
|---|---|
| `Invariant` | `Spec => []IInv` |
| `TypeCorrect` | `Spec => []TypeOK` |
| `CountersNeverDisagree` | `Spec => []ChecksAgree` |
| `OneImageThroughout` | `Spec => []OneImage` |
| `RetentionInitialized` | `Spec => []RetentionReady` |
| `NoReasonLost` | `Spec => ReasonsKept` |
| `BootsSecurely` | `Spec => SecureBoot` |

None of these properties is inductive. `IInv` adds, one conjunct per lemma:

* `Flow`: at each `pc`, what `loc` and `regs` hold. `OneImage` needs it because
  the registers are set in three different steps after the verification.
* `Judged`: an image that passed is eligible, and one that failed is not or was
  verified by OTBN. This carries the verdict from `Verify` to `Jump`, and is what
  maps `Accept` ... `Jump` and `SecondAttempt` to steps of `RomBootSpec`.
* `Retained`: scrambled retention SRAM implies that power-on is still among the
  reasons and the wipe is still to come; between the wipe and the clearing,
  what is recorded equals `RESET_INFO`.
* `MmioInv` and `CfiInv`: the values of the counters at each `pc`, which differ
  between the first and the second attempt.

The refinement proof maps each action of `RomBoot` to one of `RomBootSpec` or a
stutter, under `IInv`: `SecondAttempt` is `Reject`, `Jump` is `Run`, failures and
traps are `Halt`, updates of flash are `Update`.

`BootData_proofs` proves, for every page size, set of versions, default and `MaxCounter`, with weak flash or without
(`BootDataAssumption`, `DistinctAssumption`):

| Theorem | Statement |
|---|---|
| `TypeCorrect` | `Spec => []TypeOK` |
| `Invariant` | `Spec => []IInv` |
| `NeverTraps` | `Spec => []NoTrap` |
| `NewestNotErased` | `Spec => []ErasureSparesNewest` |
| `WordsErased` | `Spec => []ProgramsErasedWords` |
| `IsCrashAtomic` | `Spec => CrashAtomic` |

The conjuncts of `IInv`:

* `Ordered`: counters of valid entries increase along a page and differ between
  the pages. With it `NoTrap` follows, and the newest entry is unique.
* `Live`: the newest entry is on a page whose entries were used from the first to
  the last. The other page may have holes, from an erase that was cut off; this
  one may not, or the forward search would stop before the newest entry.
* `Searched`: what `info` says of the pages searched so far.
* `WriteInv`: during a write, `info` is the entry to replace, the counter of the
  new one is above all others (`Replaces`), the target is the first unused
  entry of its page (`Appends`), and it holds exactly what the transactions done
  so far left there (`Written0`). `WordsErased` is read off this.
* `Opened`: erase permission only on the page of the target, and never that of
  the old entry.
* `Shape`: which variables hold a value at which step.

The step lemmas classify what a transaction does to the flash, whether it
completes or is cut off: either the newest entry and its page stay as they were
(`Kept`), or it is the last program transaction and the target is the whole new
entry (`TornKeeps`, `StepRest`). All that `Ordered` and `Live` need follows from
that. The refinement uses the same split: `Kept` leaves the abstract register
alone (`KeptStored`), so the last program transaction is the only step that can
commit, for `Reset` and `FlashError` too (`TornWhollyOrNot`). It needs one
conjunct more, `Asked`: what the content of the new entry has to do with the
arguments of the call and the old entry.

`Bootstrap_proofs` proves, for every host that sends commands of `Commands`,
any geometry, and any number of commands, resets and flash errors:

| Theorem | Statement |
|---|---|
| `CommandsTheorem` | `Spec => [](CommandsWait /\ PopsACommand)` |
| `PermissionsTheorem` | `Spec => []PermissionsMatch` |

`CommandsWait` counts: the FIFO holds at least one command for the interrupt
that was taken and not yet served, one for the interrupt that is set unless it
is about to be cleared, and one for a command that is still on the bus. The last
two are what makes clearing a later command's interrupt harmless.
`PermissionsMatch` needs which commands can have flash calls at all
(`WorkMatches`).

It also proves, from the same assumptions (payloads fit the buffer of a
programming page, which is where `CommandsAssumption` bounds them):

| Theorem | Statement |
|---|---|
| `TypeCorrect` | `Spec => []TypeOK`: also that no call of `flash_ctrl` leaves the data partition |
| `Refinement` | `Spec => NorFlash` |

The first part is arithmetic: the two erases of a sector and the one or two
writes of a page program reach the words a serial NOR flash would (`Erases`,
`Programs`), for every address and length; the windows of a call make up the
call (`WindowSize`, `Rest`). The invariant `JobInv` says that the calls left
(`rom.todo`) all do a part of the command (`Fits`), and that each word of the
command is finished or waits in one of them, unless a call failed. A
transaction keeps what the command makes of every word, since programming the
same data twice is programming it once (`ProgrammedTwice`): the effect of the
command, seen from the present content of flash, stays the same while its words
are written one after the other (`TransactionWords`). So transactions are
`Work`, failed ones `Spoil`, and when no call is left, the command is done.

`BootstrapTool_proofs` proves, for every set of images of any length, any scripts of
a tool that polls, any geometry and content of flash, flash errors, and any
number of resets (`BootstrapAssumption`, `ToolAssumption`):

| Theorem | Statement |
|---|---|
| `ToolInvariant` | `UpdateSpec => []IInv` |
| `InStepTheorem` | `UpdateSpec => []InStep` |
| `DoneIsDoneTheorem` | `UpdateSpec => [](~WeakErase => DoneIsDone)` |
| `ImageWrittenTheorem` | `UpdateSpec => [](~WeakErase => ImageWritten)` |
| `ToolRefinement` | `UpdateSpec => NorFlash` |

`ToolAssumption` says of a script what `SpiFlash` does: it polls after each
command but for a RESET with which the script ends. Where `WeakErase` is set an
erase may fail without an error, a sector erase is not verified, and the tool
cannot know; the two theorems about what flash holds leave this out, as the run does, and
`InStepTheorem`, `ToolInvariant` and `ToolRefinement` do not.

* `IInv` is a protocol. While no unexpected reset came (`view.sure`), the tool and the
  ROM are in one of eight phases (`Phase`): `Setup` behind the first reset,
  `AtRest`, `Enabling` and `Enabled` around the write enable, `Sending` while the
  command is on the bus, `Flight` while the ROM has it, `Ended` when the ROM
  has cleared the status and the tool has not read it yet, `Ending` behind the
  script. A phase says what is in the bus, the FIFOs and all copies of the
  status register, and `InRom` how far the ROM is with the command.
* `Flight` says that staged, committed and synchronised status are all busy and no
  pop is pending. That is why the tool cannot read an early end. `Ended` allows a
  late pop while the committed copy is still busy: a poll then reads busy once more,
  and its release settles the staged copy before the tool goes on.
* Flash enters only by `Known`: what the tool believes is there. While a command
  is executed, `Doing` says instead that its effect from the present content is its
  effect from what the tool believed, and no other word differs; the lemmas
  about words of `Bootstrap_proofs` carry this over each transaction, and
  give back `Known` when no call is left.
* `ImageWritten` needs `Progress`: at item `i` the chunks before it are in what the tool
  believes flash to be (`WrittenBefore`), whether they were sent or skipped. A
  step of the tool adds one chunk (`ChunkWritten`, `NothingAdded`), and the last
  item is behind the last chunk (`ChunkCounts`).
* `ToolRefinement` uses the step lemmas of `Refinement`: the tool's own steps
  stutter, but for its resets, which fail the command in progress.

`SecMmio_proofs` proves, for every number of slots, registers and values
(`SecMmioAssumption`):

| Theorem | Statement |
|---|---|
| `Invariant` | `Spec => []IInv` |
| `TypeCorrect` | `Spec => []TypeOK` |
| `SlotsDistinct` | `Spec => []OneSlotEach` |
| `TableTracks` | `Spec => []Tracked` |
| `TrapsForCause` | `Spec => NoFalseTrap` |
| `ImplementsMap` | `Spec => RegisterMap` |

`Tracked` needs to know what a call in progress still has to confirm (`Settled`,
`Recorded`), and the refinement which slots are left: those from `offset` on,
around the end, in `last - i` rounds (`InLoop`, `Around`).

`Handover_proofs` proves, for every map of memory, set of
images and life cycle state (`EpmpAssumption`, `HandoverAssumption`):

| Theorem | Statement |
|---|---|
| `BlockOfEncoded` | an entry with the encoded address of an aligned block matches the addresses of that block and no other |
| `Invariant` | `Spec => []IInv` |
| `TypeCorrect` | `Spec => []TypeOK` |
| `ChecksAlwaysPass` | `Spec => []ChecksPass` |
| `FetchesAreVerified` | `Spec => []OnlyVerified` |
| `CodeIsNeverWritable` | `Spec => []NeverWritableCode` |
| `AlwaysContinues` | `Spec => []Continues` |
| `CallsAreConfined` | `Spec => Confined` |

The assumptions say of the memory map what the linker scripts and
`top_earlgrey.h` say of theirs: the seven regions do not overlap, what an entry
describes by one address is an aligned power of two, ROM code is in ROM, the stack
guard in RAM, and images fit the bank and the translated window. Images pass the
checks of `manifest_check()` (`ManifestCheck`) before they are entered, and
nothing else is known of them.

* `IInv` follows the calls (`Stage`). Before the call that opens an entry the entry
  is shut, behind it the entry is open for its region, and during the call the
  register writes that are left determine what it holds (`OpeningNapot`,
  `OpeningTor`, `Mapping`; `Initialising` for the fifteen writes of
  `rom_epmp_init`). `Copy` says where the copy runs ahead of the registers
  (`Pending`), `FixedEntries` that no later call disturbs an earlier entry. The
  properties are about every address and cannot be inductive by themselves.
* A power of two is a number without odd divisors (`PowersOfTwo`). That such an
  address determines its block is an induction over the size of the block. It is
  made with the library's theorem that `Nat` is well-founded, as the existence of a
  least element (`LeastElement`), since a principle of induction for an arbitrary
  predicate cannot be instantiated.
* The other properties first fix what the entries are at each stage
  (`EarlyContents`, `LaterContents`), then which addresses each entry matches,
  and decide by cases which is the lowest. `Confined` compares two consecutive
  states: the one entry that changes decides only within its region, because lower
  entries are the same in both (`UnchangedOutside`, `CallWrites`).

`DualCore_proofs` proves, for every set of registers, words and values of the boot
section (`DualCoreAssumption`):

| Theorem | Statement |
|---|---|
| `Invariant` | `Spec => []Inv` |
| `TypeCorrect` | `Spec => []TypeOK` |
| `DamageIsMasked` | `Spec => []Masked` |
| `DamageIsRepaired` | `Spec => Repaired` |
| `CommandsFlip` | `Spec => EachCommandFlips` |

`Inv` adds `Confined`: unless damage was exposed, the shadow core and all but the
registers of the main core equal `ref`. The loop through `secure_boot` then settles
at one value, because both cores show the same address.

`ResetPath_proofs` proves, for every size of the counter, thresholds and
sets of chips (`SizeAssumption`, `ResetPathAssumption`):

| Theorem | Statement |
|---|---|
| `Invariant` | `Spec => []IInv` |
| `TypeCorrect` | `Spec => []TypeOK` |
| `BarksLate` | `Spec => []BarkBehind` |
| `BiteResets` | `Spec => []Guarded` |
| `ArmedCleanly` | `Spec => ArmsClean` |
| `ResetsHaveCause` | `Spec => ResetsForCause` |

Its conjuncts say, at each instruction of the configuration, what is still on its way:

* `StartTimer` and `ConfigTimer`: which value each register holds or will hold, and
  which write is the older one. A write that was posted earlier, is as old or
  older, and is not held back has arrived when the later one does; for the
  counter the lead has to be three edges, and the read of the bite threshold
  in between makes it that.
* `NotYet`: as long as `RESET_EN` has not come through, the level of the requests is the
  one of the last reset, toggled by each instruction since; after the third
  request it differs from what the slow clock has seen, so it is on its way.
* `Overtaken`: a request for a reset that reaches the power manager has not
  overtaken the request to synchronise before it. `EnterReset` needs it for `NotYet`,
  since the level survives a reset.
* `Requests`, `Ended`, `Still`: what is in the flops of the requests, by state of
  the power manager.

The constants' assumptions are checked by TLC in every run of the module.

Only model-checked: `CallsEnd`, `UpdateEnds`, `PollEnds`, `ShutdownEnds` and the
violated `BusyEnds`, since liveness under fairness is out of the prover's reach,
and the other violated properties (`OwnerIsVerified`, `OwnerStarts`,
`Uninterrupted`). Every safety property of a passing run is proved. The type
invariants of `BootData`, `RomBoot`, `SecMmio`, `Handover` and `ResetPath` are checked as
parts of `IInv`.

## Where the code and its documentation differ

* `lib/boot_data.c:583` says that after a write there is one valid entry across
  both pages. There may be more (no run: it follows from the code): a reset cuts
  off an invalidation, and the next write invalidates only the newer of the two
  valid entries. Storage still works, as `CrashAtomic` and `NoTrap` show,
  because counters order the entries.
* `lib/drivers/retention_sram.h:35` says that the boot stages clear the owner's
  part at initial power-on only. `WipeRetention` shows that `rom_init()` also
  overwrites it for the reset reasons in `CREATOR_SW_CFG_RET_RAM_RESET_MASK`
  (no run: it is plain from the code).
* `rom/bootstrap.c:248` says that commands other than an erase are ignored in the
  first state and that WIP is cleared right away, and `lib/drivers/spi_device.h:347`
  that the status is to be cleared after handling a command.
  `bootstrap_busy` shows a command that leaves WIP set: the hardware sets it for
  every uploaded command, and `bootstrap_handle_erase()` returns without clearing
  it when WEL is not set. RESET, which the tool's `chip_reset()` sends without
  write enable, is such a command; the tool of this tree sends it only after an
  erase, so `UpdateEnds` holds.

* `rom_ext/rom_ext.c:151` opens the text of an owner image for execution.
  `handover_owner_starts` shows that this has no effect for an image without
  address translation: it uses entry 8, all of flash is read-only in entry 5, and
  the lowest entry decides. The tests of the tree only boot translated owner
  images (`sw/device/silicon_owner/bare_metal/BUILD`).
* `rom_ext/rom_ext.c:124` maps the owner's virtual addresses to the start of flash,
  whichever slot was verified, where the ROM maps to the manifest of the image
  (`rom/rom.c:353`). `handover_owner_verified` shows slot B verified and the code
  of slot A executable in its place.
* The report `Secure boot on risc-v dual core.pdf` (page 14) says that on a
  mismatch the shadow core takes over, "ensuring an uninterrupted boot sequence".
  `dual_core_uninterrupted` shows a jump through a damaged register to an address
  outside the boot section: the address on the bus switches the comparator off
  before it can select the other one. The comments at `rv_core_ibex.sv:499` name
  two flip-flops in the inputs of the shadow core and in the outputs of the main
  core; both chains are there and not connected.

## What is not modelled

* Faults (glitches) other than CTC's inverted registers, and what the code does to
  detect them beyond its own consistency: hardened booleans, the doubled
  comparisons of `sw/device/lib/base/hardened.h`, the second reads of `rom_pre_boot_check()`.
* Cryptography: HMAC, RSA, OTBN programs, entropy. Digests and signatures are
  verdicts; that an OTBN program may fail and lock OTBN is modelled.
* Hardware below what software or another model sees: register-transfer logic of
  the flash, ROM, life cycle and OTP controllers, key manager, reset tree, the
  pipeline of Ibex. The parts of timer, power manager, alert handler, SPI device
  and processor that decide what the modelled code observes are in `AonTimer`,
  `ResetPath`, `Bootstrap`, `Epmp` and `DualCore`.
* Values without control: formatting and printing, redaction of errors, layout
  of manifests, addresses of registers.
* Device interface functions (`sw/device/lib/dif`) and tests: no boot stage calls
  them. Vendored, generated, verification and build code; host tools other than
  bootstrap.
* The 32-bit counter of boot data is a natural number: flash wears out long
  before it wraps.

## Plan

Models, in order:

1. The slow state machine of the power manager and ROM check, with low power entry
   and the requests that `ResetPath` leaves out.
2. Life cycle and OTP controllers, as far as their handshakes decide when
   `Activate` may happen; `InitEdges` is their abstraction.
3. Key manager states behind `keymgr_state_check()`.

Proofs: the theorems above state every safety property that a passing run checks. Next are
consequences of the abstract specifications (that the flash of `BootstrapSpec` holds,
once a session is open, only what commands put there; that versions in
`BootDataSpec` change only by a write), which the refinements carry to the code.
