------------------------------ MODULE Handover ------------------------------
(***************************************************************************)
(* What may be executed while the processor goes from reset through ROM    *)
(* and ROM_EXT to the owner stage: rom_start.S, rom_epmp_init.S, the parts *)
(* of rom.c that touch memory protection and address translation, and      *)
(* rom_ext.c.                                                              *)
(*                                                                         *)
(* Flash holds a ROM_EXT and an owner image in each of its two banks.  The *)
(* ROM runs a ROM_EXT it has verified (module RomBoot says which); the     *)
(* verification by the ROM_EXT is part of this module.                     *)
(***************************************************************************)
EXTENDS Epmp

CONSTANTS
  Rom, ResetText, RomText,  \* ROM, what reset opens of it, its code
  DebugRom, Ram, Guard,     \* Guard is the word below the stack
  Mmio, ResetMmio, Flash,
  RomExtVirtual, OwnerVirtual,
  RomExtSizeMax,            \* the owner's part of a bank starts here
  OwnerSizeMax,
  Images                    \* ROM_EXT and owner images

Slots    == {"A", "B"}
Regions  == [start : Address, end : 0 .. AddressEnd]
LcStates == {"Test", "Dev", "Prod", "ProdEnd", "Rma"}

Within(r, s) == s.start <= r.start /\ r.end <= s.end

MemoryMap == <<Rom, DebugRom, Mmio, Ram, Flash, RomExtVirtual, OwnerVirtual>>

\* top_earlgrey_memory.ld; the sections and the assertion of rom.ld; the static
\* assertions of manifest.c.
ASSUME HandoverAssumption ==
  /\ MemoryMap \in [1 .. 7 -> Regions]
  /\ \A i, j \in 1 .. 7 :
       i # j => MemoryMap[i].end <= MemoryMap[j].start \/ MemoryMap[j].end <= MemoryMap[i].start
  /\ {ResetText, RomText, ResetMmio} \subseteq Regions
  /\ \A r \in {ResetText, Rom, DebugRom, Ram, Flash, RomExtVirtual, OwnerVirtual} : Aligned(r)
  /\ Within(ResetText, RomText) /\ Within(RomText, Rom) /\ Within(ResetMmio, Mmio)
  /\ Guard \in In(Ram)
  /\ {RomExtSizeMax, OwnerSizeMax} \subseteq Nat
  /\ RomExtSizeMax <= Size(RomExtVirtual) /\ Size(RomExtVirtual) <= Size(Flash) \div 2
  /\ RomExtSizeMax + OwnerSizeMax <= Size(Flash) \div 2
  /\ RomExtSizeMax + OwnerSizeMax <= Size(OwnerVirtual) /\ Size(OwnerVirtual) <= Size(Flash)
  /\ Images \subseteq [code : [start : Nat, end : Nat], entry : Nat, translated : BOOLEAN,
                       version : Nat, good : BOOLEAN]
  /\ None \notin Slots \cup [slot : Slots, image : Images]

VARIABLES
  pc,      \* the call in progress or that ended last
  lc,      \* life cycle state
  romExt,  \* the ROM_EXT that the ROM verified: slot and image
  owners,  \* the owner image of each slot, once the ROM_EXT reads them
  owner    \* the slot that the ROM_EXT tries

csrs == <<pmpaddr, pmpcfg>>
vars == <<csrs, remap, epmp_state, ops, pc, lc, romExt, owners, owner>>

Bank(s) == Flash.start + (IF s = "A" THEN 0 ELSE Size(Flash) \div 2)

\* Addresses of manifests.
RomExtAt(s) == Bank(s)
OwnerAt(s)  == Bank(s) + RomExtSizeMax

\* manifest_code_region_get()
Moved(im, base) == [start |-> base + im.code.start, end |-> base + im.code.end]

\* What boot_policy_manifest_check() and rom_ext_boot_policy_manifest_check()
\* have manifest_check() see to: the code is in the image, the entry point in the
\* code; an image is not longer than max.
ManifestCheck(im, max) ==
  /\ im.code.start < im.code.end /\ im.code.end <= max
  /\ im.entry \in In(im.code)

\* Where an image is executed, from rom_ext_vma_get() and owner_vma_get().
RomExtBase(x) == IF x.image.translated THEN RomExtVirtual.start ELSE RomExtAt(x.slot)
OwnerBase(s) == IF owners[s].translated THEN OwnerVirtual.start + RomExtSizeMax ELSE OwnerAt(s)

RomExtText == Moved(romExt.image, RomExtBase(romExt))
OwnerText  == Moved(owners[owner], OwnerBase(owner))

-----------------------------------------------------------------------------
(* Reset and ROM *)

InitAddrs ==
  << AddrWrite(0, RomText.start), AddrWrite(1, RomText.end),
     AddrWrite(2, Encoded(Rom)), AddrWrite(3, 0), AddrWrite(4, 0),
     AddrWrite(5, Encoded(Flash)),
     AddrWrite(10, Mmio.start), AddrWrite(11, Mmio.end),
     AddrWrite(13, Encoded(DebugRom)), AddrWrite(14, Guard),
     AddrWrite(15, Encoded(Ram)) >>

\* Four entries at a time.
InitCfgs ==
  << CfgWrite([i \in 0 .. 3 |-> CASE i = 1 -> Tor \cup LockedReadExecute
                                  [] i = 2 -> Napot \cup LockedReadOnly
                                  [] OTHER -> {}]),
     CfgWrite([i \in 4 .. 7 |-> IF i = 5 THEN Napot \cup LockedReadOnly ELSE {}]),
     CfgWrite([i \in 8 .. 11 |-> IF i = 11 THEN Tor \cup LockedReadWrite ELSE {}]),
     CfgWrite([i \in 12 .. 15 |-> CASE i = 13 -> Napot \cup LockedReadWriteExecute
                                    [] i = 14 -> Na4 \cup LockedNoAccess
                                    [] i = 15 -> Napot \cup LockedReadWrite
                                    [] OTHER -> {}]) >>

\* Mutant: the permissions first.
InitOpsCfgFirst == InitCfgs \o InitAddrs

\* rom_epmp_init
InitOps == InitAddrs \o InitCfgs

\* ibex_pmp_reset.svh
ResetAddr == [i \in Entries |-> CASE i = 2  -> Encoded(ResetText)
                                  [] i = 10 -> ResetMmio.start
                                  [] i = 11 -> ResetMmio.end
                                  [] i = 13 -> Encoded(DebugRom)
                                  [] OTHER  -> 0]

ResetCfg == [i \in Entries |-> CASE i = 2  -> Napot \cup LockedReadExecute
                                 [] i = 11 -> Tor \cup LockedReadWrite
                                 [] i = 13 -> Napot \cup LockedReadWriteExecute
                                 [] OTHER  -> {}]

Init ==
  /\ pmpaddr = ResetAddr /\ pmpcfg = ResetCfg /\ remap = [k \in {0, 1} |-> NoRemap]
  /\ epmp_state = None /\ ops = <<>> /\ pc = "reset"
  /\ romExt = None /\ owners = None /\ owner = None
  /\ lc \in LcStates

RomEpmpInit ==
  /\ pc = "reset" /\ pc' = "rom_epmp_init" /\ ops' = InitOps
  /\ UNCHANGED <<csrs, remap, epmp_state, lc, romExt, owners, owner>>

\* The two switches over the life cycle state.
Debuggable == lc \in {"Test", "Dev", "Rma"}

DebugRomCfg    == IF Debuggable THEN LockedReadWriteExecute ELSE LockedNoAccess

\* Mutant: a state is missing.
DebugRomAccessNoRma == IF lc \in {"Test", "Dev"} THEN LockedReadWriteExecute ELSE LockedNoAccess

DebugRomAccess == IF Debuggable THEN LockedReadWriteExecute ELSE LockedNoAccess

\* Mutant: bits are set that were not cleared.
ConfigDebugRomSet ==
  /\ pc = "rom_epmp_init" /\ ops = <<>>
  /\ pc' = "config_debug_rom"
  /\ ops' = << AddrWrite(13, Encoded(DebugRom)), SetBits(13, Napot \cup DebugRomCfg) >>
  /\ UNCHANGED <<csrs, remap, epmp_state, lc, romExt, owners, owner>>

ConfigDebugRom ==
  /\ pc = "rom_epmp_init" /\ ops = <<>>
  /\ pc' = "config_debug_rom" /\ ops' = OpenNapot(13, DebugRom, DebugRomCfg)
  /\ UNCHANGED <<csrs, remap, epmp_state, lc, romExt, owners, owner>>

StateInit ==
  /\ pc = "config_debug_rom" /\ ops = <<>> /\ pc' = "rom"
  /\ LET s1 == ConfigureTor(Zeroed, 1, RomText, LockedReadExecute)
         s2 == ConfigureNapot(s1, 2, Rom, LockedReadOnly)
         s5 == ConfigureNapot(s2, 5, Flash, LockedReadOnly)
         s11 == ConfigureTor(s5, 11, Mmio, LockedReadWrite)
         s13 == ConfigureNapot(s11, 13, DebugRom, DebugRomAccess)
         s14 == ConfigureNa4(s13, 14, Guard, LockedNoAccess)
     IN  epmp_state' = ConfigureNapot(s14, 15, Ram, LockedReadWrite)
  /\ UNCHANGED <<csrs, remap, ops, lc, romExt, owners, owner>>

\* Mutant: the bank of slot A.
RemappedToA(s) == RomExtAt("A")

RemappedTo(s) == RomExtAt(s)

\* rom_boot() up to address translation, for an image that was verified.
RomBoot(s, im) ==
  /\ pc = "rom" /\ ManifestCheck(im, RomExtSizeMax)
  /\ romExt' = [slot |-> s, image |-> im]
  /\ IF im.translated
     THEN pc' = "rom_remap" /\ ops' = RemapSet(0, RomExtVirtual, RemappedTo(s))
     ELSE pc' = "rom_boot" /\ UNCHANGED ops
  /\ UNCHANGED <<csrs, remap, epmp_state, lc, owners, owner>>

\* A call of epmp_state_check(), and what follows if it succeeds.
Checked(next) ==
  IF StateCheck THEN next
  ELSE pc' = "bad_check" /\ UNCHANGED <<epmp_state, ops>>

RomUnlockR ==
  /\ pc = "rom_remap" /\ ops = <<>>
  /\ Checked(/\ pc' = "rom_unlock_r"
             /\ epmp_state' = ConfigureNapot(epmp_state, 6, RomExtVirtual, LockedReadOnly)
             /\ ops' = OpenNapot(6, RomExtVirtual, LockedReadOnly))
  /\ UNCHANGED <<csrs, remap, lc, romExt, owners, owner>>

RomUnlockRx ==
  /\ pc \in {"rom_unlock_r", "rom_boot"} /\ ops = <<>>
  /\ Checked(/\ pc' = "rom_unlock_rx"
             /\ epmp_state' = ConfigureTor(epmp_state, 4, RomExtText, LockedReadExecute)
             /\ ops' = OpenTor(4, RomExtText, LockedReadExecute))
  /\ UNCHANGED <<csrs, remap, lc, romExt, owners, owner>>

\* Mutant: the load address, also with address translation.
RomExtEntryLoad == RomExtAt(romExt.slot) + romExt.image.entry

RomExtEntry == RomExtBase(romExt) + romExt.image.entry

\* The jump; an instruction that may not be fetched traps.
RomJump ==
  /\ pc = "rom_unlock_rx" /\ ops = <<>>
  /\ Checked(/\ pc' = IF Allowed("X", RomExtEntry) THEN "rom_ext" ELSE "rom_ext_trap"
             /\ UNCHANGED <<epmp_state, ops>>)
  /\ UNCHANGED <<csrs, remap, lc, romExt, owners, owner>>

-----------------------------------------------------------------------------
(* ROM_EXT *)

\* rom_ext_boot_policy_manifests_get()
First(o) == IF o["A"].version >= o["B"].version THEN "A" ELSE "B"

Second(o) == IF First(o) = "A" THEN "B" ELSE "A"

RomExtMain(o) ==
  /\ pc = "rom_ext" /\ owner = None
  /\ owners' = o /\ owner' = First(o)
  /\ UNCHANGED <<csrs, remap, epmp_state, ops, pc, lc, romExt>>

\* rom_ext_verify() fails for a bad image, and may fail for a good one, since it
\* uses OTBN.
RomExtReject ==
  /\ pc = "rom_ext" /\ owner # None
  /\ IF owner = First(owners) THEN owner' = Second(owners) /\ pc' = pc
                              ELSE pc' = "shutdown" /\ UNCHANGED owner
  /\ UNCHANGED <<csrs, remap, epmp_state, ops, lc, romExt, owners>>

\* rom_ext_boot() up to address translation.
RomExtBoot ==
  /\ pc = "rom_ext" /\ owner # None
  /\ owners[owner].good /\ ManifestCheck(owners[owner], OwnerSizeMax)
  /\ IF owners[owner].translated
     THEN pc' = "ext_remap" /\ ops' = RemapSet(1, OwnerVirtual, Flash.start)
     ELSE pc' = "ext_boot" /\ UNCHANGED ops
  /\ UNCHANGED <<csrs, remap, epmp_state, lc, romExt, owners, owner>>

RomExtUnlockR ==
  /\ pc = "ext_remap" /\ ops = <<>>
  /\ Checked(/\ pc' = "ext_unlock_r"
             /\ epmp_state' = ConfigureNapot(epmp_state, 9, OwnerVirtual, LockedReadOnly)
             /\ ops' = OpenNapot(9, OwnerVirtual, LockedReadOnly))
  /\ UNCHANGED <<csrs, remap, lc, romExt, owners, owner>>

RomExtUnlockRx ==
  /\ pc \in {"ext_unlock_r", "ext_boot"} /\ ops = <<>>
  /\ Checked(/\ pc' = "ext_unlock_rx"
             /\ epmp_state' = ConfigureTor(epmp_state, 8, OwnerText, LockedReadExecute)
             /\ ops' = OpenTor(8, OwnerText, LockedReadExecute))
  /\ UNCHANGED <<csrs, remap, lc, romExt, owners, owner>>

RomExtJump ==
  /\ pc = "ext_unlock_rx" /\ ops = <<>>
  /\ Checked(/\ pc' = IF Allowed("X", OwnerBase(owner) + owners[owner].entry)
                      THEN "owner" ELSE "owner_trap"
             /\ UNCHANGED <<epmp_state, ops>>)
  /\ UNCHANGED <<csrs, remap, lc, romExt, owners, owner>>

Reset ==
  /\ pc # "reset" /\ pc' = "reset"
  /\ pmpaddr' = ResetAddr /\ pmpcfg' = ResetCfg /\ remap' = [k \in {0, 1} |-> NoRemap]
  /\ epmp_state' = None /\ ops' = <<>>
  /\ romExt' = None /\ owners' = None /\ owner' = None
  /\ UNCHANGED lc

Next ==
  \/ RomEpmpInit \/ ConfigDebugRom \/ StateInit
  \/ \E s \in Slots, im \in Images : RomBoot(s, im)
  \/ RomUnlockR \/ RomUnlockRx \/ RomJump
  \/ \E o \in [Slots -> Images] : RomExtMain(o)
  \/ RomExtReject \/ RomExtBoot \/ RomExtUnlockR \/ RomExtUnlockRx \/ RomExtJump
  \/ Write /\ UNCHANGED <<epmp_state, pc, lc, romExt, owners, owner>>
  \/ Reset

Spec == Init /\ [][Next]_vars

-----------------------------------------------------------------------------
(* Properties *)

Early  == pc \in {"reset", "rom_epmp_init"}
InRom  == pc \in {"config_debug_rom", "rom", "rom_remap", "rom_boot",
                  "rom_unlock_r", "rom_unlock_rx"}
InExt  == pc \in {"rom_ext", "ext_remap", "ext_boot", "ext_unlock_r", "ext_unlock_rx"}
Opened == pc \in {"ext_unlock_rx", "owner", "owner_trap"}

\* Types, and which variables hold a value at which step.
TypeOK ==
  /\ pmpaddr \in [Entries -> 0 .. AddressEnd] /\ pmpcfg \in [Entries -> SUBSET Bits]
  /\ remap \in [{0, 1} -> [en : BOOLEAN, match : Address, to : Address]]
  /\ epmp_state \in States \cup {None}
  /\ (epmp_state = None) <=> (Early \/ pc = "config_debug_rom")
  /\ Len(ops) <= Len(InitOps)
  /\ Early \/ InRom \/ InExt \/ Opened \/ pc \in {"bad_check", "rom_ext_trap", "shutdown"}
  /\ lc \in LcStates
  /\ romExt \in [slot : Slots, image : Images] \cup {None}
  /\ IF owner = None THEN owners = None ELSE owner \in Slots /\ owners \in [Slots -> Images]

\* epmp_state_check() never fails by itself: wherever it is called, on every path
\* and in every life cycle state, the copy in RAM says what the CSRs hold.  And
\* a verified ROM_EXT is entered, whatever its slot and with address translation
\* or without.
ChecksPass == pc \notin {"bad_check", "rom_ext_trap"}

\* After every single register write, what executes can go on: its code can be
\* fetched, from the place where its image is, and what it uses be accessed.
Code == IF Early THEN In(ResetText) ELSE IF InRom THEN In(RomText)
        ELSE IF InExt THEN In(RomExtText) ELSE {}

Data == (IF InRom \/ InExt \/ (pc = "rom_epmp_init" /\ ops = <<>>)
         THEN (In(Ram) \ {Guard}) \cup In(Mmio) ELSE {})
        \cup (IF Early THEN In(ResetMmio) ELSE {})

Continues ==
  /\ \A a \in Code : Allowed("X", a) /\ Allowed("R", a)
  /\ \A a \in Data : Allowed("R", a) /\ Allowed("W", a) /\ Physical(a) = a
  /\ InRom => \A a \in In(Rom) \cup In(Flash) : Allowed("R", a)
  /\ InExt => \A k \in In(romExt.image.code) :
                Physical(RomExtBase(romExt) + k) = RomExtAt(romExt.slot) + k

\* What an access can reach, on the bus.
Reached(t) == {Physical(a) : a \in {b \in Address : Allowed(t, b)}}

\* Debug ROM is open until its entry has been configured, and in some states.
DebugOpen == Debuggable \/ Early \/ pc = "config_debug_rom"

\* Nothing can be fetched but code of ROM and of images that were verified, in
\* the bank they were verified in.  (In the owner stage see OwnerIsVerified.)
Verified ==
  In(RomText)
  \cup (IF Early THEN In(Rom) ELSE {})
  \cup (IF DebugOpen THEN In(DebugRom) ELSE {})
  \cup (IF romExt = None THEN {} ELSE In(Moved(romExt.image, RomExtAt(romExt.slot))))
  \cup (IF Opened THEN In(Moved(owners[owner], OwnerAt(owner))) ELSE {})

OnlyVerified ==
  ~Opened => Reached("X") \subseteq Verified

\* No word can be written at one address and fetched at the same or another one.
NeverWritableCode ==
  (Reached("W") \cap Reached("X")) \subseteq (IF DebugOpen THEN In(DebugRom) ELSE {})

\* Each call changes permissions in its own region only, at every single write.
Target ==
  CASE pc = "rom_epmp_init"    -> Address
    [] pc = "config_debug_rom" -> In(DebugRom)
    [] pc = "rom_unlock_r"     -> In(RomExtVirtual)
    [] pc = "rom_unlock_rx"    -> In(RomExtText)
    [] pc = "ext_unlock_r"     -> In(OwnerVirtual)
    [] pc = "ext_unlock_rx"    -> In(OwnerText)
    [] OTHER                   -> {}

Confined ==
  [][pc' # "reset" =>
       \A a \in Address, t \in Access : Allowed(t, a)' # Allowed(t, a) => a \in Target]_vars

\* rom_ext.c: "Unlock execution of owner stage executable code (text) sections",
\* before the jump to the entry point.  Violated without address translation.
OwnerStarts == pc # "owner_trap"

\* rom_ext.c: the regions and the entry point are those "for the virtual address
\* in case the address translation is enabled".  Violated for slot B, whose
\* virtual addresses lead to the image in slot A.
OwnerIsVerified ==
  Opened => Reached("X") \subseteq Verified
=============================================================================
