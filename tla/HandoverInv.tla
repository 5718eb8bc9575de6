---------------------------- MODULE HandoverInv ----------------------------
(***************************************************************************)
(* The inductive invariant of Handover: how far the call in progress is    *)
(* and what each PMP entry, each region of the address translation and the *)
(* copy in RAM hold before it, during it and after it.                     *)
(***************************************************************************)
EXTENDS Handover

\* The order of the calls; those of the two ways to boot an image meet.
Stage ==
  CASE pc = "reset" -> 0
    [] pc = "rom_epmp_init" -> 1
    [] pc = "config_debug_rom" -> 2
    [] pc = "rom" -> 3
    [] pc \in {"rom_remap", "rom_boot"} -> 4
    [] pc = "rom_unlock_r" -> 5
    [] pc = "rom_unlock_rx" -> 6
    [] pc \in {"rom_ext", "shutdown"} -> 7
    [] pc \in {"ext_remap", "ext_boot"} -> 8
    [] pc = "ext_unlock_r" -> 9
    [] pc = "ext_unlock_rx" -> 10
    [] pc \in {"owner", "owner_trap"} -> 11

\* What the last epmp_state_check() of a stage said was true, and the ROM_EXT
\* was entered.
NoFailure == pc \notin {"bad_check", "rom_ext_trap"}

\* Calls whose register writes are over when the next one can be made.
Idle ==
  pc \in {"reset", "rom", "rom_boot", "rom_ext", "ext_boot", "owner", "owner_trap", "shutdown"}
    => ops = <<>>

\* The images of a stage have passed the checks on their manifests.
ImagesChecked ==
  /\ Stage < 4 => romExt = None
  /\ Stage >= 4 => romExt # None /\ ManifestCheck(romExt.image, RomExtSizeMax)
  /\ pc \in {"rom_remap", "rom_unlock_r"} => romExt.image.translated
  /\ pc = "rom_boot" => ~romExt.image.translated
  /\ Stage < 7 => owner = None
  /\ Stage >= 8 => owner # None /\ ManifestCheck(owners[owner], OwnerSizeMax)
  /\ pc \in {"ext_remap", "ext_unlock_r"} => owners[owner].translated
  /\ pc = "ext_boot" => ~owners[owner].translated

-----------------------------------------------------------------------------
(* rom_epmp_init *)

HomeAddr ==
  [i \in Entries |->
     CASE i = 0  -> RomText.start
       [] i = 1  -> RomText.end
       [] i = 2  -> Encoded(Rom)
       [] i = 5  -> Encoded(Flash)
       [] i = 10 -> Mmio.start
       [] i = 11 -> Mmio.end
       [] i = 13 -> Encoded(DebugRom)
       [] i = 14 -> Guard
       [] i = 15 -> Encoded(Ram)
       [] OTHER  -> 0]

HomeCfg ==
  [i \in Entries |->
     CASE i = 1  -> Tor \cup LockedReadExecute
       [] i = 2  -> Napot \cup LockedReadOnly
       [] i = 5  -> Napot \cup LockedReadOnly
       [] i = 11 -> Tor \cup LockedReadWrite
       [] i = 13 -> Napot \cup LockedReadWriteExecute
       [] i = 14 -> Na4 \cup LockedNoAccess
       [] i = 15 -> Napot \cup LockedReadWrite
       [] OTHER  -> {}]

\* The number of the write of an address register, 16 if there is none.
Position(i) ==
  CASE i \in 0 .. 5          -> i + 1
    [] i \in {10, 11}        -> i - 3
    [] i \in 13 .. 15        -> i - 4
    [] OTHER                 -> 16

Written == Len(InitOps) - Len(ops)

Initialising ==
  /\ pc = "reset" => pmpaddr = ResetAddr /\ pmpcfg = ResetCfg
  /\ pc = "rom_epmp_init" =>
       /\ Written \in 0 .. 15
       /\ ops = SubSeq(InitOps, Written + 1, 15)
       /\ \A i \in Entries :
            /\ pmpaddr[i] = IF Position(i) <= Written THEN HomeAddr[i] ELSE ResetAddr[i]
            /\ pmpcfg[i] = IF 12 + (i \div 4) <= Written THEN HomeCfg[i] ELSE ResetCfg[i]

-----------------------------------------------------------------------------
(* Entries *)

Shut(i) == pmpcfg[i] = {}

OpenedNapot(i, region, perm) == pmpaddr[i] = Encoded(region) /\ pmpcfg[i] = Napot \cup perm

OpenedTor(i, region, perm) ==
  /\ pmpaddr[i - 1] = region.start /\ pmpaddr[i] = region.end
  /\ pmpcfg[i] = Tor \cup perm

\* The register writes of OpenNapot, for an entry with bits old.
OpeningNapot(i, region, perm, old) ==
  \/ /\ ops = OpenNapot(i, region, perm)
     /\ pmpcfg[i] = old
  \/ /\ ops = <<ClearBits(i), SetBits(i, Napot \cup perm)>>
     /\ pmpcfg[i] = old /\ pmpaddr[i] = Encoded(region)
  \/ /\ ops = <<SetBits(i, Napot \cup perm)>>
     /\ Shut(i) /\ pmpaddr[i] = Encoded(region)
  \/ /\ ops = <<>>
     /\ OpenedNapot(i, region, perm)

\* The register writes of OpenTor, for an entry that is shut.
OpeningTor(i, region, perm) ==
  \/ /\ ops = OpenTor(i, region, perm)
     /\ Shut(i)
  \/ /\ ops = <<AddrWrite(i, region.end), ClearBits(i), SetBits(i, Tor \cup perm)>>
     /\ Shut(i) /\ pmpaddr[i - 1] = region.start
  \/ /\ \/ ops = <<ClearBits(i), SetBits(i, Tor \cup perm)>>
        \/ ops = <<SetBits(i, Tor \cup perm)>>
     /\ Shut(i) /\ pmpaddr[i - 1] = region.start /\ pmpaddr[i] = region.end
  \/ /\ ops = <<>>
     /\ OpenedTor(i, region, perm)

\* Entries that keep what rom_epmp_init wrote, and those that only hold the start
\* of the region of the next one.
FixedEntries ==
  Stage >= 2 =>
    /\ \A i \in {0, 1, 2, 5, 10, 11, 12, 14, 15} :
         pmpaddr[i] = HomeAddr[i] /\ pmpcfg[i] = HomeCfg[i]
    /\ Shut(3) /\ Shut(7)
    /\ Stage = 2 => \A i \in Entries \ {13} : pmpaddr[i] = HomeAddr[i]

DebugRomEntry ==
  /\ Stage >= 2 => pmpaddr[13] = Encoded(DebugRom)
  /\ Stage = 2 => OpeningNapot(13, DebugRom, DebugRomCfg, Napot \cup LockedReadWriteExecute)
  /\ Stage > 2 => OpenedNapot(13, DebugRom, DebugRomCfg)

RomExtEntries ==
  /\ Stage \in 2 .. 4 => Shut(6)
  /\ Stage = 5 => OpeningNapot(6, RomExtVirtual, LockedReadOnly, {})
  /\ Stage > 5 => IF romExt.image.translated THEN OpenedNapot(6, RomExtVirtual, LockedReadOnly)
                                             ELSE Shut(6)
  /\ Stage \in 2 .. 5 => Shut(4)
  /\ Stage = 6 => OpeningTor(4, RomExtText, LockedReadExecute)
  /\ Stage > 6 => OpenedTor(4, RomExtText, LockedReadExecute)

OwnerEntries ==
  /\ Stage \in 2 .. 8 => Shut(9)
  /\ Stage = 9 => OpeningNapot(9, OwnerVirtual, LockedReadOnly, {})
  /\ Stage > 9 => IF owners[owner].translated THEN OpenedNapot(9, OwnerVirtual, LockedReadOnly)
                                              ELSE Shut(9)
  /\ Stage \in 2 .. 9 => Shut(8)
  /\ Stage = 10 => OpeningTor(8, OwnerText, LockedReadExecute)
  /\ Stage > 10 => OpenedTor(8, OwnerText, LockedReadExecute)

-----------------------------------------------------------------------------
(* Address translation *)

Mapped(k, region, to) == remap[k] = [en |-> TRUE, match |-> Encoded(region), to |-> to]

\* The register writes of RemapSet; the last one enables the region.
Mapping(k, region, to) ==
  \/ /\ ops = RemapSet(k, region, to)
     /\ ~remap[k].en
  \/ /\ ops = <<RemapWrite(k, "to", to), RemapWrite(k, "en", TRUE)>>
     /\ ~remap[k].en /\ remap[k].match = Encoded(region)
  \/ /\ ops = <<RemapWrite(k, "en", TRUE)>>
     /\ ~remap[k].en /\ remap[k].match = Encoded(region) /\ remap[k].to = to
  \/ /\ ops = <<>>
     /\ Mapped(k, region, to)

Translation ==
  /\ Stage < 4 \/ pc = "rom_boot" => ~remap[0].en
  /\ pc = "rom_remap" => Mapping(0, RomExtVirtual, RomExtAt(romExt.slot))
  /\ Stage > 4 => IF romExt.image.translated
                  THEN Mapped(0, RomExtVirtual, RomExtAt(romExt.slot)) ELSE ~remap[0].en
  /\ Stage < 8 \/ pc = "ext_boot" => ~remap[1].en
  /\ pc = "ext_remap" => Mapping(1, OwnerVirtual, Flash.start)
  /\ Stage > 8 => IF owners[owner].translated
                  THEN Mapped(1, OwnerVirtual, Flash.start) ELSE ~remap[1].en

-----------------------------------------------------------------------------
(* The copy *)

\* The entries that the call in progress changes, after the copy has them.
Pending ==
  CASE pc = "rom_unlock_r"   -> {6}
    [] pc = "rom_unlock_rx"  -> {3, 4}
    [] pc = "ext_unlock_r"   -> {9}
    [] pc = "ext_unlock_rx"  -> {7, 8}
    [] OTHER                 -> {}

Copied(i) == epmp_state.addr[i] = pmpaddr[i] /\ epmp_state.cfg[i] = pmpcfg[i]

CopyNapot(i, region, perm) ==
  epmp_state.addr[i] = Encoded(region) /\ epmp_state.cfg[i] = Napot \cup perm

CopyTor(i, region, perm) ==
  /\ epmp_state.addr[i - 1] = region.start /\ epmp_state.addr[i] = region.end
  /\ epmp_state.cfg[i - 1] = {} /\ epmp_state.cfg[i] = Tor \cup perm

Copy ==
  /\ Stage >= 3 => \A i \in Entries \ Pending : Copied(i)
  /\ Stage = 5 => CopyNapot(6, RomExtVirtual, LockedReadOnly)
  /\ Stage = 6 => CopyTor(4, RomExtText, LockedReadExecute)
  /\ Stage = 9 => CopyNapot(9, OwnerVirtual, LockedReadOnly)
  /\ Stage = 10 => CopyTor(8, OwnerText, LockedReadExecute)

-----------------------------------------------------------------------------

\* The inductive invariant: types, and at every register write of every call
\* what the entries, the address translation and the copy hold.
IInv ==
  /\ TypeOK
  /\ NoFailure
  /\ Idle
  /\ ImagesChecked
  /\ Initialising
  /\ FixedEntries
  /\ DebugRomEntry
  /\ RomExtEntries
  /\ OwnerEntries
  /\ Translation
  /\ Copy
=============================================================================
