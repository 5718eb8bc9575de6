-------------------------------- MODULE Epmp --------------------------------
(***************************************************************************)
(* Memory protection as the boot stages use it: the PMP entries of the     *)
(* processor and the address translation behind them, the copy of the      *)
(* entries that lib/epmp_state.c keeps in RAM, and the CSR writes of the   *)
(* functions that open regions.                                            *)
(*                                                                         *)
(* Addresses count words of four bytes, which is the unit of pmpaddr.      *)
(* mseccfg keeps its reset value (RLB, MMWP): locked entries can be        *)
(* rewritten, and M-mode may only access what an entry matches.            *)
(***************************************************************************)
EXTENDS Integers, Sequences

CONSTANTS
  AddressEnd,  \* addresses are below AddressEnd
  None         \* contents of RAM that no one has initialised

VARIABLES
  pmpaddr, pmpcfg,  \* the CSRs; pmpcfg[i] is the set of bits of pmp<i>cfg
  remap,            \* the two regions of the address translation
  epmp_state,       \* copy of the CSRs in RAM
  ops               \* register writes that are left of the call in progress

Address == 0 .. AddressEnd - 1
Entries == 0 .. 15
Access  == {"R", "W", "X"}
Bits    == Access \cup {"L", "A0", "A1"}

Tor   == {"A0"}
Na4   == {"A1"}
Napot == {"A0", "A1"}

LockedNoAccess == {"L"}

LockedReadOnly         == {"L", "R"}
LockedReadWrite        == {"L", "R", "W"}
LockedReadExecute      == {"L", "R", "X"}
LockedReadWriteExecute == {"L", "R", "W", "X"}

In(region) == region.start .. region.end - 1

\* epmp_state_t
States == [addr : [Entries -> 0 .. AddressEnd], cfg : [Entries -> SUBSET Bits]]

ASSUME EpmpAssumption ==
  /\ AddressEnd \in Nat \ {0}
  /\ None \notin States

-----------------------------------------------------------------------------
(* Hardware *)

Size(region) == region.end - region.start

\* Mutant: the size of the region instead of its mask.
EncodedSize(region) == region.start + Size(region)

\* An aligned power of two as PMP entry or matching region: the ones at the end
\* of the address give its size.
Encoded(region) == region.start + (Size(region) \div 2 - 1)

\* Numbers without odd divisors.
PowersOfTwo == {s \in 2 .. 2 * AddressEnd : \A d \in 2 .. s : s % d = 0 => d % 2 = 0}

Span(v) == CHOOSE s \in PowersOfTwo : v % s = s \div 2 - 1

\* What an entry or matching region can describe.
Aligned(region) == Size(region) \in PowersOfTwo /\ region.start % Size(region) = 0

SameBlock(v, a) == v \div Span(v) = a \div Span(v)

Matches(i, a) ==
  CASE pmpcfg[i] \cap Napot = Tor   -> /\ i > 0 => pmpaddr[i - 1] <= a
                                       /\ a < pmpaddr[i]
    [] pmpcfg[i] \cap Napot = Na4   -> a = pmpaddr[i]
    [] pmpcfg[i] \cap Napot = Napot -> SameBlock(pmpaddr[i], a)
    [] OTHER                        -> FALSE

\* The matching entry with the lowest number decides.
Allowed(t, a) ==
  \E i \in Entries :
    /\ Matches(i, a)
    /\ \A j \in 0 .. i - 1 : ~Matches(j, a)
    /\ "L" \in pmpcfg[i] => t \in pmpcfg[i]

\* The address on the bus.
Physical(a) ==
  LET Hit(k) == remap[k].en /\ SameBlock(remap[k].match, a)
      Out(k) == remap[k].to + (a % Span(remap[k].match))
  IN  IF Hit(0) THEN Out(0) ELSE IF Hit(1) THEN Out(1) ELSE a

NoRemap == [en |-> FALSE, match |-> 0, to |-> 0]

-----------------------------------------------------------------------------
(* Register writes *)

AddrWrite(i, v)   == [kind |-> "pmpaddr", i |-> i, v |-> v]
CfgWrite(f)       == [kind |-> "pmpcfg", new |-> f]
ClearBits(i)      == CfgWrite([j \in {i} |-> {}])
SetBits(i, bits)  == [kind |-> "set", i |-> i, bits |-> bits]
RemapWrite(k, f, v) == [kind |-> "remap", k |-> k, field |-> f, v |-> v]

\* The next register write of the call in progress.
Write ==
  /\ ops # <<>> /\ ops' = Tail(ops)
  /\ LET o == Head(ops)
     IN  \/ /\ o.kind = "pmpaddr"
            /\ pmpaddr' = [pmpaddr EXCEPT ![o.i] = o.v]
            /\ UNCHANGED <<pmpcfg, remap>>
         \/ /\ o.kind = "pmpcfg"
            /\ pmpcfg' = [i \in Entries |-> IF i \in DOMAIN o.new THEN o.new[i] ELSE pmpcfg[i]]
            /\ UNCHANGED <<pmpaddr, remap>>
         \/ /\ o.kind = "set"
            /\ pmpcfg' = [pmpcfg EXCEPT ![o.i] = @ \cup o.bits]
            /\ UNCHANGED <<pmpaddr, remap>>
         \/ /\ o.kind = "remap"
            /\ remap' = [remap EXCEPT ![o.k] = [@ EXCEPT ![o.field] = o.v]]
            /\ UNCHANGED <<pmpaddr, pmpcfg>>

\* Mutant: the permissions first, then the end of the region.
OpenTorCfgFirst(i, region, perm) ==
  << ClearBits(i), SetBits(i, Tor \cup perm),
     AddrWrite(i, region.end), AddrWrite(i - 1, region.start) >>

\* rom_epmp_unlock_rom_ext_rx(), rom_ext_epmp_unlock_owner_stage_rx()
OpenTor(i, region, perm) ==
  << AddrWrite(i - 1, region.start), AddrWrite(i, region.end),
     ClearBits(i), SetBits(i, Tor \cup perm) >>

\* rom_epmp_unlock_rom_ext_r(), rom_ext_epmp_unlock_owner_stage_r(),
\* rom_epmp_config_debug_rom()
OpenNapot(i, region, perm) ==
  << AddrWrite(i, Encoded(region)), ClearBits(i), SetBits(i, Napot \cup perm) >>

\* ibex_addr_remap_0_set() and _1_set(); each write stands for that of the
\* instruction bus and that of the data bus.
RemapSet(k, region, to) ==
  << RemapWrite(k, "match", Encoded(region)), RemapWrite(k, "to", to),
     RemapWrite(k, "en", TRUE) >>

-----------------------------------------------------------------------------
(* The copy in RAM *)

Zeroed == [addr |-> [i \in Entries |-> 0], cfg |-> [i \in Entries |-> {}]]

ConfigureTor(s, i, region, perm) ==
  [addr |-> [s.addr EXCEPT ![i - 1] = region.start, ![i] = region.end],
   cfg  |-> [s.cfg EXCEPT ![i] = Tor \cup perm]]

ConfigureNa4(s, i, a, perm) ==
  [addr |-> [s.addr EXCEPT ![i] = a], cfg |-> [s.cfg EXCEPT ![i] = Na4 \cup perm]]

ConfigureNapot(s, i, region, perm) ==
  [addr |-> [s.addr EXCEPT ![i] = Encoded(region)],
   cfg  |-> [s.cfg EXCEPT ![i] = Napot \cup perm]]

\* epmp_state_check() succeeds.
StateCheck == epmp_state = [addr |-> pmpaddr, cfg |-> pmpcfg]
=============================================================================
