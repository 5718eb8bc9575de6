------------------------------ MODULE SecMmio ------------------------------
(***************************************************************************)
(* The secure MMIO library, lib/base/sec_mmio.c, on real registers.        *)
(*                                                                         *)
(* Callers are any software that calls its functions in any order.  Between*)
(* two accesses of the library to a register, anything else may change it: *)
(* hardware, software that does not go through the library, or a fault.    *)
(* A write that the hardware ignores, because the register is locked, is   *)
(* such a change too.  A reset may come at any step.                       *)
(***************************************************************************)
EXTENDS Integers, FiniteSets

CONSTANTS
  Regs,      \* addresses of registers
  Shadowed,  \* those that take a value with the second of two equal writes
  Values,    \* register values
  ResetValue,\* the value a register has after reset
  Mask,      \* Mask[v] is v ^ kSecMmioMaskVal
  None,      \* UINT32_MAX in a slot; no staged value; no call
  Size,      \* kSecMmioRegFileSize
  RndRange,  \* 2^32: the random offset is below it
  Garbage,   \* contents SRAM may have before sec_mmio_init()
  MaxCount   \* bound: counters stay below it

Slots == 0 .. Size - 1

ASSUME SecMmioAssumption ==
  /\ Shadowed \subseteq Regs
  /\ None \notin Regs /\ None \notin Values
  /\ ResetValue \in Values
  /\ Mask \in [Values -> Values]
  /\ \A v \in Values : Mask[Mask[v]] = v
  /\ Size \in Nat \ {0} /\ RndRange \in Nat \ {0} /\ MaxCount \in Nat
  /\ Garbage \subseteq [addrs : [Slots -> Regs \cup {None}],
                        values : [Slots -> Values \cup {None}], last : Nat,
                        writes : Nat, announced : Nat, checks : Nat]

VARIABLES
  hw,        \* each register: its value, and the value staged by a first write
  addrs, values, last,          \* sec_mmio_ctx: the table and last_index
  writes, announced, checks,    \* write_count, expected_write_count, check_count
  pc,        \* the next access of the call in progress, or "idle"
  cur,       \* the call: address, masked value, number of writes to count
  i, offset, \* the loop of sec_mmio_check_values()
  alien      \* registers that something else changed since they were confirmed

table  == <<addrs, values, last>>
counts == <<writes, announced, checks>>
loop   == <<i, offset>>
vars   == <<hw, table, counts, pc, cur, loop, alien>>

-----------------------------------------------------------------------------
(* Registers *)

\* A write of v.  A shadowed register stages it, or commits it if it is equal to
\* the staged value.
Written(r, c, v) ==
  IF r \notin Shadowed THEN [q |-> v, staged |-> None]
  ELSE IF c.staged = None THEN [q |-> c.q, staged |-> v]
  ELSE [q |-> IF c.staged = v THEN v ELSE c.q, staged |-> None]

\* A read gives c.q and drops a staged value.
AfterRead(c) == [q |-> c.q, staged |-> None]

-----------------------------------------------------------------------------
(* upsert_register() *)

\* Mutant: a search that stops one slot early.
FoundEarly(a) == {s \in 0 .. last - 2 : addrs[s] = a}

Found(a) == {s \in 0 .. last - 1 : addrs[s] = a}

First(S) == CHOOSE s \in S : \A t \in S : s <= t

HasRoom(a) == Found(a) # {} \/ last < Size

\* Mutant: the value of a known register is not updated.
UpsertInsert(a, m) ==
  IF Found(a) # {} THEN UNCHANGED table
  ELSE /\ addrs' = [addrs EXCEPT ![last] = a]
       /\ values' = [values EXCEPT ![last] = m]
       /\ last' = last + 1

Upsert(a, m) ==
  IF Found(a) # {}
  THEN /\ values' = [values EXCEPT ![First(Found(a))] = m]
       /\ UNCHANGED <<addrs, last>>
  ELSE /\ addrs' = [addrs EXCEPT ![last] = a]
       /\ values' = [values EXCEPT ![last] = m]
       /\ last' = last + 1

-----------------------------------------------------------------------------
(* The library *)

Init ==
  /\ hw = [r \in Regs |-> [q |-> ResetValue, staged |-> None]]
  /\ \E g \in Garbage :
       /\ addrs = g.addrs /\ values = g.values /\ last = g.last
       /\ writes = g.writes /\ announced = g.announced /\ checks = g.checks
  /\ pc = "off" /\ cur = None /\ i = 0 /\ offset = 0
  /\ alien = {}

SecMmioInit ==
  /\ pc = "off" /\ pc' = "idle"
  /\ last' = 0 /\ writes' = 0 /\ announced' = 0 /\ checks' = 0
  /\ addrs' = [s \in Slots |-> None] /\ values' = [s \in Slots |-> None]
  /\ UNCHANGED <<hw, cur, loop, alien>>

NextStageInit ==
  /\ pc = "idle"
  /\ checks' = 0
  /\ addrs' = [s \in Slots |-> IF s < last THEN addrs[s] ELSE None]
  /\ values' = [s \in Slots |-> IF s < last THEN values[s] ELSE None]
  /\ UNCHANGED <<hw, last, writes, announced, pc, cur, loop, alien>>

\* The first part of a read or write: the access, and the entry in the table.
Record(r, c, m, n) ==
  /\ hw' = [hw EXCEPT ![r] = c]
  /\ IF HasRoom(r)
     THEN /\ Upsert(r, m)
          /\ pc' = "compare" /\ cur' = [addr |-> r, masked |-> m, n |-> n]
     ELSE pc' = "trap" /\ UNCHANGED <<cur, table>>
  /\ UNCHANGED <<counts, loop, alien>>

\* sec_mmio_read32()
Read32(r) ==
  /\ pc = "idle"
  /\ Record(r, AfterRead(hw[r]), Mask[hw[r].q], 0)

\* sec_mmio_write32()
Write32(r, v) ==
  /\ pc = "idle" /\ writes < MaxCount /\ r \notin Shadowed
  /\ Record(r, Written(r, hw[r], v), Mask[v], 1)

\* Mutant: one write.
Write32ShadowedOnce(r, v) ==
  /\ pc = "idle" /\ writes < MaxCount /\ r \in Shadowed
  /\ Record(r, Written(r, hw[r], v), Mask[v], 1)

\* sec_mmio_write32_shadowed()
Write32Shadowed(r, v) ==
  /\ pc = "idle" /\ writes < MaxCount /\ r \in Shadowed
  /\ Record(r, Written(r, Written(r, hw[r], v), v), Mask[v], 1)

\* The read that ends each of them.
Compare ==
  /\ pc = "compare"
  /\ LET r == cur.addr
     IN  /\ hw' = [hw EXCEPT ![r] = AfterRead(@)]
         /\ cur' = None
         /\ IF Mask[hw[r].q] = cur.masked
            THEN /\ pc' = "idle"
                 /\ writes' = writes + cur.n
                 /\ alien' = alien \ {r}
            ELSE pc' = "trap" /\ UNCHANGED <<writes, alien>>
  /\ UNCHANGED <<table, announced, checks, loop>>

\* SEC_MMIO_WRITE_INCREMENT()
WriteIncrement(n) ==
  /\ pc = "idle" /\ announced + n <= MaxCount
  /\ announced' = announced + n
  /\ UNCHANGED <<hw, table, writes, checks, pc, cur, loop, alien>>

StartOffset(rnd) == (rnd * last) \div RndRange

CheckValues(rnd) ==
  /\ pc = "idle" /\ checks < MaxCount
  /\ pc' = "check"
  /\ i' = 0 /\ offset' = StartOffset(rnd)
  /\ UNCHANGED <<hw, table, counts, cur, alien>>

\* Mutant: a wrap to the second slot.
NextOffsetOne(o) == IF o + 1 >= last THEN o + 2 - last ELSE o + 1

\* Mutant: a wrap in every round.
NextOffsetWrap(o) == o + 1 - last

NextOffset(o) == IF o + 1 >= last THEN o + 1 - last ELSE o + 1

\* One round of the loop.
CheckRound ==
  /\ pc = "check" /\ i < last
  /\ LET r == addrs[offset]
     IN  /\ hw' = [hw EXCEPT ![r] = AfterRead(@)]
         /\ IF Mask[hw[r].q] = values[offset]
            THEN i' = i + 1 /\ offset' = NextOffset(offset) /\ pc' = pc
            ELSE i' = 0 /\ offset' = 0 /\ pc' = "trap"
  /\ UNCHANGED <<table, counts, cur, alien>>

CheckValuesEnd ==
  /\ pc = "check" /\ i = last
  /\ pc' = "idle" /\ i' = 0 /\ offset' = 0
  /\ checks' = checks + 1
  /\ UNCHANGED <<hw, table, writes, announced, cur, alien>>

\* sec_mmio_check_counters()
CheckCounters(n) ==
  /\ pc = "idle" /\ checks < MaxCount
  /\ IF writes = announced /\ checks = n
     THEN checks' = checks + 1 /\ pc' = pc
     ELSE pc' = "trap" /\ UNCHANGED checks
  /\ UNCHANGED <<hw, table, writes, announced, cur, loop, alien>>

Reset ==
  /\ pc # "off"
  /\ hw' = [r \in Regs |-> [q |-> ResetValue, staged |-> None]]
  /\ \E g \in Garbage :
       /\ addrs' = g.addrs /\ values' = g.values /\ last' = g.last
       /\ writes' = g.writes /\ announced' = g.announced /\ checks' = g.checks
  /\ pc' = "off" /\ cur' = None /\ i' = 0 /\ offset' = 0
  /\ alien' = {}

\* Anything else changes a register, or writes a shadowed register once.
Change(r, v) ==
  /\ \/ hw' = [hw EXCEPT ![r].q = v]
     \/ r \in Shadowed /\ hw' = [hw EXCEPT ![r].staged = v]
  /\ alien' = alien \cup {r}
  /\ UNCHANGED <<table, counts, pc, cur, loop>>

Next ==
  \/ SecMmioInit \/ NextStageInit \/ Compare \/ CheckRound \/ CheckValuesEnd
  \/ Reset
  \/ \E r \in Regs : Read32(r)
  \/ \E r \in Regs, v \in Values : Write32(r, v) \/ Write32Shadowed(r, v) \/ Change(r, v)
  \/ \E n \in 0 .. MaxCount : WriteIncrement(n) \/ CheckCounters(n)
  \/ \E rnd \in 0 .. RndRange - 1 : CheckValues(rnd)

Spec == Init /\ [][Next]_vars

-----------------------------------------------------------------------------
(* Properties *)

TypeOK ==
  /\ hw \in [Regs -> [q : Values, staged : Values \cup {None}]]
  /\ addrs \in [Slots -> Regs \cup {None}]
  /\ values \in [Slots -> Values \cup {None}]
  /\ last \in Nat /\ writes \in Nat /\ announced \in Nat /\ checks \in Nat
  /\ pc \in {"off", "idle", "compare", "check", "trap"}
  /\ IF pc = "compare" THEN cur \in [addr : Regs, masked : Values, n : {0, 1}]
                       ELSE cur = None
  /\ i \in Nat /\ offset \in Nat
  /\ alien \subseteq Regs

Used == 0 .. last - 1

\* The used slots name different registers, each with a value, and never more
\* than the table has.
OneSlotEach ==
  pc # "off" =>
    /\ last <= Size
    /\ \A s \in Used : addrs[s] \in Regs /\ values[s] \in Values
    /\ \A s, t \in Used : addrs[s] = addrs[t] => s = t

\* A register that nothing else has changed since the library confirmed it
\* holds what the table expects of it, whatever the caller did with it.
Tracked ==
  pc # "off" =>
    \A s \in Used : addrs[s] \notin alien => values[s] = Mask[hw[addrs[s]].q]

\* The library only traps for a register that something else changed, for a
\* new register when all slots name other ones, or for counters.
Names == {addrs[s] : s \in Used}
FullTable == Cardinality(Names) = Size

NoFalseTrap ==
  [][pc' = "trap" /\ pc # "trap" =>
       \/ pc = "compare" /\ cur.addr \in alien
       \/ pc = "check" /\ addrs[offset] \in alien
       \/ pc = "idle" /\ FullTable
       \/ \E n \in 0 .. MaxCount : CheckCounters(n)]_vars

\* What is left to compare: the slots from offset on, around the end of the
\* table.
Around(o, l) == IF o >= l THEN o - l ELSE o
Left == {Around(offset + k, last) : k \in 0 .. last - i - 1}

Expected == [a \in Names |-> Mask[values[First(Found(a))]]]

S == INSTANCE SecMmioSpec WITH
  reg      <- [r \in Regs |-> hw[r].q],
  expected <- IF pc = "off" THEN [r \in {} |-> None] ELSE Expected,
  room     <- IF pc = "off" THEN Size ELSE Size - last,
  phase    <- IF pc = "compare" THEN "confirm" ELSE pc,
  at       <- IF pc = "compare" THEN <<cur.addr, cur.n>> ELSE None,
  todo     <- IF pc = "check" THEN {addrs[s] : s \in Left} ELSE {},
  owed     <- IF pc = "off" THEN 0 ELSE announced - writes,
  checks   <- IF pc = "off" THEN 0 ELSE checks

\* sec_mmio.c implements SecMmioSpec: a check from any random offset compares
\* every recorded register once, a value is recorded only if the register held
\* it, and what the first stage recorded is still checked in the next one.
RegisterMap == S!Spec
=============================================================================
