--------------------------- MODULE SecMmio_proofs ---------------------------
(***************************************************************************)
(* Properties of SecMmio for every set of registers and values, every size *)
(* of the table, and any number of calls, changes from outside and resets. *)
(***************************************************************************)
EXTENDS SecMmioInv, FiniteSetTheorems, TLAPS

(* The random offset *)

LEMMA ProductOrder ==
  ASSUME NEW R \in Nat \ {0}, NEW q \in Nat, NEW l \in Nat, q >= l
  PROVE  R * q >= R * l
OBVIOUS

LEMMA ProductStrict ==
  ASSUME NEW R \in Nat \ {0}, NEW x \in 0 .. R - 1, NEW l \in Nat \ {0}
  PROVE  x * l \in Nat /\ x * l < R * l
OBVIOUS

LEMMA OffsetBelow ==
  ASSUME NEW R \in Nat \ {0}, NEW x \in 0 .. R - 1, NEW l \in Nat \ {0}
  PROVE  (x * l) \div R \in 0 .. l - 1
<1> DEFINE p == x * l
<1>1. p \in Nat /\ p < R * l
  BY ProductStrict
<1> HIDE DEF p
<1>2. p \div R \in Nat /\ R * (p \div R) <= p
  BY <1>1
<1>3. ~(p \div R >= l)
  <2> SUFFICES ASSUME p \div R >= l PROVE FALSE
    OBVIOUS
  <2>1. R * (p \div R) >= R * l
    BY <1>2, ProductOrder
  <2> DEFINE a == R * (p \div R)
             b == R * l
  <2>2. a \in Int /\ b \in Int
    BY <1>2
  <2> HIDE DEF a, b
  <2> QED BY <1>1, <1>2, <2>1, <2>2 DEF a, b
<1> QED BY <1>2, <1>3 DEF p

(* The table *)

LEMMA OneFound ==
  ASSUME NEW ad, NEW l \in Nat, NEW s \in 0 .. l - 1,
         \A t, u \in 0 .. l - 1 : ad[t] = ad[u] => t = u
  PROVE  First({t \in 0 .. l - 1 : ad[t] = ad[s]}) = s
<1>1. {t \in 0 .. l - 1 : ad[t] = ad[s]} = {s}
  OBVIOUS
<1>2. s \in {s} /\ \A t \in {s} : s <= t
  OBVIOUS
<1>3. First({s}) \in {s}
  BY <1>2 DEF First
<1> QED BY <1>1, <1>3

(* The initial states *)

LEMMA InitInv == Init => IInv
<1> SUFFICES ASSUME Init PROVE IInv
  OBVIOUS
<1>1. TypeOK
  <2>1. PICK g \in Garbage :
          /\ addrs = g.addrs /\ values = g.values /\ last = g.last
          /\ writes = g.writes /\ announced = g.announced /\ checks = g.checks
    BY DEF Init
  <2> QED BY <2>1, SecMmioAssumption DEF Init, TypeOK
<1> QED BY <1>1 DEF Init, IInv, OneSlotEach, Tracked, Settled, InLoop, Recorded, Counted

\* What a call records, and what it keeps.
LEMMA UpsertFacts ==
  ASSUME IInv, pc = "idle", NEW r \in Regs, NEW m \in Values, HasRoom(r), Upsert(r, m)
  PROVE  /\ addrs' \in [Slots -> Regs \cup {None}] /\ values' \in [Slots -> Values \cup {None}]
         /\ last' \in Nat /\ last' <= Size /\ last <= last'
         /\ \A s \in Used' : addrs'[s] \in Regs /\ values'[s] \in Values
         /\ \A s, t \in Used' : addrs'[s] = addrs'[t] => s = t
         /\ \E s \in Used' : addrs'[s] = r /\ values'[s] = m
         /\ \A s \in Used' : addrs'[s] # r =>
              s \in Used /\ addrs'[s] = addrs[s] /\ values'[s] = values[s]
         /\ \A s \in Used : addrs'[s] = addrs[s]
         /\ r \in Names => last' = last
         /\ r \notin Names => last' = last + 1
         /\ Names' = Names \cup {r}
<1> USE SecMmioAssumption DEF Used, Slots
<1>0. /\ TypeOK /\ last <= Size /\ last \in Nat
      /\ \A s \in Used : addrs[s] \in Regs /\ values[s] \in Values
      /\ \A s, t \in Used : addrs[s] = addrs[t] => s = t
  BY DEF IInv, OneSlotEach, TypeOK
<1>1. CASE Found(r) # {}
  <2>1. PICK s \in Used : addrs[s] = r
    BY <1>1 DEF Found
  <2>2. First(Found(r)) = s
    <3>1. Found(r) = {t \in 0 .. last - 1 : addrs[t] = addrs[s]}
      BY <2>1 DEF Found
    <3>2. First({t \in 0 .. last - 1 : addrs[t] = addrs[s]}) = s
      BY <2>1, <1>0, OneFound
    <3> QED BY <3>1, <3>2
  <2>3. values' = [values EXCEPT ![s] = m] /\ addrs' = addrs /\ last' = last
    BY <1>1, <2>2 DEF Upsert
  <2>4. r \in Names
    BY <2>1 DEF Names
  <2> QED BY <1>0, <2>1, <2>3, <2>4 DEF TypeOK, Names
<1>2. CASE Found(r) = {}
  <2>1. /\ last < Size
        /\ addrs' = [addrs EXCEPT ![last] = r] /\ values' = [values EXCEPT ![last] = m]
        /\ last' = last + 1
    BY <1>2, <1>0 DEF HasRoom, Upsert
  <2>2. \A s \in Used : addrs[s] # r
    BY <1>2 DEF Found
  <2>3. r \notin Names
    BY <2>2 DEF Names
  <2>4. addrs' \in [Slots -> Regs \cup {None}] /\ values' \in [Slots -> Values \cup {None}]
    BY <2>1, <1>0 DEF TypeOK
  <2>5. addrs'[last] = r /\ values'[last] = m
    BY <2>1, <1>0 DEF TypeOK
  <2>6. \A s \in Used : addrs'[s] = addrs[s] /\ values'[s] = values[s]
    BY <2>1, <1>0 DEF TypeOK
  <2>7. \A s \in Used' : s \in Used \/ s = last
    BY <2>1, <1>0
  <2>8. Names' = Names \cup {r}
    <3>1. \A s \in Used : s \in Used'
      BY <2>1, <1>0
    <3>2. last \in Used'
      BY <2>1, <1>0
    <3> QED BY <3>1, <3>2, <2>5, <2>6, <2>7 DEF Names
  <2>9. last' \in Nat /\ last' <= Size /\ last <= last' /\ last \in Used'
    BY <2>1, <1>0
  <2>10. \A s, t \in Used' : addrs'[s] = addrs'[t] => s = t
    BY <2>2, <2>5, <2>6, <2>7, <1>0
  <2> QED BY <1>0, <2>1, <2>2, <2>3, <2>4, <2>5, <2>6, <2>7, <2>8, <2>9, <2>10
<1> QED BY <1>1, <1>2

\* The three calls that record a value.
LEMMA RecordInv ==
  ASSUME IInv, pc = "idle", NEW r \in Regs, NEW c \in [q : Values, staged : Values \cup {None}],
         NEW m \in Values, NEW n \in {0, 1}, Record(r, c, m, n),
         r \notin alien => c.staged = None /\ m = Mask[c.q]
  PROVE  IInv'
<1> USE SecMmioAssumption
<1>0. /\ hw' = [hw EXCEPT ![r] = c] /\ UNCHANGED <<counts, loop, alien>>
      /\ hw' \in [Regs -> [q : Values, staged : Values \cup {None}]]
      /\ hw'[r] = c /\ \A x \in Regs : x # r => hw'[x] = hw[x]
  BY DEF Record, IInv, TypeOK
<1>1. CASE HasRoom(r)
  <2>1. Upsert(r, m) /\ pc' = "compare" /\ cur' = [addr |-> r, masked |-> m, n |-> n]
    BY <1>1 DEF Record
  <2>2. /\ addrs' \in [Slots -> Regs \cup {None}] /\ values' \in [Slots -> Values \cup {None}]
        /\ last' \in Nat /\ last' <= Size /\ last <= last'
        /\ \A s \in Used' : addrs'[s] \in Regs /\ values'[s] \in Values
        /\ \A s, t \in Used' : addrs'[s] = addrs'[t] => s = t
        /\ \E s \in Used' : addrs'[s] = r /\ values'[s] = m
        /\ \A s \in Used' : addrs'[s] # r =>
             s \in Used /\ addrs'[s] = addrs[s] /\ values'[s] = values[s]
        /\ r \in Names => last' = last
        /\ r \notin Names => last' = last + 1
        /\ Names' = Names \cup {r}
    BY <1>1, <2>1, UpsertFacts
  <2>3. TypeOK'
    BY <1>0, <2>1, <2>2 DEF IInv, TypeOK, counts, loop
  <2>4. OneSlotEach'
    BY <2>1, <2>2 DEF OneSlotEach
  <2>5. Tracked'
    <3> SUFFICES ASSUME NEW s \in Used', addrs'[s] \notin alien
                 PROVE  values'[s] = Mask[hw'[addrs'[s]].q]
      BY <1>0 DEF Tracked, loop
    <3>1. CASE addrs'[s] = r
      BY <1>0, <2>2, <3>1 DEF Used
    <3>2. CASE addrs'[s] # r
      BY <1>0, <2>2, <3>2 DEF IInv, Tracked
    <3> QED BY <3>1, <3>2
  <2>6. Settled'
    BY <1>0 DEF IInv, Settled
  <2>7. InLoop' /\ Recorded'
    BY <2>1, <2>2 DEF InLoop, Recorded
  <2>8. Counted'
    <3>1. Cardinality(Names) = last /\ IsFiniteSet(Names)
      BY DEF IInv, Counted
    <3>2. IsFiniteSet(Names') /\ Cardinality(Names') = last'
      BY <2>2, <3>1, FS_AddElement, <2>3 DEF IInv, TypeOK
    <3> QED BY <3>2 DEF Counted, Names
  <2> QED BY <2>3, <2>4, <2>5, <2>6, <2>7, <2>8 DEF IInv
<1>2. CASE ~HasRoom(r)
  <2>1. pc' = "trap" /\ UNCHANGED <<cur, table>>
    BY <1>2 DEF Record
  <2>2. r \notin Names
    BY <1>2 DEF HasRoom, Found, Names, Used
  <2>3. Tracked'
    BY <1>0, <2>1, <2>2 DEF IInv, Tracked, OneSlotEach, Used, Names, table
  <2> QED BY <1>0, <2>1, <2>3
       DEF IInv, TypeOK, OneSlotEach, Used, Names, table, counts, loop,
           Settled, InLoop, Recorded, Counted
<1> QED BY <1>1, <1>2

LEMMA Read32Inv ==
  ASSUME IInv, NEW r \in Regs, Read32(r)
  PROVE  IInv'
<1> DEFINE c == AfterRead(hw[r])
<1>1. hw[r] \in [q : Values, staged : Values \cup {None}]
  BY DEF IInv, TypeOK
<1>2. c \in [q : Values, staged : Values \cup {None}] /\ c.staged = None /\ c.q = hw[r].q
  BY <1>1 DEF AfterRead
<1>3. Mask[hw[r].q] \in Values
  BY <1>1, SecMmioAssumption
<1>4. pc = "idle" /\ Record(r, c, Mask[hw[r].q], 0)
  BY DEF Read32
<1> QED BY <1>2, <1>3, <1>4, RecordInv

LEMMA Write32Inv ==
  ASSUME IInv, NEW r \in Regs, NEW v \in Values, Write32(r, v)
  PROVE  IInv'
<1> DEFINE c == Written(r, hw[r], v)
<1>1. c = [q |-> v, staged |-> None]
  BY DEF Write32, Written
<1>2. pc = "idle" /\ Record(r, c, Mask[v], 1)
  BY DEF Write32
<1> QED BY <1>1, <1>2, RecordInv, SecMmioAssumption

LEMMA Write32ShadowedInv ==
  ASSUME IInv, NEW r \in Regs, NEW v \in Values, Write32Shadowed(r, v)
  PROVE  IInv'
<1> DEFINE c == Written(r, Written(r, hw[r], v), v)
<1>1. hw[r] \in [q : Values, staged : Values \cup {None}]
  BY DEF IInv, TypeOK
<1>2. c \in [q : Values, staged : Values \cup {None}]
  BY <1>1 DEF Written
<1>3. r \notin alien => c = [q |-> v, staged |-> None]
  BY <1>1, SecMmioAssumption DEF IInv, Settled, Written, Write32Shadowed
<1>4. pc = "idle" /\ Record(r, c, Mask[v], 1)
  BY DEF Write32Shadowed
<1> QED BY <1>2, <1>3, <1>4, RecordInv, SecMmioAssumption

LEMMA CompareInv ==
  ASSUME IInv, Compare
  PROVE  IInv'
<1> DEFINE r == cur.addr
<1>1. r \in Regs /\ cur.n \in {0, 1} /\ hw[r] \in [q : Values, staged : Values \cup {None}]
  BY DEF IInv, TypeOK, Compare
<1>2. /\ hw' = [hw EXCEPT ![r] = AfterRead(hw[r])] /\ cur' = None
      /\ UNCHANGED <<table, announced, checks, loop>>
      /\ pc' \in {"idle", "trap"}
      /\ alien' \in {alien, alien \ {r}} /\ writes' \in {writes, writes + cur.n}
      /\ alien' # alien => Mask[hw[r].q] = cur.masked
  BY DEF Compare
<1>3. /\ hw'[r].q = hw[r].q /\ hw'[r].staged = None
      /\ hw' \in [Regs -> [q : Values, staged : Values \cup {None}]]
      /\ \A x \in Regs : x # r => hw'[x] = hw[x]
  BY <1>1, <1>2 DEF AfterRead, IInv, TypeOK
<1>4. TypeOK'
  BY <1>1, <1>2, <1>3 DEF IInv, TypeOK, table, loop
<1>5. OneSlotEach'
  BY <1>2 DEF IInv, OneSlotEach, Compare, table, Used
<1>6. Tracked'
  <2> SUFFICES ASSUME NEW s \in Used, addrs[s] \notin alien'
               PROVE  values[s] = Mask[hw'[addrs[s]].q]
    BY <1>2 DEF Tracked, Used, table
  <2>1. addrs[s] \in Regs /\ pc = "compare"
    BY DEF IInv, OneSlotEach, Compare
  <2>2. CASE addrs[s] \notin alien
    BY <1>3, <2>1, <2>2 DEF IInv, Tracked
  <2>3. CASE addrs[s] \in alien
    <3>1. addrs[s] = r /\ Mask[hw[r].q] = cur.masked
      BY <1>2, <2>3
    <3>2. PICK t \in Used : addrs[t] = r /\ values[t] = cur.masked
      BY <2>1 DEF IInv, Recorded
    <3>3. t = s
      BY <3>1, <3>2, <2>1 DEF IInv, OneSlotEach
    <3> QED BY <1>3, <3>1, <3>2, <3>3
  <2> QED BY <2>2, <2>3
<1>7. Settled'
  BY <1>2, <1>3 DEF IInv, Settled
<1>8. InLoop' /\ Recorded' /\ Counted'
  BY <1>2 DEF IInv, InLoop, Recorded, Counted, Names, Used, table, Compare
<1> QED BY <1>4, <1>5, <1>6, <1>7, <1>8 DEF IInv

LEMMA CheckValuesInv ==
  ASSUME IInv, NEW rnd \in 0 .. RndRange - 1, CheckValues(rnd)
  PROVE  IInv'
<1>1. last \in Nat /\ offset' = (rnd * last) \div RndRange
  BY DEF IInv, TypeOK, CheckValues, StartOffset
<1>2. offset' \in Nat /\ (last > 0 => offset' < last)
  <2>1. CASE last = 0
    BY <1>1, <2>1, SecMmioAssumption
  <2>2. CASE last # 0
    <3>1. last \in Nat \ {0} /\ RndRange \in Nat \ {0}
      BY <1>1, <2>2, SecMmioAssumption
    <3>2. (rnd * last) \div RndRange \in 0 .. last - 1
      BY <3>1, OffsetBelow
    <3> QED BY <1>1, <3>1, <3>2
  <2> QED BY <2>1, <2>2
<1>3. /\ pc = "idle" /\ pc' = "check" /\ i' = 0
      /\ UNCHANGED <<hw, table, counts, cur, alien>>
  BY DEF CheckValues
<1> QED BY <1>1, <1>2, <1>3
     DEF IInv, TypeOK, OneSlotEach, Tracked, Settled, InLoop, Recorded, Counted,
         Names, Used, table, counts

LEMMA CheckRoundInv ==
  ASSUME IInv, CheckRound
  PROVE  IInv'
<1> DEFINE r == addrs[offset]
<1>1. offset \in Used /\ r \in Regs /\ hw[r] \in [q : Values, staged : Values \cup {None}]
  BY DEF IInv, TypeOK, InLoop, OneSlotEach, CheckRound, Used
<1>2. /\ hw' = [hw EXCEPT ![r] = AfterRead(hw[r])] /\ pc = "check" /\ pc' \in {"check", "trap"}
      /\ UNCHANGED <<table, counts, cur, alien>>
  BY DEF CheckRound
<1>3. /\ hw' \in [Regs -> [q : Values, staged : Values \cup {None}]]
      /\ \A x \in Regs : hw'[x].q = hw[x].q /\ (hw'[x].staged # hw[x].staged => hw'[x].staged = None)
  BY <1>1, <1>2 DEF AfterRead, IInv, TypeOK
<1>4. i' \in Nat /\ offset' \in Nat /\ InLoop'
  <2>1. CASE Mask[hw[r].q] = values[offset]
    <3>1. i' = i + 1 /\ offset' = NextOffset(offset) /\ i < last /\ last' = last
      BY <2>1 DEF CheckRound, table
    <3> QED BY <1>1, <3>1 DEF IInv, TypeOK, InLoop, NextOffset, Used
  <2>2. CASE Mask[hw[r].q] # values[offset]
    BY <2>2 DEF CheckRound, InLoop
  <2> QED BY <2>1, <2>2
<1>5. TypeOK'
  BY <1>2, <1>3, <1>4 DEF IInv, TypeOK, table, counts
<1>6. Tracked'
  BY <1>2, <1>3 DEF IInv, Tracked, OneSlotEach, Used, table
<1>7. Settled'
  BY <1>2, <1>3 DEF IInv, Settled
<1> QED BY <1>2, <1>4, <1>5, <1>6, <1>7
     DEF IInv, OneSlotEach, Recorded, Counted, Names, Used, table

LEMMA ChangeInv ==
  ASSUME IInv, NEW r \in Regs, NEW v \in Values, Change(r, v)
  PROVE  IInv'
<1>1. /\ hw' \in [Regs -> [q : Values, staged : Values \cup {None}]]
      /\ \A x \in Regs : x # r => hw'[x] = hw[x]
      /\ alien' = alien \cup {r}
      /\ UNCHANGED <<table, counts, pc, cur, loop>>
  BY DEF Change, IInv, TypeOK
<1>2. TypeOK'
  BY <1>1 DEF IInv, TypeOK, table, counts, loop
<1>3. Tracked' /\ Settled'
  BY <1>1 DEF IInv, Tracked, Settled, OneSlotEach, Used, table
<1> QED BY <1>1, <1>2, <1>3
     DEF IInv, OneSlotEach, InLoop, Recorded, Counted, Names, Used, table, loop

LEMMA SecMmioInitInv ==
  ASSUME IInv, SecMmioInit
  PROVE  IInv'
<1>1. Used' = {} /\ Names' = {}
  BY DEF SecMmioInit, Used, Names
<1>2. Counted'
  BY <1>1, FS_EmptySet DEF Counted, SecMmioInit
<1> QED BY <1>1, <1>2, SecMmioAssumption
     DEF IInv, SecMmioInit, TypeOK, OneSlotEach, Tracked, Settled, InLoop, Recorded, loop

LEMMA NextStageInitInv ==
  ASSUME IInv, NextStageInit
  PROVE  IInv'
<1>1. /\ addrs' \in [Slots -> Regs \cup {None}] /\ values' \in [Slots -> Values \cup {None}]
      /\ last' = last /\ last <= Size /\ last \in Nat
  BY DEF IInv, TypeOK, OneSlotEach, NextStageInit
<1>2. \A s \in Used : s \in Slots /\ addrs'[s] = addrs[s] /\ values'[s] = values[s]
  BY <1>1, SecMmioAssumption DEF NextStageInit, Used, Slots
<1>3. Names' = Names /\ Used' = Used
  BY <1>1, <1>2 DEF Names, Used
<1>4. TypeOK'
  BY <1>1 DEF IInv, NextStageInit, TypeOK, loop
<1>5. OneSlotEach'
  BY <1>1, <1>2, <1>3 DEF IInv, NextStageInit, OneSlotEach
<1>6. Tracked'
  BY <1>2, <1>3 DEF IInv, NextStageInit, Tracked
<1>7. Settled' /\ InLoop' /\ Recorded' /\ Counted'
  BY <1>1, <1>3 DEF IInv, NextStageInit, Settled, InLoop, Recorded, Counted, loop
<1> QED BY <1>4, <1>5, <1>6, <1>7 DEF IInv

LEMMA ResetInv ==
  ASSUME IInv, Reset
  PROVE  IInv'
<1>1. PICK g \in Garbage :
        /\ addrs' = g.addrs /\ values' = g.values /\ last' = g.last
        /\ writes' = g.writes /\ announced' = g.announced /\ checks' = g.checks
  BY DEF Reset
<1>2. TypeOK'
  BY <1>1, SecMmioAssumption DEF Reset, TypeOK
<1> QED BY <1>2 DEF Reset, IInv, OneSlotEach, Tracked, Settled, InLoop, Recorded, Counted

LEMMA NextInv == IInv /\ [Next]_vars => IInv'
<1> SUFFICES ASSUME IInv, [Next]_vars PROVE IInv'
  OBVIOUS
<1> USE DEF table, counts, loop
<1>1. CASE SecMmioInit
  BY <1>1, SecMmioInitInv
<1>2. CASE NextStageInit
  BY <1>2, NextStageInitInv
<1>3. CASE Compare
  BY <1>3, CompareInv
<1>4. CASE CheckRound
  BY <1>4, CheckRoundInv
<1>5. CASE CheckValuesEnd
  BY <1>5 DEF CheckValuesEnd, IInv, TypeOK, OneSlotEach, Tracked, Settled, InLoop, Recorded,
              Counted, Used, Names
<1>6. CASE Reset
  BY <1>6, ResetInv
<1>7. ASSUME NEW r \in Regs, Read32(r) PROVE IInv'
  BY <1>7, Read32Inv
<1>8. ASSUME NEW r \in Regs, NEW v \in Values, Write32(r, v) PROVE IInv'
  BY <1>8, Write32Inv
<1>9. ASSUME NEW r \in Regs, NEW v \in Values, Write32Shadowed(r, v) PROVE IInv'
  BY <1>9, Write32ShadowedInv
<1>10. ASSUME NEW r \in Regs, NEW v \in Values, Change(r, v) PROVE IInv'
  BY <1>10, ChangeInv
<1>11. ASSUME NEW n \in 0 .. MaxCount, WriteIncrement(n) PROVE IInv'
  BY <1>11 DEF WriteIncrement, IInv, TypeOK, OneSlotEach, Tracked, Settled, InLoop, Recorded,
               Counted, Used, Names
<1>12. ASSUME NEW n \in 0 .. MaxCount, CheckCounters(n) PROVE IInv'
  BY <1>12 DEF CheckCounters, IInv, TypeOK, OneSlotEach, Tracked, Settled, InLoop, Recorded,
               Counted, Used, Names
<1>13. ASSUME NEW rnd \in 0 .. RndRange - 1, CheckValues(rnd) PROVE IInv'
  BY <1>13, CheckValuesInv
<1>14. CASE UNCHANGED vars
  BY <1>14 DEF vars, IInv, TypeOK, OneSlotEach, Tracked, Settled, InLoop, Recorded,
               Counted, Used, Names
<1> QED BY <1>1, <1>2, <1>3, <1>4, <1>5, <1>6, <1>7, <1>8, <1>9, <1>10, <1>11, <1>12, <1>13, <1>14
     DEF Next

\* The inductive invariant holds for every set of registers, every table size
\* and every random offset (sec_mmio.c, all functions).
THEOREM Invariant == Spec => []IInv
BY InitInv, NextInv, PTL DEF Spec

\* The type invariant of the context and its callers.
THEOREM TypeCorrect == Spec => []TypeOK
<1>1. IInv => TypeOK
  BY DEF IInv
<1> QED BY Invariant, <1>1, PTL

\* upsert_register() keeps one slot for each register, within the table.
THEOREM SlotsDistinct == Spec => []OneSlotEach
<1>1. IInv => OneSlotEach
  BY DEF IInv
<1> QED BY Invariant, <1>1, PTL

\* The table agrees with every register that only the library has changed.
THEOREM TableTracks == Spec => []Tracked
<1>1. IInv => Tracked
  BY DEF IInv
<1> QED BY Invariant, <1>1, PTL

-----------------------------------------------------------------------------
(* Traps *)

LEMMA RecordTrap ==
  ASSUME IInv, pc = "idle", NEW r, NEW c, NEW m, NEW n, Record(r, c, m, n), pc' = "trap"
  PROVE  FullTable
BY SecMmioAssumption DEF IInv, TypeOK, OneSlotEach, Counted, Record, HasRoom, FullTable

LEMMA SlotUntouched ==
  ASSUME IInv, pc # "off", NEW s \in Used, addrs[s] \notin alien
  PROVE  Mask[hw[addrs[s]].q] = values[s]
BY DEF IInv, Tracked

\* The library traps for no other reason than a register that was changed behind
\* its back, a full table, and counters that are not as the caller says.
THEOREM TrapsForCause == Spec => NoFalseTrap
<1>1. IInv /\ [Next]_vars =>
        [pc' = "trap" /\ pc # "trap" =>
           \/ pc = "compare" /\ cur.addr \in alien
           \/ pc = "check" /\ addrs[offset] \in alien
           \/ pc = "idle" /\ FullTable
           \/ \E n \in 0 .. MaxCount : CheckCounters(n)]_vars
  <2> SUFFICES ASSUME IInv, Next, pc' = "trap", pc # "trap"
               PROVE  \/ pc = "compare" /\ cur.addr \in alien
                      \/ pc = "check" /\ addrs[offset] \in alien
                      \/ pc = "idle" /\ FullTable
                      \/ \E n \in 0 .. MaxCount : CheckCounters(n)
    OBVIOUS
  <2>1. CASE SecMmioInit \/ NextStageInit \/ CheckValuesEnd \/ Reset
    BY <2>1 DEF SecMmioInit, NextStageInit, CheckValuesEnd, Reset
  <2>2. CASE Compare
    <3>1. Mask[hw[cur.addr].q] # cur.masked /\ pc = "compare"
      BY <2>2 DEF Compare
    <3>2. PICK s \in Used : addrs[s] = cur.addr /\ values[s] = cur.masked
      BY <3>1 DEF IInv, Recorded
    <3> QED BY <3>1, <3>2, SlotUntouched
  <2>3. CASE CheckRound
    <3>1. Mask[hw[addrs[offset]].q] # values[offset] /\ pc = "check" /\ offset \in Used
      BY <2>3 DEF CheckRound, IInv, InLoop, TypeOK, Used
    <3> QED BY <3>1, SlotUntouched
  <2>4. ASSUME NEW r \in Regs, Read32(r) PROVE pc = "idle" /\ FullTable
    BY <2>4, RecordTrap DEF Read32
  <2>5. ASSUME NEW r \in Regs, NEW v \in Values, Write32(r, v) \/ Write32Shadowed(r, v)
        PROVE  pc = "idle" /\ FullTable
    BY <2>5, RecordTrap DEF Write32, Write32Shadowed
  <2>6. ASSUME NEW r \in Regs, NEW v \in Values, Change(r, v) PROVE FALSE
    BY <2>6 DEF Change
  <2>7. ASSUME NEW n \in 0 .. MaxCount, WriteIncrement(n) PROVE FALSE
    BY <2>7 DEF WriteIncrement
  <2>8. ASSUME NEW rnd \in 0 .. RndRange - 1, CheckValues(rnd) PROVE FALSE
    BY <2>8 DEF CheckValues
  <2> QED BY <2>1, <2>2, <2>3, <2>4, <2>5, <2>6, <2>7, <2>8 DEF Next
<1> QED BY Invariant, <1>1, PTL DEF Spec, NoFalseTrap

-----------------------------------------------------------------------------
(* The refinement *)

LEMMA ExpectedAt ==
  ASSUME IInv, pc # "off"
  PROVE  /\ DOMAIN Expected = Names
         /\ \A s \in Used : Expected[addrs[s]] = Mask[values[s]]
<1>1. ASSUME NEW s \in Used PROVE Expected[addrs[s]] = Mask[values[s]]
  <2>1. last \in Nat /\ \A t, u \in 0 .. last - 1 : addrs[t] = addrs[u] => t = u
    BY DEF IInv, TypeOK, OneSlotEach, Used
  <2>2. First({t \in 0 .. last - 1 : addrs[t] = addrs[s]}) = s
    BY <1>1, <2>1, OneFound DEF Used
  <2> QED BY <1>1, <2>2 DEF Expected, Found, Names, Used
<1> QED BY <1>1 DEF Expected

LEMMA ExpectedAtPrime ==
  ASSUME IInv', (pc # "off")'
  PROVE  (/\ DOMAIN Expected = Names
          /\ \A s \in Used : Expected[addrs[s]] = Mask[values[s]])'
<1>1. ASSUME NEW s \in Used' PROVE Expected'[addrs'[s]] = Mask[values'[s]]
  <2>1. last' \in Nat /\ \A t, u \in 0 .. last' - 1 : addrs'[t] = addrs'[u] => t = u
    BY DEF IInv, TypeOK, OneSlotEach, Used
  <2>2. First({t \in 0 .. last' - 1 : addrs'[t] = addrs'[s]}) = s
    BY <1>1, <2>1, OneFound DEF Used
  <2> QED BY <1>1, <2>2 DEF Expected, Found, Names, Used
<1> QED BY <1>1 DEF Expected

\* A map does not change with the spare slots of the table.
LEMMA SameExpected ==
  ASSUME IInv, IInv', pc # "off", (pc # "off")', last' = last,
         \A s \in Used : addrs'[s] = addrs[s] /\ values'[s] = values[s]
  PROVE  Expected' = Expected
<1>1. Used' = Used /\ Names' = Names
  BY DEF Used, Names
<1>2. ASSUME NEW a \in Names PROVE Expected'[a] = Expected[a]
  <2>1. PICK s \in Used : addrs[s] = a
    BY DEF Names
  <2> QED BY <2>1, <1>1, ExpectedAt, ExpectedAtPrime
<1> QED BY <1>1, <1>2 DEF Expected

LEMMA RecordRefines ==
  ASSUME IInv, IInv', pc = "idle", NEW r \in Regs, NEW c, NEW v \in Values, NEW n \in {0, 1},
         Record(r, c, Mask[v], n)
  PROVE  S!Record(r, v, n) \/ S!Full(r)
<1>0. /\ DOMAIN Expected = Names /\ Cardinality(Names) = last /\ last <= Size /\ last \in Nat
      /\ UNCHANGED <<writes, announced, checks, i, offset>>
  BY ExpectedAt DEF IInv, Counted, OneSlotEach, TypeOK, Record, counts, loop
<1>1. CASE HasRoom(r)
  <2>1. Upsert(r, Mask[v]) /\ pc' = "compare" /\ cur' = [addr |-> r, masked |-> Mask[v], n |-> n]
    BY <1>1 DEF Record
  <2>2. /\ \E s \in Used' : addrs'[s] = r /\ values'[s] = Mask[v]
        /\ \A s \in Used' : addrs'[s] # r =>
             s \in Used /\ addrs'[s] = addrs[s] /\ values'[s] = values[s]
        /\ Names' = Names \cup {r}
        /\ r \notin Names => last' = last + 1
    BY <1>1, <2>1, UpsertFacts, SecMmioAssumption
  <2>3. DOMAIN Expected' = Names \cup {r}
    BY <2>1, <2>2, ExpectedAtPrime
  <2>4. Expected'[r] = v
    BY <2>1, <2>2, ExpectedAtPrime, SecMmioAssumption
  <2>5. ASSUME NEW a \in Names, a # r PROVE Expected'[a] = Expected[a]
    <3>1. PICK s \in Used' : addrs'[s] = a
      BY <2>2 DEF Names
    <3> QED BY <2>1, <2>2, <2>5, <3>1, ExpectedAt, ExpectedAtPrime
  <2>6. Expected' = [x \in DOMAIN Expected \cup {r} |-> IF x = r THEN v ELSE Expected[x]]
    <3>1. Expected' = [x \in DOMAIN Expected' |-> Expected'[x]]
      BY DEF Expected
    <3> QED BY <1>0, <2>3, <2>4, <2>5, <3>1
  <2>7. IF r \in Names THEN last' = last ELSE Size - last > 0 /\ last' = last + 1
    <3>1. last' <= Size
      BY <2>1 DEF IInv, OneSlotEach
    <3>2. r \in Names => last' = last
      BY <1>1, <2>1, UpsertFacts, SecMmioAssumption
    <3> QED BY <1>0, <2>2, <3>1, <3>2, SecMmioAssumption
  <2>8. /\ pc' = "compare" /\ cur'.addr = r /\ cur'.n = n
    BY <2>1
  <2> HIDE DEF Expected
  <2> QED BY <1>0, <2>6, <2>7, <2>8, SecMmioAssumption DEF S!Record
<1>2. CASE ~HasRoom(r)
  <2>1. pc' = "trap" /\ UNCHANGED <<cur, addrs, values, last>>
    BY <1>2 DEF Record, table
  <2>2. r \notin Names /\ Size - last = 0
    BY <1>0, <1>2, SecMmioAssumption DEF HasRoom, Found, Names, Used
  <2>3. Expected' = Expected
    BY <2>1, SameExpected
  <2> HIDE DEF Expected
  <2> QED BY <1>0, <2>1, <2>2, <2>3 DEF S!Full
<1> QED BY <1>1, <1>2

LEMMA CompareRefines ==
  ASSUME IInv, IInv', Compare
  PROVE  S!Confirm
<1>1. PICK s \in Used : addrs[s] = cur.addr /\ values[s] = cur.masked
  BY DEF IInv, Recorded, Compare
<1>2. /\ cur.addr \in Regs /\ hw \in [Regs -> [q : Values, staged : Values \cup {None}]]
      /\ writes \in Nat /\ announced \in Nat /\ cur.n \in {0, 1}
  BY DEF IInv, TypeOK, Compare
<1>3. Expected[cur.addr] = Mask[cur.masked] /\ cur.masked \in Values
  BY <1>1, ExpectedAt DEF Compare, IInv, OneSlotEach
<1>4. /\ pc = "compare" /\ pc' \in {"idle", "trap"} /\ UNCHANGED <<addrs, values, last, announced, checks>>
      /\ hw' = [hw EXCEPT ![cur.addr] = AfterRead(hw[cur.addr])]
      /\ (Mask[hw[cur.addr].q] = cur.masked) => pc' = "idle" /\ writes' = writes + cur.n
      /\ (Mask[hw[cur.addr].q] # cur.masked) => pc' = "trap" /\ writes' = writes
  BY DEF Compare, table
<1>5. [r \in Regs |-> hw[r].q]' = [r \in Regs |-> hw[r].q]
  BY <1>2, <1>4 DEF AfterRead
<1>6. Expected' = Expected
  BY <1>4, SameExpected
<1>7. (Mask[hw[cur.addr].q] = cur.masked) <=> (hw[cur.addr].q = Expected[cur.addr])
  BY <1>2, <1>3, SecMmioAssumption
<1> HIDE DEF Expected
<1> QED BY <1>2, <1>4, <1>5, <1>6, <1>7 DEF S!Confirm

\* The slots that are left: all of them at first, and one less in each round.
LEMMA WholeTable ==
  ASSUME NEW l \in Nat, NEW o \in Nat, l > 0 => o < l
  PROVE  /\ \A s \in 0 .. l - 1 : \E k \in 0 .. l - 1 : s = Around(o + k, l)
         /\ \A k \in 0 .. l - 1 : Around(o + k, l) \in 0 .. l - 1
<1> DEFINE A(k) == Around(o + k, l)
<1>1. ASSUME NEW s \in 0 .. l - 1 PROVE \E k \in 0 .. l - 1 : A(k) = s
  <2>1. CASE s >= o
    <3>1. s - o \in 0 .. l - 1 /\ A(s - o) = s
      BY <1>1, <2>1 DEF Around
    <3> QED BY <3>1
  <2>2. CASE s < o
    <3>1. s + l - o \in 0 .. l - 1 /\ A(s + l - o) = s
      BY <1>1, <2>2 DEF Around
    <3> QED BY <3>1
  <2> QED BY <1>1, <2>1, <2>2
<1>2. ASSUME NEW k \in 0 .. l - 1 PROVE A(k) \in 0 .. l - 1
  BY <1>2 DEF Around
<1> QED BY <1>1, <1>2

LEMMA LeftInRound ==
  ASSUME last \in Nat, i \in Nat, i < last, offset \in 0 .. last - 1,
         last' = last, i' = i + 1, offset' = NextOffset(offset)
  PROVE  /\ Left' = Left \ {offset} /\ offset \in Left
         /\ Left \subseteq Used
<1>0. offset' \in Nat /\ offset' = Around(offset + 1, last)
  BY DEF NextOffset, Around
<1>1. ASSUME NEW k \in 0 .. last - i - 2
      PROVE  Around(offset' + k, last) = Around(offset + (k + 1), last) /\ Around(offset + (k + 1), last) # offset
  BY <1>0, <1>1 DEF Around
<1>2. Left' = {Around(offset' + k, last) : k \in 0 .. last - i - 2}
  BY DEF Left, Around
<1>3. Left' = {Around(offset + (k + 1), last) : k \in 0 .. last - i - 2}
  BY <1>1, <1>2
<1>4. Around(offset + 0, last) = offset /\ 0 \in 0 .. last - i - 1
  BY DEF Around
<1>5. offset \in Left
  BY <1>4 DEF Left
<1>6. ASSUME NEW k \in 0 .. last - i - 1, Around(offset + k, last) # offset
      PROVE  Around(offset + k, last) \in Left'
  <2>1. k # 0
    BY <1>4, <1>6
  <2>2. k - 1 \in 0 .. last - i - 2 /\ (k - 1) + 1 = k
    BY <2>1
  <2> QED BY <1>3, <2>2
<1>7. ASSUME NEW k \in 0 .. last - i - 2
      PROVE  Around(offset + (k + 1), last) \in Left
  <2>1. k + 1 \in 0 .. last - i - 1
    BY <1>7
  <2> QED BY <2>1 DEF Left
<1>8. ASSUME NEW k \in 0 .. last - i - 1 PROVE Around(offset + k, last) \in Used
  BY <1>8 DEF Around, Used
<1>9. Left' \subseteq Left \ {offset}
  BY <1>1, <1>3, <1>7
<1>10. Left \ {offset} \subseteq Left'
  BY <1>6 DEF Left
<1> QED BY <1>5, <1>8, <1>9, <1>10 DEF Left

LEMMA CheckValuesRefines ==
  ASSUME IInv, IInv', NEW rnd, CheckValues(rnd)
  PROVE  S!BeginCheck
<1>1. /\ pc = "idle" /\ pc' = "check"
      /\ UNCHANGED <<hw, addrs, values, last, writes, announced, checks, cur, alien>>
  BY DEF CheckValues, table, counts
<1>2. Left' = Used'
  <2>1. last' \in Nat /\ offset' \in Nat /\ i' = 0 /\ (last' > 0 => offset' < last')
    BY <1>1 DEF CheckValues, IInv, TypeOK, InLoop
  <2>2. /\ \A s \in 0 .. last' - 1 : \E k \in 0 .. last' - 1 : s = Around(offset' + k, last')
        /\ \A k \in 0 .. last' - 1 : Around(offset' + k, last') \in 0 .. last' - 1
    BY <2>1, WholeTable
  <2>3. last' - i' - 1 = last' - 1
    BY <2>1
  <2>4. Left' = {Around(offset' + k, last') : k \in 0 .. last' - 1}
    BY <2>3 DEF Left
  <2> QED BY <2>2, <2>4 DEF Used
<1>3. {addrs[s] : s \in Left}' = Names
  BY <1>1, <1>2 DEF Names, Used
<1>4. Expected' = Expected /\ DOMAIN Expected = Names
  BY <1>1, SameExpected, ExpectedAt
<1> HIDE DEF Expected, Left
<1> QED BY <1>1, <1>3, <1>4 DEF S!BeginCheck

LEMMA CheckRoundRefines ==
  ASSUME IInv, IInv', CheckRound
  PROVE  \E r \in Regs : S!CheckOne(r)
<1> DEFINE r == addrs[offset]
<1>1. /\ offset \in 0 .. last - 1 /\ last \in Nat /\ i \in Nat /\ i < last /\ r \in Regs
      /\ values[offset] \in Values
      /\ hw \in [Regs -> [q : Values, staged : Values \cup {None}]]
      /\ pc = "check" /\ UNCHANGED <<addrs, values, last, writes, announced, checks, cur, alien>>
      /\ hw' = [hw EXCEPT ![r] = AfterRead(hw[r])]
      /\ (Mask[hw[r].q] = values[offset]) =>
            i' = i + 1 /\ offset' = NextOffset(offset) /\ pc' = pc
      /\ (Mask[hw[r].q] # values[offset]) => pc' = "trap"
  BY DEF IInv, TypeOK, InLoop, OneSlotEach, CheckRound, Used, table, counts
<1>2. [x \in Regs |-> hw[x].q]' = [x \in Regs |-> hw[x].q]
  BY <1>1 DEF AfterRead
<1>3. Expected' = Expected /\ Expected[r] = Mask[values[offset]]
  <2>1. pc # "off" /\ pc' # "off"
    BY <1>1
  <2> QED BY <1>1, <2>1, SameExpected, ExpectedAt DEF Used
<1>4. (Mask[hw[r].q] = values[offset]) <=> (hw[r].q = Expected[r])
  BY <1>1, <1>3, SecMmioAssumption
<1>5. r \in {addrs[s] : s \in Left} /\ Left \subseteq Used
  <2>1. 0 \in 0 .. last - i - 1 /\ Around(offset + 0, last) = offset
    BY <1>1 DEF Around
  <2>2. \A k \in 0 .. last - i - 1 : Around(offset + k, last) \in Used
    BY <1>1 DEF Around, Used
  <2> QED BY <2>1, <2>2 DEF Left
<1>6. CASE Mask[hw[r].q] = values[offset]
  <2>1. Left' = Left \ {offset}
    BY <1>1, <1>6, LeftInRound
  <2>2. {addrs[s] : s \in Left}' = {addrs[s] : s \in Left} \ {r}
    <3>1. \A s \in Left : addrs[s] = addrs[offset] => s = offset
      BY <1>1, <1>5 DEF IInv, OneSlotEach, Used
    <3> QED BY <1>1, <2>1, <3>1
  <2> HIDE DEF Expected, Left
  <2> QED BY <1>1, <1>2, <1>3, <1>4, <1>5, <1>6, <2>2 DEF S!CheckOne
<1>7. CASE Mask[hw[r].q] # values[offset]
  <2> HIDE DEF Expected, Left
  <2> QED BY <1>1, <1>2, <1>3, <1>4, <1>5, <1>7 DEF S!CheckOne
<1> QED BY <1>6, <1>7

LEMMA CheckEndRefines ==
  ASSUME IInv, IInv', CheckValuesEnd
  PROVE  S!EndCheck
<1>1. /\ pc = "check" /\ pc' = "idle" /\ i = last /\ last \in Nat
      /\ UNCHANGED <<hw, addrs, values, last, writes, announced, cur, alien>>
      /\ checks' = checks + 1
  BY DEF CheckValuesEnd, IInv, TypeOK, table
<1>2. {addrs[s] : s \in Left} = {}
  <2>1. 0 .. last - i - 1 = {}
    BY <1>1
  <2> QED BY <2>1 DEF Left
<1>3. Expected' = Expected
  BY <1>1, SameExpected
<1> HIDE DEF Expected, Left
<1> QED BY <1>1, <1>2, <1>3 DEF S!EndCheck

LEMMA SimpleRefines ==
  ASSUME IInv, IInv', NEW n \in Nat,
         \/ SecMmioInit \/ NextStageInit \/ Reset
         \/ WriteIncrement(n) \/ CheckCounters(n)
  PROVE  S!Next
<1>1. CASE SecMmioInit
  <2>1. Names' = {}
    BY <1>1 DEF SecMmioInit, Names, Used
  <2>2. Expected' = [r \in {} |-> None]
    BY <2>1 DEF Expected
  <2>3. pc = "off" /\ pc' = "idle" /\ last' = 0 /\ writes' = 0 /\ announced' = 0 /\ checks' = 0
    BY <1>1 DEF SecMmioInit
  <2> HIDE DEF Expected, Left
  <2> QED BY <2>2, <2>3, SecMmioAssumption DEF S!Next, S!Start
<1>2. CASE NextStageInit
  <2>1. /\ pc = "idle" /\ pc' = pc /\ last' = last /\ checks' = 0
        /\ writes' = writes /\ announced' = announced
    BY <1>2 DEF NextStageInit
  <2>2. \A s \in Used : addrs'[s] = addrs[s] /\ values'[s] = values[s]
    <3>1. last \in Nat /\ last <= Size
      BY <2>1 DEF IInv, TypeOK, OneSlotEach
    <3> QED BY <1>2, <3>1, SecMmioAssumption DEF NextStageInit, Used, Slots
  <2>3. Expected' = Expected
    BY <2>1, <2>2, SameExpected
  <2> HIDE DEF Expected, Left
  <2> QED BY <2>1, <2>3 DEF S!Next, S!NextStage
<1>3. CASE Reset
  <2> HIDE DEF Expected, Left
  <2> QED BY <1>3 DEF Reset, S!Next, S!Reset, S!Off, S!Empty
<1>4. CASE WriteIncrement(n)
  <2>1. /\ pc = "idle" /\ UNCHANGED <<pc, addrs, values, last, writes, checks>>
        /\ announced' = announced + n /\ announced \in Nat /\ writes \in Nat
    BY <1>4 DEF WriteIncrement, IInv, TypeOK, table
  <2>2. Expected' = Expected
    BY <2>1, SameExpected
  <2> HIDE DEF Expected, Left
  <2> QED BY <2>1, <2>2 DEF S!Next, S!Announce
<1>5. CASE CheckCounters(n)
  <2>1. /\ pc = "idle" /\ UNCHANGED <<addrs, values, last, writes, announced>>
        /\ writes \in Nat /\ announced \in Nat
        /\ \/ writes = announced /\ checks' = checks + 1 /\ pc' = pc
           \/ pc' = "trap" /\ checks' = checks
    BY <1>5 DEF CheckCounters, IInv, TypeOK, table
  <2>2. Expected' = Expected
    BY <2>1, SameExpected
  <2> HIDE DEF Expected, Left
  <2> QED BY <2>1, <2>2 DEF S!Next, S!CheckCounters
<1> QED BY <1>1, <1>2, <1>3, <1>4, <1>5

\* Changes from outside are steps of reg only.
LEMMA StutterRefines ==
  ASSUME IInv, IInv', UNCHANGED <<table, counts, pc, cur, loop>>
  PROVE  UNCHANGED <<IF pc = "off" THEN [r \in {} |-> None] ELSE Expected,
                     IF pc = "off" THEN Size ELSE Size - last,
                     IF pc = "compare" THEN "confirm" ELSE pc,
                     IF pc = "compare" THEN <<cur.addr, cur.n>> ELSE None,
                     IF pc = "check" THEN {addrs[s] : s \in Left} ELSE {},
                     IF pc = "off" THEN 0 ELSE announced - writes,
                     IF pc = "off" THEN 0 ELSE checks>>
BY DEF table, counts, loop, Expected, Left, Names, Used, Found, Around, First

\* sec_mmio.c implements the map of SecMmioSpec: every step of it is a step of
\* the map, a change of a register by something else, or a stutter.
THEOREM ImplementsMap == Spec => RegisterMap
<1>1. Init => S!Init
  BY DEF Init, S!Init, S!Off, S!Empty
<1>2. IInv /\ IInv' /\ [Next]_vars =>
        [S!Next]_<<IF pc = "off" THEN [r \in {} |-> None] ELSE Expected,
                   IF pc = "off" THEN Size ELSE Size - last,
                   IF pc = "compare" THEN "confirm" ELSE pc,
                   IF pc = "compare" THEN <<cur.addr, cur.n>> ELSE None,
                   IF pc = "check" THEN {addrs[s] : s \in Left} ELSE {},
                   IF pc = "off" THEN 0 ELSE announced - writes,
                   IF pc = "off" THEN 0 ELSE checks>>
  <2> SUFFICES ASSUME IInv, IInv', [Next]_vars, ~S!Next
               PROVE  UNCHANGED <<table, counts, pc, cur, loop>>
    BY StutterRefines
  <2>1. ASSUME NEW r \in Regs, Read32(r) PROVE S!Next
    <3>1. hw[r].q \in Values /\ pc = "idle" /\ Record(r, AfterRead(hw[r]), Mask[hw[r].q], 0)
      BY <2>1 DEF IInv, TypeOK, Read32
    <3> QED BY <3>1, RecordRefines DEF S!Next
  <2>2. ASSUME NEW r \in Regs, NEW v \in Values, Write32(r, v) \/ Write32Shadowed(r, v)
        PROVE  S!Next
    <3>1. pc = "idle" /\ \E c : Record(r, c, Mask[v], 1)
      BY <2>2 DEF Write32, Write32Shadowed
    <3> QED BY <3>1, RecordRefines DEF S!Next
  <2>3. ASSUME NEW r \in Regs, NEW v \in Values, Change(r, v)
        PROVE  UNCHANGED <<table, counts, pc, cur, loop>>
    BY <2>3 DEF Change
  <2>4. CASE Compare
    BY <2>4, CompareRefines DEF S!Next
  <2>5. CASE CheckRound
    BY <2>5, CheckRoundRefines DEF S!Next
  <2>6. CASE CheckValuesEnd
    BY <2>6, CheckEndRefines DEF S!Next
  <2>7. ASSUME NEW rnd \in 0 .. RndRange - 1, CheckValues(rnd) PROVE S!Next
    BY <2>7, CheckValuesRefines DEF S!Next
  <2>8. CASE SecMmioInit \/ NextStageInit \/ Reset
    BY <2>8, SimpleRefines
  <2>9. ASSUME NEW n \in 0 .. MaxCount, WriteIncrement(n) \/ CheckCounters(n) PROVE S!Next
    BY <2>9, SimpleRefines, SecMmioAssumption
  <2>10. CASE UNCHANGED vars
    BY <2>10 DEF vars
  <2> QED BY <2>1, <2>2, <2>3, <2>4, <2>5, <2>6, <2>7, <2>8, <2>9, <2>10 DEF Next
<1> QED BY <1>1, <1>2, Invariant, PTL DEF Spec, RegisterMap, S!Spec
=============================================================================
