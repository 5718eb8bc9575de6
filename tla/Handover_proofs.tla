-------------------------- MODULE Handover_proofs --------------------------
(***************************************************************************)
(* The inductive invariant of Handover, what the operators of Epmp compute *)
(* (a block that is described by its encoded address is recognised as that *)
(* block, whatever its place and size), and what can be reached in the     *)
(* states of the invariant.                                                *)
(***************************************************************************)
EXTENDS HandoverInv, WellFoundedInduction, SequenceTheorems, TLAPS

LessThan == {p \in Nat \X Nat : p[1] < p[2]}

LEMMA NatWellFounded == IsWellFoundedOn(LessThan, Nat)
BY NatLessThanWellFounded, Zenon DEF LessThan, OpToRel

\* The least number principle, from which inductions over the sizes of blocks
\* are made.
LEMMA LeastElement ==
  ASSUME NEW T \in SUBSET Nat, T # {}
  PROVE  \E x \in T : \A y \in T : x <= y
<1>1. \E x \in T : \A y \in T : ~(<<y, x>> \in LessThan)
  BY NatWellFounded, WFMin
<1>2. \A x, y \in T : ~(<<y, x>> \in LessThan) => x <= y
  BY DEF LessThan
<1> QED
  BY <1>1, <1>2

-----------------------------------------------------------------------------
(* Powers of two *)

IsPower(n) == n \in Nat \ {0} /\ \A d \in 2 .. n : n % d = 0 => d % 2 = 0

LEMMA Divides ==
  ASSUME NEW n \in Nat, NEW d \in Nat \ {0}
  PROVE  n % d = 0 <=> \E c \in Nat : n = c * d
<1>1. n = (n \div d) * d + (n % d) /\ n \div d \in Nat /\ n % d \in 0 .. d - 1
  OBVIOUS
<1>2. ASSUME NEW c \in Nat, n = c * d PROVE n % d = 0
  BY <1>2
<1>3. ASSUME n % d = 0 PROVE \E c \in Nat : n = c * d
  <2>1. n = (n \div d) * d
    BY <1>1, <1>3
  <2> QED
    BY <1>1, <2>1
<1> QED
  BY <1>2, <1>3

LEMMA HalfOfPower ==
  ASSUME NEW n \in Nat, IsPower(n), n > 1
  PROVE  n = 2 * (n \div 2) /\ IsPower(n \div 2) /\ n \div 2 \in Nat
<1> DEFINE m == n \div 2
<1>1. n % n = 0
  OBVIOUS
<1>2. n = 2 * m /\ m \in Nat \ {0}
  BY <1>1 DEF IsPower
<1>3. ASSUME NEW d \in 2 .. m, m % d = 0
      PROVE  d % 2 = 0
  <2>1. PICK c \in Nat : m = c * d
    BY <1>2, <1>3, Divides
  <2>2. n = (2 * c) * d
    BY <1>2, <2>1
  <2>3. n % d = 0
    BY <2>2, Divides
  <2> QED
    BY <1>2, <2>3 DEF IsPower
<1> QED
  BY <1>2, <1>3 DEF IsPower

\* A power of two divides the half of every larger one.
LEMMA PowersDivide ==
  ASSUME NEW p \in Nat, NEW q \in Nat, IsPower(p), IsPower(q), p < q
  PROVE  (q \div 2) % p = 0
<1> DEFINE Fails(r, s) == IsPower(r) /\ r < s /\ (s \div 2) % r # 0
           T == {s \in Nat : IsPower(s) /\ \E r \in Nat : Fails(r, s)}
<1>1. SUFFICES T = {}
  OBVIOUS
<1>2. SUFFICES ASSUME T # {} PROVE FALSE
  OBVIOUS
<1>3. PICK s \in T : \A t \in T : s <= t
  BY <1>2, LeastElement
<1>4. PICK r \in Nat : Fails(r, s)
  OBVIOUS
<1> DEFINE h == s \div 2
<1>5. s = 2 * h /\ IsPower(h) /\ h \in Nat
  <2>1. s \in Nat /\ IsPower(s) /\ s > 1
    BY <1>4 DEF IsPower
  <2> QED
    BY <2>1, HalfOfPower
<1>6. r # 0 /\ h # 0
  BY <1>4, <1>5 DEF IsPower
<1>7. \A t \in Nat : IsPower(t) /\ t < h => (h \div 2) % t = 0
  BY <1>3, <1>5, <1>6
<1> HIDE DEF T
<1>8. CASE r = h
  BY <1>4, <1>6, <1>8
<1>9. CASE r < h
  <2>1. h = 2 * (h \div 2) /\ h \div 2 \in Nat
    BY <1>5, <1>6, <1>9, HalfOfPower
  <2>2. PICK c \in Nat : h \div 2 = c * r
    BY <1>4, <1>6, <1>7, <1>9, <2>1, Divides
  <2>3. h = (2 * c) * r /\ 2 * c \in Nat
    BY <2>1, <2>2
  <2>4. h % r = 0
    BY <1>5, <1>6, <2>3, Divides
  <2> QED
    BY <1>4, <2>4
<1>10. CASE r > h
  <2> DEFINE g == r \div 2
  <2>1. r = 2 * g /\ IsPower(g) /\ g \in Nat
    BY <1>4, <1>6, <1>10, <1>5, HalfOfPower
  <2>2. g < h /\ g # 0
    BY <1>4, <1>5, <1>6, <2>1
  <2>3. h = 2 * (h \div 2) /\ h \div 2 \in Nat
    BY <1>5, <2>1, <2>2, HalfOfPower
  <2>4. PICK c \in Nat : h \div 2 = c * g
    BY <1>7, <2>1, <2>2, <2>3, Divides
  <2>5. c # 0
    BY <1>6, <2>1, <2>3, <2>4
  <2>6. c * g >= g
    BY <2>1, <2>5
  <2> QED
    BY <1>5, <1>10, <2>1, <2>3, <2>4, <2>6
<1> QED
  BY <1>4, <1>5, <1>8, <1>9, <1>10

-----------------------------------------------------------------------------
(* Blocks *)

LEMMA Division ==
  ASSUME NEW d \in Nat \ {0}, NEW c \in Nat, NEW e \in 0 .. d - 1
  PROVE  (c * d + e) % d = e /\ (c * d + e) \div d = c
OBVIOUS

LEMMA Quotient ==
  ASSUME NEW d \in Nat \ {0}, NEW n \in Nat
  PROVE  n = (n \div d) * d + (n % d) /\ n \div d \in Nat /\ n % d \in 0 .. d - 1
OBVIOUS

LEMMA OneLess ==
  ASSUME NEW d \in Nat \ {0}, NEW c \in Nat \ {0}
  PROVE  (c * d - 1) % d = d - 1
<1>1. c * d - 1 = (c - 1) * d + (d - 1)
  OBVIOUS
<1> QED
  BY <1>1, Division

LEMMA PowersOfTwoArePowers ==
  ASSUME NEW s \in PowersOfTwo
  PROVE  s \in Nat /\ IsPower(s) /\ s > 1 /\ s = 2 * (s \div 2) /\ s \div 2 \in Nat \ {0}
<1>1. s \in Nat /\ IsPower(s) /\ s > 1
  BY EpmpAssumption DEF PowersOfTwo, IsPower
<1> QED
  BY <1>1, HalfOfPower

\* The ones at the end of an encoded address give the size of the block, and no
\* other size.
LEMMA SpanOfEncoded ==
  ASSUME NEW r \in [start : Nat, end : Nat], Aligned(r)
  PROVE  Span(Encoded(r)) = Size(r)
<1> DEFINE s == Size(r)
           h == s \div 2
           v == r.start + (h - 1)
<1>1. s \in PowersOfTwo /\ r.start % s = 0
  BY DEF Aligned
<1>2. s \in Nat /\ IsPower(s) /\ s > 1 /\ s = 2 * h /\ h \in Nat \ {0}
  BY <1>1, PowersOfTwoArePowers
<1>3. PICK q \in Nat : r.start = q * s
  <2>1. r.start \in Nat /\ s \in Nat \ {0} /\ r.start % s = 0
    BY <1>1, <1>2
  <2> HIDE DEF s
  <2> QED
    BY <2>1, Divides
<1> HIDE DEF s, h
<1>4. v % s = h - 1
  <2>1. s \in Nat \ {0} /\ h - 1 \in 0 .. s - 1 /\ v = q * s + (h - 1)
    BY <1>2, <1>3
  <2> QED
    BY <2>1, Division
<1>5. ASSUME NEW t \in PowersOfTwo, v % t = t \div 2 - 1
      PROVE  t = s
  <2> DEFINE g == t \div 2
  <2>1. t \in Nat /\ IsPower(t) /\ t > 1 /\ t = 2 * g /\ g \in Nat \ {0}
    BY PowersOfTwoArePowers
  <2>2. v % t = g - 1
    BY <1>5
  <2> HIDE DEF g
  <2>3. CASE t < s
    <3>1. h % t = 0
      BY <1>2, <2>1, <2>3, PowersDivide DEF h
    <3>2. PICK c \in Nat : h = c * t
      <4>1. h \in Nat /\ t \in Nat \ {0}
        BY <1>2, <2>1
      <4> QED
        BY <3>1, <4>1, Divides
    <3>3. c # 0
      BY <1>2, <2>1, <3>2
    <3> DEFINE e == 2 * (q * c) + c
    <3>4. v = e * t - 1 /\ e \in Nat \ {0}
      <4>1. q * s = (2 * (q * c)) * t
        BY <1>2, <2>1, <3>2
      <4>2. e * t = (2 * (q * c)) * t + c * t
        BY <2>1
      <4> QED
        BY <1>2, <1>3, <3>2, <3>3, <4>1, <4>2
    <3>5. v % t = t - 1
      BY <2>1, <3>4, OneLess
    <3> QED
      BY <2>1, <2>2, <3>5
  <2>4. CASE t > s
    <3>1. g % s = 0
      BY <1>2, <2>1, <2>4, PowersDivide DEF g
    <3>2. PICK c \in Nat : g = c * s
      <4>1. g \in Nat /\ s \in Nat \ {0}
        BY <1>2, <2>1
      <4> QED
        BY <3>1, <4>1, Divides
    <3>3. c # 0
      BY <1>2, <2>1, <3>2
    <3>4. PICK w \in Nat : v = w * t + (g - 1)
      <4>1. v \in Nat
        BY <1>2
      <4> HIDE DEF v
      <4>2. t \in Nat \ {0}
        BY <2>1
      <4>3. v = (v \div t) * t + (v % t) /\ v \div t \in Nat
        BY <4>1, <4>2, Quotient
      <4> QED
        BY <2>2, <4>3
    <3> DEFINE e == 2 * (w * c) + c
    <3>5. v = e * s - 1 /\ e \in Nat \ {0}
      <4>1. w * t = (2 * (w * c)) * s
        BY <1>2, <2>1, <3>2
      <4>2. e * s = (2 * (w * c)) * s + c * s
        BY <1>2
      <4> QED
        BY <1>2, <2>1, <3>2, <3>3, <3>4, <4>1, <4>2
    <3>6. v % s = s - 1
      <4>1. s \in Nat \ {0}
        BY <1>2
      <4> HIDE DEF e, v
      <4> QED
        BY <3>5, <4>1, OneLess
    <3> QED
      BY <1>2, <1>4, <3>6
  <2> QED
    BY <1>2, <2>1, <2>3, <2>4
<1>6. Span(v) = s
  BY <1>1, <1>4, <1>5 DEF Span, s, h
<1> QED
  BY <1>6 DEF Encoded, s, h

\* An encoded address matches the addresses of its block and no others.
THEOREM BlockOfEncoded ==
  ASSUME NEW r \in [start : Nat, end : Nat], Aligned(r), NEW a \in Nat
  PROVE  SameBlock(Encoded(r), a) <=> a \in In(r)
<1> DEFINE s == Size(r)
           h == s \div 2
<1>1. s \in PowersOfTwo /\ r.start % s = 0
  BY DEF Aligned
<1>2. s \in Nat /\ s > 1 /\ s = 2 * h /\ h \in Nat \ {0}
  BY <1>1, PowersOfTwoArePowers
<1>3. PICK q \in Nat : r.start = q * s
  <2>1. r.start \in Nat /\ s \in Nat \ {0} /\ r.start % s = 0
    BY <1>1, <1>2
  <2> HIDE DEF s
  <2> QED
    BY <2>1, Divides
<1>4. r.end = q * s + s
  BY <1>3 DEF Size
<1> HIDE DEF s, h
<1>5. (r.start + (h - 1)) \div s = q
  <2>1. s \in Nat \ {0} /\ h - 1 \in 0 .. s - 1 /\ r.start + (h - 1) = q * s + (h - 1)
    BY <1>2, <1>3
  <2> QED
    BY <2>1, Division
<1>6. a = (a \div s) * s + (a % s) /\ a \div s \in Nat /\ a % s \in 0 .. s - 1
  BY <1>2
<1>7. a \div s = q => q * s <= a /\ a < q * s + s
  BY <1>2, <1>6
<1>8. ASSUME q * s <= a, a < q * s + s PROVE a \div s = q
  <2>1. a = q * s + (a - q * s) /\ a - q * s \in 0 .. s - 1
    BY <1>2, <1>8
  <2> QED
    BY <1>2, <2>1, Division
<1>9. a \in In(r) <=> q * s <= a /\ a < q * s + s
  BY <1>2, <1>3, <1>4 DEF In
<1> QED
  BY <1>5, <1>7, <1>8, <1>9, SpanOfEncoded DEF SameBlock, Encoded, s, h

\* The offset in its block of an address of the block.
LEMMA OffsetInBlock ==
  ASSUME NEW r \in [start : Nat, end : Nat], Aligned(r), NEW a \in In(r)
  PROVE  a % Span(Encoded(r)) = a - r.start
<1> DEFINE s == Size(r)
<1>1. s \in Nat \ {0} /\ r.start % s = 0
  BY PowersOfTwoArePowers DEF Aligned
<1>2. PICK q \in Nat : r.start = q * s
  <2>1. r.start \in Nat /\ s \in Nat \ {0} /\ r.start % s = 0
    BY <1>1
  <2> HIDE DEF s
  <2> QED
    BY <2>1, Divides
<1>3. a = q * s + (a - r.start) /\ a - r.start \in 0 .. s - 1
  BY <1>1, <1>2 DEF In, Size
<1> HIDE DEF s
<1>4. a % s = a - r.start
  <2> DEFINE e == a - r.start
  <2>1. s \in Nat \ {0} /\ e \in 0 .. s - 1 /\ a = q * s + e
    BY <1>1, <1>3
  <2> HIDE DEF e
  <2>2. a % s = e
    BY <2>1, Division
  <2> QED
    BY <2>2 DEF e
<1> QED
  BY <1>4, SpanOfEncoded DEF s

LEMMA EncodedInside ==
  ASSUME NEW r \in [start : Nat, end : Nat], Aligned(r)
  PROVE  Encoded(r) \in In(r)
<1> DEFINE h == Size(r) \div 2
<1>1. Size(r) = 2 * h /\ h \in Nat \ {0}
  BY PowersOfTwoArePowers DEF Aligned
<1> HIDE DEF h
<1>2. r.end - r.start = 2 * h
  BY <1>1 DEF Size
<1> QED
  BY <1>1, <1>2 DEF Encoded, In, h

-----------------------------------------------------------------------------
AddrType == [Entries -> 0 .. AddressEnd]
CfgType  == [Entries -> SUBSET Bits]

-----------------------------------------------------------------------------
(* The memory map *)

LEMMA MapTypes ==
  /\ {Rom, DebugRom, Mmio, Ram, Flash, RomExtVirtual, OwnerVirtual, ResetText, RomText,
      ResetMmio} \subseteq Regions
  /\ Guard \in Address
<1>1. /\ MemoryMap[1] = Rom /\ MemoryMap[2] = DebugRom /\ MemoryMap[3] = Mmio
      /\ MemoryMap[4] = Ram /\ MemoryMap[5] = Flash /\ MemoryMap[6] = RomExtVirtual
      /\ MemoryMap[7] = OwnerVirtual
  BY DEF MemoryMap
<1>2. MemoryMap \in [1 .. 7 -> Regions]
  BY HandoverAssumption
<1>3. {Rom, DebugRom, Mmio, Ram, Flash, RomExtVirtual, OwnerVirtual} \subseteq Regions
  BY <1>1, <1>2
<1>4. {ResetText, RomText, ResetMmio} \subseteq Regions /\ Guard \in In(Ram)
  BY HandoverAssumption
<1>5. Guard \in Address
  BY <1>3, <1>4, EpmpAssumption DEF Regions, Address, In
<1> QED
  BY <1>3, <1>4, <1>5

\* The regions of the memory map have no address in common.
LEMMA MapDisjoint ==
  ASSUME NEW a \in Int
  PROVE  /\ a \in In(Rom) => a \notin In(DebugRom) /\ a \notin In(Mmio) /\ a \notin In(Ram)
                          /\ a \notin In(Flash) /\ a \notin In(RomExtVirtual)
                          /\ a \notin In(OwnerVirtual)
         /\ a \in In(DebugRom) => a \notin In(Mmio) /\ a \notin In(Ram) /\ a \notin In(Flash)
                               /\ a \notin In(RomExtVirtual) /\ a \notin In(OwnerVirtual)
         /\ a \in In(Mmio) => a \notin In(Ram) /\ a \notin In(Flash)
                           /\ a \notin In(RomExtVirtual) /\ a \notin In(OwnerVirtual)
         /\ a \in In(Ram) => a \notin In(Flash) /\ a \notin In(RomExtVirtual)
                          /\ a \notin In(OwnerVirtual)
         /\ a \in In(Flash) => a \notin In(RomExtVirtual) /\ a \notin In(OwnerVirtual)
         /\ a \in In(RomExtVirtual) => a \notin In(OwnerVirtual)
<1> DEFINE Off(r, s) == r.end <= s.start \/ s.end <= r.start
<1>1. ASSUME NEW r \in Regions, NEW s \in Regions, Off(r, s), a \in In(r)
      PROVE  a \notin In(s)
  BY <1>1 DEF Regions, In, Address
<1>2. \A i, j \in 1 .. 7 : i # j => Off(MemoryMap[i], MemoryMap[j])
  BY HandoverAssumption
<1>3. /\ MemoryMap[1] = Rom /\ MemoryMap[2] = DebugRom /\ MemoryMap[3] = Mmio
      /\ MemoryMap[4] = Ram /\ MemoryMap[5] = Flash /\ MemoryMap[6] = RomExtVirtual
      /\ MemoryMap[7] = OwnerVirtual
  BY DEF MemoryMap
<1> HIDE DEF Off
<1>4. /\ Off(Rom, DebugRom) /\ Off(Rom, Mmio) /\ Off(Rom, Ram) /\ Off(Rom, Flash)
      /\ Off(Rom, RomExtVirtual) /\ Off(Rom, OwnerVirtual)
  BY <1>2, <1>3
<1>5. /\ Off(DebugRom, Mmio) /\ Off(DebugRom, Ram) /\ Off(DebugRom, Flash)
      /\ Off(DebugRom, RomExtVirtual) /\ Off(DebugRom, OwnerVirtual)
  BY <1>2, <1>3
<1>6. /\ Off(Mmio, Ram) /\ Off(Mmio, Flash) /\ Off(Mmio, RomExtVirtual)
      /\ Off(Mmio, OwnerVirtual)
  BY <1>2, <1>3
<1>7. /\ Off(Ram, Flash) /\ Off(Ram, RomExtVirtual) /\ Off(Ram, OwnerVirtual)
      /\ Off(Flash, RomExtVirtual) /\ Off(Flash, OwnerVirtual)
      /\ Off(RomExtVirtual, OwnerVirtual)
  BY <1>2, <1>3
<1> QED
  BY <1>1, <1>4, <1>5, <1>6, <1>7, MapTypes

LEMMA RegionBounds ==
  ASSUME NEW r \in Regions
  PROVE  /\ r \in [start : Nat, end : Nat]
         /\ r.start \in 0 .. AddressEnd /\ r.end \in 0 .. AddressEnd
         /\ In(r) \subseteq Address
BY EpmpAssumption DEF Regions, Address, In

LEMMA AlignedRegions ==
  ASSUME NEW r \in {ResetText, Rom, DebugRom, Ram, Flash, RomExtVirtual, OwnerVirtual}
  PROVE  /\ Aligned(r) /\ Encoded(r) \in Address /\ Encoded(r) \in 0 .. AddressEnd
         /\ r \in Regions
<1>1. Aligned(r)
  BY HandoverAssumption
<1>2. r \in Regions
  BY MapTypes
<1>3. Encoded(r) \in In(r)
  BY <1>1, <1>2, RegionBounds, EncodedInside
<1> QED
  BY <1>1, <1>2, <1>3, RegionBounds, EpmpAssumption DEF Address

\* The two banks.
LEMMA Banks ==
  /\ Size(Flash) = 2 * (Size(Flash) \div 2) /\ Size(Flash) \div 2 \in Nat \ {0}
  /\ \A s \in Slots :
       /\ Bank(s) \in Address
       /\ Flash.start <= Bank(s) /\ Bank(s) + (Size(Flash) \div 2) <= Flash.end
<1> DEFINE h == Size(Flash) \div 2
<1>1. Size(Flash) = 2 * h /\ h \in Nat \ {0}
  BY AlignedRegions, PowersOfTwoArePowers DEF Aligned
<1> HIDE DEF h
<1>2. Flash.end - Flash.start = 2 * h
  BY <1>1 DEF Size
<1>3. Flash.start \in 0 .. AddressEnd - 1 /\ Flash.end \in 0 .. AddressEnd
  BY MapTypes DEF Regions, Address
<1>4. ASSUME NEW s \in Slots
      PROVE  /\ Bank(s) \in Address
             /\ Flash.start <= Bank(s) /\ Bank(s) + h <= Flash.end
  <2>1. Bank(s) = Flash.start + (IF s = "A" THEN 0 ELSE h)
    BY DEF Bank, h
  <2> QED
    BY <1>1, <1>2, <1>3, <2>1, EpmpAssumption DEF Address
<1> QED
  BY <1>1, <1>4 DEF h

LEMMA Sizes ==
  /\ RomExtSizeMax \in Nat /\ OwnerSizeMax \in Nat
  /\ RomExtVirtual.start + RomExtSizeMax <= RomExtVirtual.end
  /\ RomExtSizeMax + OwnerSizeMax <= Size(Flash) \div 2
  /\ OwnerVirtual.start + (RomExtSizeMax + OwnerSizeMax) <= OwnerVirtual.end
  /\ OwnerVirtual.end - OwnerVirtual.start <= Flash.end - Flash.start
  /\ RomExtVirtual.end - RomExtVirtual.start <= Size(Flash) \div 2
<1>1. /\ RomExtSizeMax \in Nat /\ OwnerSizeMax \in Nat
      /\ RomExtSizeMax <= Size(RomExtVirtual) /\ Size(RomExtVirtual) <= Size(Flash) \div 2
      /\ RomExtSizeMax + OwnerSizeMax <= Size(Flash) \div 2
      /\ RomExtSizeMax + OwnerSizeMax <= Size(OwnerVirtual) /\ Size(OwnerVirtual) <= Size(Flash)
  BY HandoverAssumption
<1>2. /\ Size(RomExtVirtual) = RomExtVirtual.end - RomExtVirtual.start
      /\ Size(OwnerVirtual) = OwnerVirtual.end - OwnerVirtual.start
      /\ Size(Flash) = Flash.end - Flash.start
  BY DEF Size
<1>3. {RomExtVirtual, OwnerVirtual, Flash} \subseteq [start : Nat, end : Nat]
  BY MapTypes, RegionBounds
<1> HIDE DEF Size
<1> QED
  BY <1>1, <1>2, <1>3

-----------------------------------------------------------------------------
(* Images *)

ImageType == [code : [start : Nat, end : Nat], entry : Nat, translated : BOOLEAN,
              version : Nat, good : BOOLEAN]

\* Where the code of a ROM_EXT that passed the checks is executed, and where it is.
LEMMA RomExtRegion ==
  ASSUME NEW x, x.slot \in Slots, x.image \in Images, ManifestCheck(x.image, RomExtSizeMax)
  PROVE  LET r == Moved(x.image, RomExtBase(x))
         IN  /\ r.start \in 0 .. AddressEnd /\ r.end \in 0 .. AddressEnd
             /\ IF x.image.translated THEN Within(r, RomExtVirtual) ELSE Within(r, Flash)
             /\ RomExtBase(x) + x.image.entry \in In(r)
             /\ RomExtAt(x.slot) \in Address
             /\ Within(Moved(x.image, RomExtAt(x.slot)), Flash)
             /\ RomExtBase(x) \in Nat /\ RomExtBase(x) + x.image.code.end <= AddressEnd
<1> DEFINE im == x.image
           b == RomExtBase(x)
           h == Size(Flash) \div 2
<1>1. im \in ImageType /\ im.code \in [start : Nat, end : Nat] /\ im.entry \in Nat
  BY HandoverAssumption DEF ImageType
<1>2. im.code.start < im.code.end /\ im.code.end <= RomExtSizeMax
      /\ im.code.start <= im.entry /\ im.entry < im.code.end
  BY <1>1 DEF ManifestCheck, In
<1>3. Moved(im, b).start = b + im.code.start /\ Moved(im, b).end = b + im.code.end
  BY DEF Moved
<1>4. /\ RomExtAt(x.slot) \in Address /\ Flash.start <= RomExtAt(x.slot)
      /\ RomExtAt(x.slot) + h <= Flash.end /\ h \in Nat /\ RomExtSizeMax <= h
  <2> HIDE DEF h
  <2> QED
    BY Banks, Sizes DEF RomExtAt, h
<1> HIDE DEF h
<1>5. b = IF im.translated THEN RomExtVirtual.start ELSE RomExtAt(x.slot)
  BY DEF RomExtBase
<1>6. /\ RomExtVirtual.start \in 0 .. AddressEnd /\ RomExtVirtual.end \in 0 .. AddressEnd
      /\ Flash.start \in 0 .. AddressEnd /\ Flash.end \in 0 .. AddressEnd
  BY MapTypes, RegionBounds
<1>7. Within(Moved(im, RomExtAt(x.slot)), Flash)
  BY <1>1, <1>2, <1>4, <1>6, Sizes, EpmpAssumption DEF Moved, Within, Address
<1> HIDE DEF b, im
<1>8. b \in Nat /\ b + RomExtSizeMax <= AddressEnd
  <2>1. CASE im.translated
    BY <1>5, <1>6, <2>1, Sizes, EpmpAssumption
  <2>2. CASE ~im.translated
    <3>1. b = RomExtAt(x.slot) /\ b \in Nat
      BY <1>4, <1>5, <2>2, EpmpAssumption DEF Address
    <3> HIDE DEF RomExtAt
    <3> QED
      BY <1>4, <1>6, <3>1, Sizes, EpmpAssumption
  <2> QED
    BY <2>1, <2>2
<1>9. RomExtBase(x) + x.image.entry \in In(Moved(im, b))
  BY <1>1, <1>2, <1>3, <1>8, Sizes DEF In, b, im
<1>10. IF im.translated THEN Within(Moved(im, b), RomExtVirtual) ELSE Within(Moved(im, b), Flash)
  BY <1>1, <1>2, <1>3, <1>4, <1>5, <1>6, Sizes DEF Within, Address
<1>11. Moved(im, b).start \in 0 .. AddressEnd /\ Moved(im, b).end \in 0 .. AddressEnd
       /\ b + im.code.end <= AddressEnd
  BY <1>1, <1>2, <1>3, <1>8, Sizes, EpmpAssumption
<1> QED
  BY <1>4, <1>7, <1>8, <1>9, <1>10, <1>11 DEF b, im

LEMMA OwnerRegion ==
  ASSUME NEW s \in Slots, owners[s] \in Images, ManifestCheck(owners[s], OwnerSizeMax)
  PROVE  LET r == Moved(owners[s], OwnerBase(s))
         IN  /\ r.start \in 0 .. AddressEnd /\ r.end \in 0 .. AddressEnd
             /\ IF owners[s].translated THEN Within(r, OwnerVirtual) ELSE Within(r, Flash)
<1> DEFINE im == owners[s]
           b == OwnerBase(s)
           h == Size(Flash) \div 2
<1>1. im \in ImageType /\ im.code \in [start : Nat, end : Nat]
  BY HandoverAssumption DEF ImageType
<1>2. im.code.start < im.code.end /\ im.code.end <= OwnerSizeMax
  BY DEF ManifestCheck
<1>3. Moved(im, b).start = b + im.code.start /\ Moved(im, b).end = b + im.code.end
  BY DEF Moved
<1>4. /\ Bank(s) \in Nat /\ Flash.start <= Bank(s)
      /\ Bank(s) + h <= Flash.end /\ h \in Nat /\ RomExtSizeMax + OwnerSizeMax <= h
  <2> HIDE DEF h
  <2> QED
    BY Banks, Sizes, EpmpAssumption DEF Address, h
<1> HIDE DEF h
<1>5. b = IF im.translated THEN OwnerVirtual.start + RomExtSizeMax ELSE Bank(s) + RomExtSizeMax
  BY DEF OwnerBase, OwnerAt
<1>6. /\ OwnerVirtual.start \in 0 .. AddressEnd /\ OwnerVirtual.end \in 0 .. AddressEnd
      /\ Flash.start \in 0 .. AddressEnd /\ Flash.end \in 0 .. AddressEnd
  BY MapTypes, RegionBounds
<1> HIDE DEF b, im
<1>7. CASE im.translated
  <2>1. b = OwnerVirtual.start + RomExtSizeMax
    BY <1>5, <1>7
  <2>2. /\ OwnerVirtual.start <= b + im.code.start /\ b + im.code.end <= OwnerVirtual.end
        /\ b + im.code.start \in 0 .. AddressEnd /\ b + im.code.end \in 0 .. AddressEnd
    BY <1>1, <1>2, <1>6, <2>1, Sizes, EpmpAssumption
  <2> QED
    BY <1>3, <1>7, <2>2 DEF Within, b, im
<1>8. CASE ~im.translated
  <2>1. b = Bank(s) + RomExtSizeMax
    BY <1>5, <1>8
  <2>2. /\ Flash.start <= b + im.code.start /\ b + im.code.end <= Flash.end
        /\ b + im.code.start \in 0 .. AddressEnd /\ b + im.code.end \in 0 .. AddressEnd
    BY <1>1, <1>2, <1>4, <1>6, <2>1, Sizes, EpmpAssumption
  <2> QED
    BY <1>3, <1>8, <2>2 DEF Within, b, im
<1> QED
  BY <1>7, <1>8

-----------------------------------------------------------------------------
(* Single register writes *)

LEMMA WritesAddr ==
  ASSUME NEW i, NEW v, Write, Head(ops) = AddrWrite(i, v)
  PROVE  /\ pmpaddr' = [pmpaddr EXCEPT ![i] = v]
         /\ pmpcfg' = pmpcfg /\ remap' = remap /\ ops' = Tail(ops)
BY DEF Write, AddrWrite

LEMMA WritesCfg ==
  ASSUME NEW f, Write, Head(ops) = CfgWrite(f)
  PROVE  /\ pmpcfg' = [i \in Entries |-> IF i \in DOMAIN f THEN f[i] ELSE pmpcfg[i]]
         /\ pmpaddr' = pmpaddr /\ remap' = remap /\ ops' = Tail(ops)
BY DEF Write, CfgWrite

LEMMA WritesClear ==
  ASSUME NEW i \in Entries, pmpcfg \in CfgType, Write, Head(ops) = ClearBits(i)
  PROVE  /\ pmpcfg' = [pmpcfg EXCEPT ![i] = {}]
         /\ pmpaddr' = pmpaddr /\ remap' = remap /\ ops' = Tail(ops)
<1> DEFINE f == [j \in {i} |-> {}]
<1>1. Head(ops) = CfgWrite(f)
  BY DEF ClearBits
<1>2. /\ pmpcfg' = [k \in Entries |-> IF k \in DOMAIN f THEN f[k] ELSE pmpcfg[k]]
      /\ pmpaddr' = pmpaddr /\ remap' = remap /\ ops' = Tail(ops)
  <2> HIDE DEF f
  <2> QED
    BY <1>1, WritesCfg
<1> QED
  BY <1>2 DEF CfgType

LEMMA WritesSet ==
  ASSUME NEW i, NEW bits, Write, Head(ops) = SetBits(i, bits)
  PROVE  /\ pmpcfg' = [pmpcfg EXCEPT ![i] = @ \cup bits]
         /\ pmpaddr' = pmpaddr /\ remap' = remap /\ ops' = Tail(ops)
BY DEF Write, SetBits

-----------------------------------------------------------------------------
(* Calls *)

\* Entries other than those of S, and the address translation, stay as they are.
Apart(S) ==
  /\ \A j \in Entries \ S : pmpaddr'[j] = pmpaddr[j] /\ pmpcfg'[j] = pmpcfg[j]
  /\ pmpaddr' \in AddrType /\ pmpcfg' \in CfgType /\ remap' = remap

LEMMA NapotStep ==
  ASSUME NEW CONSTANT i \in Entries, NEW CONSTANT region, NEW CONSTANT perm \in SUBSET Bits,
         NEW CONSTANT old,
         Encoded(region) \in 0 .. AddressEnd, pmpaddr \in AddrType, pmpcfg \in CfgType,
         OpeningNapot(i, region, perm, old), Write
  PROVE  /\ OpeningNapot(i, region, perm, old)'
         /\ Apart({i}) /\ ops # <<>>
         /\ pmpaddr'[i] \in {pmpaddr[i], Encoded(region)}
<1> USE DEF OpeningNapot, OpenNapot, AddrType, CfgType, Apart
<1>1. ops # <<>>
  BY DEF Write
<1>2. CASE ops = OpenNapot(i, region, perm) /\ pmpcfg[i] = old
  <2>1. Head(ops) = AddrWrite(i, Encoded(region))
        /\ Tail(ops) = <<ClearBits(i), SetBits(i, Napot \cup perm)>>
    BY <1>2
  <2> QED
    BY <1>1, <1>2, <2>1, WritesAddr
<1>3. CASE /\ ops = <<ClearBits(i), SetBits(i, Napot \cup perm)>>
           /\ pmpcfg[i] = old /\ pmpaddr[i] = Encoded(region)
  <2>1. Head(ops) = ClearBits(i) /\ Tail(ops) = <<SetBits(i, Napot \cup perm)>>
    BY <1>3
  <2> QED
    BY <1>1, <1>3, <2>1, WritesClear DEF Shut
<1>4. CASE /\ ops = <<SetBits(i, Napot \cup perm)>>
           /\ Shut(i) /\ pmpaddr[i] = Encoded(region)
  <2>1. Head(ops) = SetBits(i, Napot \cup perm) /\ Tail(ops) = <<>>
    BY <1>4
  <2>2. Napot \cup perm \in SUBSET Bits
    BY DEF Napot, Bits
  <2> QED
    BY <1>1, <1>4, <2>1, <2>2, WritesSet DEF Shut, OpenedNapot
<1> QED
  BY <1>1, <1>2, <1>3, <1>4

LEMMA TorStep ==
  ASSUME NEW CONSTANT i \in 1 .. 15, NEW CONSTANT region, NEW CONSTANT perm \in SUBSET Bits,
         region.start \in 0 .. AddressEnd, region.end \in 0 .. AddressEnd,
         pmpaddr \in AddrType, pmpcfg \in CfgType,
         OpeningTor(i, region, perm), Write
  PROVE  /\ OpeningTor(i, region, perm)'
         /\ Apart({i - 1, i}) /\ pmpcfg'[i - 1] = pmpcfg[i - 1] /\ ops # <<>>
<1>1. ops # <<>> /\ i \in Entries /\ i - 1 \in Entries /\ i - 1 # i
  BY DEF Write, Entries
<1> USE DEF OpeningTor, OpenTor, AddrType, CfgType, Apart
<1>2. CASE ops = OpenTor(i, region, perm) /\ Shut(i)
  <2>1. Head(ops) = AddrWrite(i - 1, region.start)
        /\ Tail(ops) = <<AddrWrite(i, region.end), ClearBits(i), SetBits(i, Tor \cup perm)>>
    BY <1>2
  <2> QED
    BY <1>1, <1>2, <2>1, WritesAddr DEF Shut
<1>3. CASE /\ ops = <<AddrWrite(i, region.end), ClearBits(i), SetBits(i, Tor \cup perm)>>
           /\ Shut(i) /\ pmpaddr[i - 1] = region.start
  <2>1. Head(ops) = AddrWrite(i, region.end)
        /\ Tail(ops) = <<ClearBits(i), SetBits(i, Tor \cup perm)>>
    BY <1>3
  <2> QED
    BY <1>1, <1>3, <2>1, WritesAddr DEF Shut
<1>4. CASE /\ ops = <<ClearBits(i), SetBits(i, Tor \cup perm)>>
           /\ Shut(i) /\ pmpaddr[i - 1] = region.start /\ pmpaddr[i] = region.end
  <2>1. Head(ops) = ClearBits(i) /\ Tail(ops) = <<SetBits(i, Tor \cup perm)>>
    BY <1>4
  <2> QED
    BY <1>1, <1>4, <2>1, WritesClear DEF Shut
<1>5. CASE /\ ops = <<SetBits(i, Tor \cup perm)>>
           /\ Shut(i) /\ pmpaddr[i - 1] = region.start /\ pmpaddr[i] = region.end
  <2>1. Head(ops) = SetBits(i, Tor \cup perm) /\ Tail(ops) = <<>>
    BY <1>5
  <2>2. Tor \cup perm \in SUBSET Bits
    BY DEF Tor, Bits
  <2> QED
    BY <1>1, <1>5, <2>1, <2>2, WritesSet DEF Shut, OpenedTor
<1> QED
  BY <1>1, <1>2, <1>3, <1>4, <1>5

RemapType == [{0, 1} -> [en : BOOLEAN, match : Address, to : Address]]

LEMMA RemapStep ==
  ASSUME NEW CONSTANT k \in {0, 1}, NEW CONSTANT region, NEW CONSTANT to \in Address,
         Encoded(region) \in Address, remap \in RemapType,
         Mapping(k, region, to), Write
  PROVE  /\ Mapping(k, region, to)'
         /\ remap' \in RemapType /\ \A j \in {0, 1} \ {k} : remap'[j] = remap[j]
         /\ pmpaddr' = pmpaddr /\ pmpcfg' = pmpcfg /\ ops # <<>>
<1> DEFINE m == RemapWrite(k, "match", Encoded(region))
           t == RemapWrite(k, "to", to)
           e == RemapWrite(k, "en", TRUE)
<1>1. ops # <<>>
  BY DEF Write
<1>2. ASSUME Head(ops) = m
      PROVE  /\ remap' = [remap EXCEPT ![k] = [@ EXCEPT !.match = Encoded(region)]]
             /\ pmpaddr' = pmpaddr /\ pmpcfg' = pmpcfg /\ ops' = Tail(ops)
  BY <1>2 DEF Write, RemapWrite
<1>3. ASSUME Head(ops) = t
      PROVE  /\ remap' = [remap EXCEPT ![k] = [@ EXCEPT !.to = to]]
             /\ pmpaddr' = pmpaddr /\ pmpcfg' = pmpcfg /\ ops' = Tail(ops)
  BY <1>3 DEF Write, RemapWrite
<1>4. ASSUME Head(ops) = e
      PROVE  /\ remap' = [remap EXCEPT ![k] = [@ EXCEPT !.en = TRUE]]
             /\ pmpaddr' = pmpaddr /\ pmpcfg' = pmpcfg /\ ops' = Tail(ops)
  BY <1>4 DEF Write, RemapWrite
<1> HIDE DEF m, t, e
<1>5. Mapping(k, region, to) =
        \/ ops = <<m, t, e>> /\ ~remap[k].en
        \/ ops = <<t, e>> /\ ~remap[k].en /\ remap[k].match = Encoded(region)
        \/ ops = <<e>> /\ ~remap[k].en /\ remap[k].match = Encoded(region) /\ remap[k].to = to
        \/ ops = <<>> /\ Mapped(k, region, to)
  BY Zenon DEF Mapping, RemapSet, m, t, e
<1>6. Mapping(k, region, to)' =
        \/ ops' = <<m, t, e>> /\ ~remap'[k].en
        \/ ops' = <<t, e>> /\ ~remap'[k].en /\ remap'[k].match = Encoded(region)
        \/ ops' = <<e>> /\ ~remap'[k].en /\ remap'[k].match = Encoded(region) /\ remap'[k].to = to
        \/ ops' = <<>> /\ Mapped(k, region, to)'
  BY Zenon DEF Mapping, RemapSet, m, t, e
<1>7. CASE ops = <<m, t, e>> /\ ~remap[k].en
  <2>1. Head(ops) = m /\ Tail(ops) = <<t, e>>
    BY <1>7
  <2> QED
    BY <1>1, <1>2, <1>6, <1>7, <2>1 DEF RemapType
<1>8. CASE ops = <<t, e>> /\ ~remap[k].en /\ remap[k].match = Encoded(region)
  <2>1. Head(ops) = t /\ Tail(ops) = <<e>>
    BY <1>8
  <2> QED
    BY <1>1, <1>3, <1>6, <1>8, <2>1 DEF RemapType
<1>9. CASE /\ ops = <<e>>
           /\ ~remap[k].en /\ remap[k].match = Encoded(region) /\ remap[k].to = to
  <2>1. Head(ops) = e /\ Tail(ops) = <<>>
    BY <1>9
  <2>2. /\ remap' = [remap EXCEPT ![k] = [@ EXCEPT !.en = TRUE]]
        /\ pmpaddr' = pmpaddr /\ pmpcfg' = pmpcfg /\ ops' = Tail(ops)
    BY <1>4, <2>1
  <2>3. /\ remap'[k] = [en |-> TRUE, match |-> Encoded(region), to |-> to]
        /\ remap' \in RemapType /\ \A j \in {0, 1} \ {k} : remap'[j] = remap[j]
    BY <1>9, <2>2 DEF RemapType
  <2> QED
    BY <1>1, <1>6, <2>1, <2>2, <2>3 DEF Mapped
<1> QED
  BY <1>1, <1>5, <1>7, <1>8, <1>9

-----------------------------------------------------------------------------
(* The register writes of rom_epmp_init *)

LEMMA InitOpsAre ==
  /\ Len(InitOps) = 15 /\ Len(InitAddrs) = 11 /\ Len(InitCfgs) = 4
  /\ \E S : InitOps \in Seq(S)
  /\ \A k \in 1 .. 11 : InitOps[k] = InitAddrs[k]
  /\ \A k \in 12 .. 15 : InitOps[k] = InitCfgs[k - 11]
<1> DEFINE S == {InitAddrs[k] : k \in 1 .. 11} \cup {InitCfgs[k] : k \in 1 .. 4}
<1>1. Len(InitAddrs) = 11 /\ InitAddrs \in Seq({InitAddrs[k] : k \in 1 .. 11})
  BY DEF InitAddrs
<1>2. Len(InitCfgs) = 4 /\ InitCfgs \in Seq({InitCfgs[k] : k \in 1 .. 4})
  <2>1. \A a, b, c, d : Len(<<a, b, c, d>>) = 4
                        /\ <<a, b, c, d>> \in Seq({<<a, b, c, d>>[k] : k \in 1 .. 4})
    OBVIOUS
  <2>2. \E a, b, c, d : InitCfgs = <<a, b, c, d>>
    BY Zenon DEF InitCfgs
  <2> QED
    BY <2>1, <2>2
<1>3. InitAddrs \in Seq(S) /\ InitCfgs \in Seq(S)
  <2>1. {InitAddrs[k] : k \in 1 .. 11} \subseteq S /\ {InitCfgs[k] : k \in 1 .. 4} \subseteq S
    OBVIOUS
  <2>2. \A T, U : T \subseteq U => Seq(T) \subseteq Seq(U)
    OBVIOUS
  <2> QED
    BY <1>1, <1>2, <2>1, <2>2
<1> HIDE DEF S
<1>4. /\ InitOps \in Seq(S) /\ Len(InitOps) = 15
      /\ \A k \in 1 .. 15 : InitOps[k] = IF k <= 11 THEN InitAddrs[k] ELSE InitCfgs[k - 11]
  <2>1. /\ InitOps \in Seq(S) /\ Len(InitOps) = Len(InitAddrs) + Len(InitCfgs)
        /\ \A k \in 1 .. Len(InitAddrs) + Len(InitCfgs) :
             InitOps[k] = IF k <= Len(InitAddrs) THEN InitAddrs[k] ELSE InitCfgs[k - Len(InitAddrs)]
    BY <1>3, ConcatProperties, Zenon DEF InitOps
  <2> QED
    BY <1>1, <1>2, <2>1
<1> QED
  BY <1>1, <1>2, <1>4

\* What is left of a sequence but for its first n elements.
LEMMA RestOf ==
  ASSUME NEW S, NEW s \in Seq(S), NEW n \in 0 .. Len(s),
         NEW r, r = SubSeq(s, n + 1, Len(s))
  PROVE  /\ r \in Seq(S) /\ Len(r) = Len(s) - n
         /\ r # <<>> => /\ n < Len(s) /\ Head(r) = s[n + 1]
                        /\ Tail(r) = SubSeq(s, n + 2, Len(s))
<1>1. r \in Seq(S) /\ Len(r) = Len(s) - n
  <2>1. \A i \in n + 1 .. Len(s) : s[i] \in S
    OBVIOUS
  <2> QED
    BY <2>1, SubSeqProperties
<1>2. CASE n = Len(s)
  BY <1>1, <1>2
<1>3. CASE n < Len(s)
  <2>1. n + 1 \in 1 .. Len(s) /\ Len(s) \in n + 1 .. Len(s)
    BY <1>3
  <2>2. Head(r) = s[n + 1] /\ Tail(r) = SubSeq(s, (n + 1) + 1, Len(s))
    BY <2>1, HeadTailOfSubSeq
  <2> QED
    BY <1>1, <1>3, <2>2
<1> QED
  BY <1>2, <1>3

LEMMA InitAddrAt ==
  ASSUME NEW n \in 1 .. 11
  PROVE  \E j \in Entries : /\ InitOps[n] = AddrWrite(j, HomeAddr[j])
                            /\ \A i \in Entries : Position(i) = n <=> i = j
<1>1. InitOps[n] = InitAddrs[n]
  BY InitOpsAre
<1>2. /\ InitAddrs[1] = AddrWrite(0, RomText.start) /\ InitAddrs[2] = AddrWrite(1, RomText.end)
      /\ InitAddrs[3] = AddrWrite(2, Encoded(Rom)) /\ InitAddrs[4] = AddrWrite(3, 0)
      /\ InitAddrs[5] = AddrWrite(4, 0) /\ InitAddrs[6] = AddrWrite(5, Encoded(Flash))
      /\ InitAddrs[7] = AddrWrite(10, Mmio.start) /\ InitAddrs[8] = AddrWrite(11, Mmio.end)
      /\ InitAddrs[9] = AddrWrite(13, Encoded(DebugRom)) /\ InitAddrs[10] = AddrWrite(14, Guard)
      /\ InitAddrs[11] = AddrWrite(15, Encoded(Ram))
  BY DEF InitAddrs
<1>3. /\ HomeAddr[0] = RomText.start /\ HomeAddr[1] = RomText.end /\ HomeAddr[2] = Encoded(Rom)
      /\ HomeAddr[3] = 0 /\ HomeAddr[4] = 0 /\ HomeAddr[5] = Encoded(Flash)
      /\ HomeAddr[10] = Mmio.start /\ HomeAddr[11] = Mmio.end
      /\ HomeAddr[13] = Encoded(DebugRom) /\ HomeAddr[14] = Guard /\ HomeAddr[15] = Encoded(Ram)
  BY DEF HomeAddr, Entries
<1> DEFINE j == IF n <= 6 THEN n - 1 ELSE IF n <= 8 THEN n + 3 ELSE n + 4
<1>4. j \in Entries /\ \A i \in Entries : Position(i) = n <=> i = j
  BY DEF Position, Entries
<1>5. InitAddrs[n] = AddrWrite(j, HomeAddr[j])
  <2>1. n \in {1, 2, 3, 4, 5, 6, 7, 8, 9, 10, 11}
    OBVIOUS
  <2> QED
    BY <1>2, <1>3, <2>1
<1> QED
  BY <1>1, <1>4, <1>5

LEMMA HomeTypes ==
  /\ HomeAddr \in AddrType /\ HomeCfg \in CfgType
  /\ ResetAddr \in AddrType /\ ResetCfg \in CfgType
<1>1. /\ Encoded(Rom) \in 0 .. AddressEnd /\ Encoded(Flash) \in 0 .. AddressEnd
      /\ Encoded(DebugRom) \in 0 .. AddressEnd /\ Encoded(Ram) \in 0 .. AddressEnd
      /\ Encoded(ResetText) \in 0 .. AddressEnd
  BY AlignedRegions
<1>2. /\ RomText.start \in 0 .. AddressEnd /\ RomText.end \in 0 .. AddressEnd
      /\ Mmio.start \in 0 .. AddressEnd /\ Mmio.end \in 0 .. AddressEnd
      /\ ResetMmio.start \in 0 .. AddressEnd /\ ResetMmio.end \in 0 .. AddressEnd
  BY MapTypes, RegionBounds
<1>3. Guard \in 0 .. AddressEnd /\ 0 \in 0 .. AddressEnd
  BY MapTypes, EpmpAssumption DEF Address
<1>4. HomeAddr \in AddrType
  BY <1>1, <1>2, <1>3 DEF HomeAddr, AddrType
<1>5. ResetAddr \in AddrType
  BY <1>1, <1>2, <1>3 DEF ResetAddr, AddrType
<1>6. HomeCfg \in CfgType /\ ResetCfg \in CfgType
  BY DEF HomeCfg, ResetCfg, CfgType, Bits, Access, Tor, Na4, Napot, LockedNoAccess,
         LockedReadOnly, LockedReadWrite, LockedReadExecute, LockedReadWriteExecute
<1> QED
  BY <1>4, <1>5, <1>6

\* The configuration bits of four entries.
HomeWord(f, n) ==
  /\ DOMAIN f = {i \in Entries : 12 + (i \div 4) = n}
  /\ \A i \in DOMAIN f : f[i] = HomeCfg[i]

LEMMA InitCfgAt ==
  ASSUME NEW n \in 12 .. 15
  PROVE  \E f : InitOps[n] = CfgWrite(f) /\ HomeWord(f, n)
<1>1. InitOps[n] = InitCfgs[n - 11]
  BY InitOpsAre
<1>2. CASE n = 12
  <2> DEFINE f == [i \in 0 .. 3 |-> CASE i = 1 -> Tor \cup LockedReadExecute
                                      [] i = 2 -> Napot \cup LockedReadOnly
                                      [] OTHER -> {}]
  <2>1. InitCfgs[1] = CfgWrite(f)
    BY DEF InitCfgs
  <2>2. HomeWord(f, n)
    BY <1>2 DEF HomeWord, HomeCfg, Entries
  <2> HIDE DEF f
  <2> QED
    BY <1>1, <1>2, <2>1, <2>2
<1>3. CASE n = 13
  <2> DEFINE f == [i \in 4 .. 7 |-> IF i = 5 THEN Napot \cup LockedReadOnly ELSE {}]
  <2>1. InitCfgs[2] = CfgWrite(f)
    BY DEF InitCfgs
  <2>2. HomeWord(f, n)
    BY <1>3 DEF HomeWord, HomeCfg, Entries
  <2> HIDE DEF f
  <2> QED
    BY <1>1, <1>3, <2>1, <2>2
<1>4. CASE n = 14
  <2> DEFINE f == [i \in 8 .. 11 |-> IF i = 11 THEN Tor \cup LockedReadWrite ELSE {}]
  <2>1. InitCfgs[3] = CfgWrite(f)
    BY DEF InitCfgs
  <2>2. HomeWord(f, n)
    BY <1>4 DEF HomeWord, HomeCfg, Entries
  <2> HIDE DEF f
  <2> QED
    BY <1>1, <1>4, <2>1, <2>2
<1>5. CASE n = 15
  <2> DEFINE f == [i \in 12 .. 15 |-> CASE i = 13 -> Napot \cup LockedReadWriteExecute
                                        [] i = 14 -> Na4 \cup LockedNoAccess
                                        [] i = 15 -> Napot \cup LockedReadWrite
                                        [] OTHER -> {}]
  <2>1. InitCfgs[4] = CfgWrite(f)
    BY DEF InitCfgs
  <2>2. HomeWord(f, n)
    BY <1>5 DEF HomeWord, HomeCfg, Entries
  <2> HIDE DEF f
  <2> QED
    BY <1>1, <1>5, <2>1, <2>2
<1> QED
  BY <1>2, <1>3, <1>4, <1>5

LEMMA InitStep ==
  ASSUME pc = "rom_epmp_init", Initialising, pmpaddr \in AddrType, pmpcfg \in CfgType,
         Write, pc' = pc
  PROVE  /\ Initialising' /\ ops # <<>> /\ remap' = remap
         /\ pmpaddr' \in AddrType /\ pmpcfg' \in CfgType
<1>0. Len(InitOps) = 15
  BY InitOpsAre
<1>1. Written \in 0 .. 15 /\ ops = SubSeq(InitOps, Written + 1, 15) /\ ops # <<>>
  BY DEF Initialising, Write
<1>2. PICK n \in 0 .. 15 : n = Written
  BY <1>1
<1>3. /\ n < 15 /\ Len(ops) = 15 - n /\ Head(ops) = InitOps[n + 1]
      /\ Tail(ops) = SubSeq(InitOps, n + 2, 15) /\ Len(Tail(ops)) = 14 - n
  <2>1. PICK S : InitOps \in Seq(S)
    BY InitOpsAre
  <2>2. n \in 0 .. Len(InitOps) /\ ops = SubSeq(InitOps, n + 1, Len(InitOps))
    BY <1>0, <1>1, <1>2
  <2>3. /\ ops \in Seq(S) /\ Len(ops) = Len(InitOps) - n
        /\ n < Len(InitOps) /\ Head(ops) = InitOps[n + 1]
        /\ Tail(ops) = SubSeq(InitOps, n + 2, Len(InitOps))
    <3>1. /\ ops \in Seq(S) /\ Len(ops) = Len(InitOps) - n
          /\ ops # <<>> => /\ n < Len(InitOps) /\ Head(ops) = InitOps[n + 1]
                            /\ Tail(ops) = SubSeq(InitOps, n + 2, Len(InitOps))
      BY <2>1, <2>2, RestOf
    <3> QED
      BY <1>1, <3>1
  <2>4. Len(Tail(ops)) = Len(ops) - 1
    BY <1>1, <2>3, HeadTailProperties
  <2> QED
    BY <1>0, <2>3, <2>4
<1>4. ops' = Tail(ops)
  BY DEF Write
<1>5. Written' = n + 1
  <2>1. Written' = Len(InitOps) - Len(ops')
    BY DEF Written
  <2>2. Len(ops') = 14 - n
    BY <1>3, <1>4
  <2> QED
    BY <1>0, <2>1, <2>2
<1>6. \A i \in Entries :
        /\ pmpaddr[i] = IF Position(i) <= n THEN HomeAddr[i] ELSE ResetAddr[i]
        /\ pmpcfg[i] = IF 12 + (i \div 4) <= n THEN HomeCfg[i] ELSE ResetCfg[i]
  BY <1>2 DEF Initialising
<1>7. \A i \in Entries : Position(i) \in Nat /\ i \div 4 \in Nat
  BY DEF Position, Entries
<1>8. HomeAddr \in AddrType /\ HomeCfg \in CfgType
  BY HomeTypes
<1>9. /\ remap' = remap /\ pmpaddr' \in AddrType /\ pmpcfg' \in CfgType
      /\ \A i \in Entries :
           /\ pmpaddr'[i] = IF Position(i) <= n + 1 THEN HomeAddr[i] ELSE ResetAddr[i]
           /\ pmpcfg'[i] = IF 12 + (i \div 4) <= n + 1 THEN HomeCfg[i] ELSE ResetCfg[i]
  <2>1. CASE n < 11
    <3>1. PICK j \in Entries : /\ InitOps[n + 1] = AddrWrite(j, HomeAddr[j])
                               /\ \A i \in Entries : Position(i) = n + 1 <=> i = j
      BY <2>1, InitAddrAt
    <3>2. /\ pmpaddr' = [pmpaddr EXCEPT ![j] = HomeAddr[j]]
          /\ pmpcfg' = pmpcfg /\ remap' = remap
      BY <1>3, <3>1, WritesAddr
    <3>3. \A i \in Entries : pmpaddr'[i] = IF i = j THEN HomeAddr[j] ELSE pmpaddr[i]
      BY <3>2 DEF AddrType
    <3>4. pmpaddr' \in AddrType
      BY <1>8, <3>2 DEF AddrType
    <3>5. \A i \in Entries :
            pmpaddr'[i] = IF Position(i) <= n + 1 THEN HomeAddr[i] ELSE ResetAddr[i]
      BY <1>6, <1>7, <3>1, <3>3
    <3>6. \A i \in Entries :
            pmpcfg'[i] = IF 12 + (i \div 4) <= n + 1 THEN HomeCfg[i] ELSE ResetCfg[i]
      BY <1>6, <1>7, <2>1, <3>2
    <3> QED
      BY <3>2, <3>4, <3>5, <3>6
  <2>2. CASE n >= 11
    <3>1. PICK f : InitOps[n + 1] = CfgWrite(f) /\ HomeWord(f, n + 1)
      BY <1>3, <2>2, InitCfgAt
    <3>2. /\ pmpcfg' = [i \in Entries |-> IF i \in DOMAIN f THEN f[i] ELSE pmpcfg[i]]
          /\ pmpaddr' = pmpaddr /\ remap' = remap
      BY <1>3, <3>1, WritesCfg
    <3>3. \A i \in Entries :
            pmpcfg'[i] = IF 12 + (i \div 4) = n + 1 THEN HomeCfg[i] ELSE pmpcfg[i]
      BY <3>1, <3>2 DEF HomeWord
    <3>4. pmpcfg' \in CfgType
      BY <1>8, <3>2, <3>3 DEF CfgType
    <3>5. \A i \in Entries :
            pmpaddr'[i] = IF Position(i) <= n + 1 THEN HomeAddr[i] ELSE ResetAddr[i]
      <4>1. \A i \in Entries : Position(i) \in 1 .. 11 \/ Position(i) = 16
        BY DEF Position, Entries
      <4>2. \A i \in Entries : Position(i) <= n + 1 <=> Position(i) <= n
        BY <1>3, <2>2, <4>1
      <4> QED
        BY <1>6, <3>2, <4>2
    <3>6. \A i \in Entries :
            pmpcfg'[i] = IF 12 + (i \div 4) <= n + 1 THEN HomeCfg[i] ELSE ResetCfg[i]
      BY <1>6, <1>7, <3>3
    <3> QED
      BY <3>2, <3>4, <3>5, <3>6
  <2> QED
    BY <2>1, <2>2
<1>10. Initialising' = (pc' = "rom_epmp_init" =>
           /\ Written' \in 0 .. 15
           /\ ops' = SubSeq(InitOps, Written' + 1, 15)
           /\ \A i \in Entries :
                /\ pmpaddr'[i] = IF Position(i) <= Written' THEN HomeAddr[i] ELSE ResetAddr[i]
                /\ pmpcfg'[i] = IF 12 + (i \div 4) <= Written' THEN HomeCfg[i] ELSE ResetCfg[i])
  BY DEF Initialising
<1>11. Initialising'
  <2>1. n + 1 \in 0 .. 15 /\ ops' = SubSeq(InitOps, (n + 1) + 1, 15)
    BY <1>3, <1>4
  <2> QED
    BY <1>5, <1>9, <1>10, <2>1
<1> QED
  BY <1>1, <1>9, <1>11

LEMMA RemapLength ==
  ASSUME NEW k, NEW r, NEW to, NEW o, o = RemapSet(k, r, to)
  PROVE  Len(o) = 3
BY DEF RemapSet

-----------------------------------------------------------------------------
(* Types *)

Pcs == {"reset", "rom_epmp_init", "config_debug_rom", "rom", "rom_remap", "rom_boot",
        "rom_unlock_r", "rom_unlock_rx", "rom_ext", "ext_remap", "ext_boot", "ext_unlock_r",
        "ext_unlock_rx", "owner", "owner_trap", "bad_check", "rom_ext_trap", "shutdown"}

\* The images that the stages have read.
Held ==
  /\ romExt \in [slot : Slots, image : Images] \cup {None}
  /\ IF owner = None THEN owners = None ELSE owner \in Slots /\ owners \in [Slots -> Images]

\* Before the copy is initialised.
Uncopied == pc \in {"reset", "rom_epmp_init", "config_debug_rom"}

LEMMA TypeFacts ==
  ASSUME TypeOK
  PROVE  /\ pmpaddr \in AddrType /\ pmpcfg \in CfgType /\ remap \in RemapType
         /\ epmp_state \in States \cup {None} /\ (epmp_state = None <=> Uncopied)
         /\ pc \in Pcs /\ lc \in LcStates /\ Held /\ Len(ops) <= 15
BY InitOpsAre DEF TypeOK, AddrType, CfgType, RemapType, Uncopied, Pcs, Held, Early, InRom,
   InExt, Opened

LEMMA TypeStep ==
  ASSUME pmpaddr' \in AddrType, pmpcfg' \in CfgType, remap' \in RemapType,
         epmp_state' \in States \cup {None}, epmp_state' = None <=> Uncopied',
         pc' \in Pcs, lc' \in LcStates, Held', Len(ops') <= 15
  PROVE  TypeOK'
<1>1. Len(InitOps) = 15
  BY InitOpsAre
<1>2. Early' \/ InRom' \/ InExt' \/ Opened' \/ pc' \in {"bad_check", "rom_ext_trap", "shutdown"}
  BY DEF Pcs, Early, InRom, InExt, Opened
<1>3. (epmp_state = None)' <=> (Early' \/ pc' = "config_debug_rom")
  BY DEF Uncopied, Early
<1> QED
  BY <1>1, <1>2, <1>3 DEF TypeOK, AddrType, CfgType, RemapType, Held

-----------------------------------------------------------------------------
(* The copy *)

LEMMA Permissions ==
  /\ LockedNoAccess \in SUBSET Bits /\ LockedReadOnly \in SUBSET Bits
  /\ LockedReadWrite \in SUBSET Bits /\ LockedReadExecute \in SUBSET Bits
  /\ LockedReadWriteExecute \in SUBSET Bits
  /\ Tor \in SUBSET Bits /\ Na4 \in SUBSET Bits /\ Napot \in SUBSET Bits
BY DEF Bits, Access, LockedNoAccess, LockedReadOnly, LockedReadWrite, LockedReadExecute,
   LockedReadWriteExecute, Tor, Na4, Napot

LEMMA NapotCopy ==
  ASSUME NEW s \in States, NEW i \in Entries, NEW region, NEW perm \in SUBSET Bits,
         Encoded(region) \in 0 .. AddressEnd
  PROVE  /\ ConfigureNapot(s, i, region, perm) \in States
         /\ ConfigureNapot(s, i, region, perm).addr = [s.addr EXCEPT ![i] = Encoded(region)]
         /\ ConfigureNapot(s, i, region, perm).cfg = [s.cfg EXCEPT ![i] = Napot \cup perm]
<1>1. s.addr \in AddrType /\ s.cfg \in CfgType /\ Napot \cup perm \in SUBSET Bits
  BY Permissions DEF States, AddrType, CfgType
<1>2. /\ [s.addr EXCEPT ![i] = Encoded(region)] \in AddrType
      /\ [s.cfg EXCEPT ![i] = Napot \cup perm] \in CfgType
  BY <1>1 DEF AddrType, CfgType
<1> QED
  BY <1>1, <1>2 DEF ConfigureNapot, States, AddrType, CfgType

LEMMA Na4Copy ==
  ASSUME NEW s \in States, NEW i \in Entries, NEW a \in 0 .. AddressEnd,
         NEW perm \in SUBSET Bits
  PROVE  /\ ConfigureNa4(s, i, a, perm) \in States
         /\ ConfigureNa4(s, i, a, perm).addr = [s.addr EXCEPT ![i] = a]
         /\ ConfigureNa4(s, i, a, perm).cfg = [s.cfg EXCEPT ![i] = Na4 \cup perm]
<1>1. s.addr \in AddrType /\ s.cfg \in CfgType /\ Na4 \cup perm \in SUBSET Bits
  BY Permissions DEF States, AddrType, CfgType
<1>2. /\ [s.addr EXCEPT ![i] = a] \in AddrType
      /\ [s.cfg EXCEPT ![i] = Na4 \cup perm] \in CfgType
  BY <1>1 DEF AddrType, CfgType
<1> QED
  BY <1>1, <1>2 DEF ConfigureNa4, States, AddrType, CfgType

\* epmp_state_check() succeeds between two calls.
LEMMA CheckSucceeds ==
  ASSUME TypeOK, Stage >= 3, FixedEntries, RomExtEntries, OwnerEntries, Copy, ops = <<>>
  PROVE  StateCheck /\ epmp_state \in States
<1>1. epmp_state \in States
  BY TypeFacts DEF Stage, Uncopied
<1>2. \A i \in Entries \ Pending : Copied(i)
  BY DEF Copy
<1>3. \A i \in Entries : Copied(i)
  <2>1. CASE pc = "rom_unlock_r"
    <3>1. Stage = 5 /\ Pending = {6}
      BY <2>1 DEF Stage, Pending
    <3>2. OpenedNapot(6, RomExtVirtual, LockedReadOnly)
      BY <3>1 DEF RomExtEntries, OpeningNapot, OpenNapot
    <3>3. Copied(6)
      BY <3>1, <3>2 DEF Copy, CopyNapot, OpenedNapot, Copied
    <3> QED
      BY <1>2, <3>1, <3>3
  <2>2. CASE pc = "rom_unlock_rx"
    <3>1. Stage = 6 /\ Pending = {3, 4} /\ 4 - 1 = 3
      BY <2>2 DEF Stage, Pending
    <3>2. OpenedTor(4, RomExtText, LockedReadExecute) /\ pmpcfg[3] = {}
      BY <3>1 DEF RomExtEntries, OpeningTor, OpenTor, FixedEntries, Shut
    <3>3. Copied(3) /\ Copied(4)
      BY <3>1, <3>2 DEF Copy, CopyTor, OpenedTor, Copied
    <3> QED
      BY <1>2, <3>1, <3>3
  <2>3. CASE pc = "ext_unlock_r"
    <3>1. Stage = 9 /\ Pending = {9}
      BY <2>3 DEF Stage, Pending
    <3>2. OpenedNapot(9, OwnerVirtual, LockedReadOnly)
      BY <3>1 DEF OwnerEntries, OpeningNapot, OpenNapot
    <3>3. Copied(9)
      BY <3>1, <3>2 DEF Copy, CopyNapot, OpenedNapot, Copied
    <3> QED
      BY <1>2, <3>1, <3>3
  <2>4. CASE pc = "ext_unlock_rx"
    <3>1. Stage = 10 /\ Pending = {7, 8} /\ 8 - 1 = 7
      BY <2>4 DEF Stage, Pending
    <3>2. OpenedTor(8, OwnerText, LockedReadExecute) /\ pmpcfg[7] = {}
      BY <3>1 DEF OwnerEntries, OpeningTor, OpenTor, FixedEntries, Shut
    <3>3. Copied(7) /\ Copied(8)
      BY <3>1, <3>2 DEF Copy, CopyTor, OpenedTor, Copied
    <3> QED
      BY <1>2, <3>1, <3>3
  <2>5. CASE pc \notin {"rom_unlock_r", "rom_unlock_rx", "ext_unlock_r", "ext_unlock_rx"}
    BY <1>2, <2>5 DEF Pending
  <2> QED
    BY <2>1, <2>2, <2>3, <2>4, <2>5
<1>4. epmp_state = [addr |-> pmpaddr, cfg |-> pmpcfg]
  <2>1. pmpaddr \in AddrType /\ pmpcfg \in CfgType
    BY TypeFacts
  <2>2. epmp_state.addr = pmpaddr /\ epmp_state.cfg = pmpcfg
    BY <1>1, <1>3, <2>1 DEF Copied, States, AddrType, CfgType
  <2> QED
    BY <1>1, <2>2 DEF States
<1> QED
  BY <1>1, <1>4 DEF StateCheck

-----------------------------------------------------------------------------
(* Steps between calls *)

\* The registers are left alone.
Quiet == pmpaddr' = pmpaddr /\ pmpcfg' = pmpcfg /\ remap' = remap /\ lc' = lc

LEMMA QuietTypes ==
  ASSUME TypeOK, Quiet, pc' \in Pcs, ~Uncopied', epmp_state' \in States, Held', Len(ops') <= 15
  PROVE  TypeOK'
<1>1. /\ pmpaddr' \in AddrType /\ pmpcfg' \in CfgType /\ remap' \in RemapType
      /\ lc' \in LcStates
  BY TypeFacts DEF Quiet
<1>2. epmp_state' \in States \cup {None} /\ (epmp_state' = None <=> Uncopied')
  BY EpmpAssumption
<1> QED
  BY <1>1, <1>2, TypeStep

-----------------------------------------------------------------------------
(* The inductive invariant *)

LEMMA InitHolds == Init => IInv
<1> SUFFICES ASSUME Init PROVE IInv
  OBVIOUS
<1>1. Stage = 0 /\ pc = "reset" /\ ops = <<>>
  BY DEF Init, Stage
<1>2. TypeOK
  <2>1. remap \in [{0, 1} -> [en : BOOLEAN, match : Address, to : Address]]
    BY EpmpAssumption DEF Init, NoRemap, Address
  <2>2. Len(ops) <= Len(InitOps)
    BY <1>1, InitOpsAre
  <2> QED
    BY <1>1, <2>1, <2>2, HomeTypes
       DEF Init, TypeOK, AddrType, CfgType, States, Early, InRom, InExt, Opened
<1>3. NoFailure /\ Idle /\ ImagesChecked
  BY <1>1 DEF Init, NoFailure, Idle, ImagesChecked
<1>4. Initialising
  BY <1>1 DEF Init, Initialising
<1>5. FixedEntries /\ DebugRomEntry /\ RomExtEntries /\ OwnerEntries /\ Copy
  BY <1>1 DEF FixedEntries, DebugRomEntry, RomExtEntries, OwnerEntries, Copy
<1>6. Translation
  BY <1>1 DEF Init, Translation, NoRemap
<1> QED
  BY <1>2, <1>3, <1>4, <1>5, <1>6 DEF IInv

LEMMA ResetInv ==
  ASSUME IInv, Reset
  PROVE  IInv'
<1>1. Init'
  BY DEF Reset, Init, IInv, TypeOK
<1> QED
  BY <1>1, InitHolds, PTL

LEMMA RomEpmpInitInv ==
  ASSUME IInv, RomEpmpInit
  PROVE  IInv'
<1> USE DEF IInv
<1>1. /\ pc = "reset" /\ pc' = "rom_epmp_init" /\ Stage = 0 /\ Stage' = 1
      /\ pmpaddr' = pmpaddr /\ pmpcfg' = pmpcfg /\ remap' = remap
      /\ romExt' = romExt /\ owners' = owners /\ owner' = owner /\ lc' = lc
      /\ epmp_state' = epmp_state /\ ops' = InitOps
  BY DEF RomEpmpInit, csrs, Stage
<1>2. TypeOK'
  BY <1>1, InitOpsAre DEF TypeOK, Early, InRom, InExt, Opened
<1>3. NoFailure' /\ Idle' /\ ImagesChecked'
  BY <1>1 DEF NoFailure, Idle, ImagesChecked
<1>4. Initialising'
  <2>1. Written' = 0
    BY <1>1, InitOpsAre DEF Written
  <2>2. InitOps = SubSeq(InitOps, 1, 15)
    <3>1. PICK S : InitOps \in Seq(S)
      BY InitOpsAre
    <3>2. Len(InitOps) = 15
      BY InitOpsAre
    <3> QED
      BY <3>1, <3>2, SubSeqFull
  <2>3. \A i \in Entries : ~(Position(i) <= 0) /\ ~(12 + (i \div 4) <= 0)
    BY DEF Position, Entries
  <2>4. \A i \in Entries : pmpaddr'[i] = ResetAddr[i] /\ pmpcfg'[i] = ResetCfg[i]
    BY <1>1 DEF Initialising
  <2>5. Initialising' = (pc' = "rom_epmp_init" =>
           /\ Written' \in 0 .. 15
           /\ ops' = SubSeq(InitOps, Written' + 1, 15)
           /\ \A i \in Entries :
                /\ pmpaddr'[i] = IF Position(i) <= Written' THEN HomeAddr[i] ELSE ResetAddr[i]
                /\ pmpcfg'[i] = IF 12 + (i \div 4) <= Written' THEN HomeCfg[i] ELSE ResetCfg[i])
    BY <1>1 DEF Initialising
  <2>6. 0 \in 0 .. 15 /\ ops' = SubSeq(InitOps, 0 + 1, 15)
    BY <1>1, <2>2
  <2> QED
    BY <2>1, <2>3, <2>4, <2>5, <2>6
<1>5. FixedEntries' /\ DebugRomEntry' /\ RomExtEntries' /\ OwnerEntries' /\ Copy'
  BY <1>1 DEF FixedEntries, DebugRomEntry, RomExtEntries, OwnerEntries, Copy
<1>6. Translation'
  BY <1>1 DEF Translation
<1> QED
  BY <1>2, <1>3, <1>4, <1>5, <1>6

LEMMA HomeAtEnd ==
  ASSUME IInv, pc = "rom_epmp_init", ops = <<>>
  PROVE  \A i \in Entries : pmpaddr[i] = HomeAddr[i] /\ pmpcfg[i] = HomeCfg[i]
<1>1. Written = 15
  BY InitOpsAre DEF Written
<1>2. \A i \in Entries :
        /\ pmpaddr[i] = IF Position(i) <= 15 THEN HomeAddr[i] ELSE ResetAddr[i]
        /\ pmpcfg[i] = IF 12 + (i \div 4) <= 15 THEN HomeCfg[i] ELSE ResetCfg[i]
  BY <1>1 DEF IInv, Initialising
<1>3. \A i \in Entries : 12 + (i \div 4) <= 15 /\ (Position(i) <= 15 \/ HomeAddr[i] = ResetAddr[i])
  BY DEF Position, Entries, HomeAddr, ResetAddr
<1> QED
  BY <1>2, <1>3

LEMMA ConfigDebugRomInv ==
  ASSUME IInv, ConfigDebugRom
  PROVE  IInv'
<1>0. TypeOK
  BY DEF IInv
<1>1. /\ pc = "rom_epmp_init" /\ pc' = "config_debug_rom" /\ Stage = 1 /\ Stage' = 2
      /\ pmpaddr' = pmpaddr /\ pmpcfg' = pmpcfg /\ remap' = remap
      /\ romExt' = romExt /\ owners' = owners /\ owner' = owner /\ lc' = lc
      /\ epmp_state' = epmp_state /\ ops = <<>>
      /\ ops' = OpenNapot(13, DebugRom, DebugRomCfg)
  BY DEF ConfigDebugRom, csrs, Stage
<1>2. TypeOK'
  <2>1. Len(ops') = 3
    BY <1>1 DEF OpenNapot
  <2>2. /\ pmpaddr' \in AddrType /\ pmpcfg' \in CfgType /\ remap' \in RemapType
        /\ epmp_state' \in States \cup {None} /\ lc' \in LcStates
    BY <1>0, <1>1, TypeFacts
  <2>3. epmp_state' = None <=> Uncopied'
    BY <1>0, <1>1, TypeFacts DEF Uncopied
  <2>4. Held' /\ pc' \in Pcs
    BY <1>0, <1>1, TypeFacts DEF Held, Pcs
  <2> QED
    BY <2>1, <2>2, <2>3, <2>4, TypeStep
<1> USE DEF IInv
<1>3. NoFailure' /\ Idle' /\ ImagesChecked' /\ Initialising'
  BY <1>1 DEF NoFailure, Idle, ImagesChecked, Initialising
<1>4. \A i \in Entries : pmpaddr[i] = HomeAddr[i] /\ pmpcfg[i] = HomeCfg[i]
  BY <1>1, HomeAtEnd
<1>5. FixedEntries'
  BY <1>1, <1>4 DEF FixedEntries, Shut, HomeCfg, Entries
<1>6. RomExtEntries' /\ OwnerEntries' /\ Copy'
  BY <1>1, <1>4 DEF RomExtEntries, OwnerEntries, Copy, Shut, HomeCfg, Entries
<1>7. DebugRomEntry'
  <2>1. pmpaddr[13] = Encoded(DebugRom) /\ pmpcfg[13] = Napot \cup LockedReadWriteExecute
    BY <1>4 DEF HomeAddr, HomeCfg, Entries
  <2> QED
    BY <1>1, <2>1 DEF DebugRomEntry, OpeningNapot, DebugRomCfg, Debuggable
<1>8. Translation'
  BY <1>1 DEF Translation
<1> QED
  BY <1>2, <1>3, <1>5, <1>6, <1>7, <1>8

LEMMA StateInitInv ==
  ASSUME IInv, StateInit
  PROVE  IInv'
<1>0. TypeOK /\ FixedEntries /\ DebugRomEntry /\ RomExtEntries /\ OwnerEntries
  BY DEF IInv
<1>1. /\ pc = "config_debug_rom" /\ pc' = "rom" /\ Stage = 2 /\ Stage' = 3
      /\ pmpaddr' = pmpaddr /\ pmpcfg' = pmpcfg /\ remap' = remap
      /\ romExt' = romExt /\ owners' = owners /\ owner' = owner /\ lc' = lc
      /\ ops = <<>> /\ ops' = ops
  BY DEF StateInit, csrs, Stage
<1> DEFINE s1 == ConfigureTor(Zeroed, 1, RomText, LockedReadExecute)
           s2 == ConfigureNapot(s1, 2, Rom, LockedReadOnly)
           s5 == ConfigureNapot(s2, 5, Flash, LockedReadOnly)
           s11 == ConfigureTor(s5, 11, Mmio, LockedReadWrite)
           s13 == ConfigureNapot(s11, 13, DebugRom, DebugRomCfg)
           s14 == ConfigureNa4(s13, 14, Guard, LockedNoAccess)
           s15 == ConfigureNapot(s14, 15, Ram, LockedReadWrite)
<1>2. epmp_state' = s15
  BY DEF StateInit, DebugRomCfg, DebugRomAccess
<1>3. /\ Encoded(Rom) \in 0 .. AddressEnd /\ Encoded(Flash) \in 0 .. AddressEnd
      /\ Encoded(DebugRom) \in 0 .. AddressEnd /\ Encoded(Ram) \in 0 .. AddressEnd
  BY AlignedRegions
<1>3a. /\ RomText.start \in 0 .. AddressEnd /\ RomText.end \in 0 .. AddressEnd
       /\ Mmio.start \in 0 .. AddressEnd /\ Mmio.end \in 0 .. AddressEnd
       /\ Guard \in 0 .. AddressEnd
  BY MapTypes, RegionBounds, EpmpAssumption DEF Address
<1>3b. Zeroed \in States /\ \A i \in Entries : Zeroed.addr[i] = 0 /\ Zeroed.cfg[i] = {}
  BY EpmpAssumption DEF Zeroed, States
<1>3c. /\ DebugRomCfg \in SUBSET Bits /\ LockedReadOnly \in SUBSET Bits
       /\ LockedReadWrite \in SUBSET Bits
  BY Permissions DEF DebugRomCfg
<1>3d. /\ 2 \in Entries /\ 5 \in Entries /\ 13 \in Entries /\ 14 \in Entries
       /\ 15 \in Entries /\ LockedNoAccess \in SUBSET Bits
  BY Permissions DEF Entries
<1>3e. /\ s2 = ConfigureNapot(s1, 2, Rom, LockedReadOnly)
       /\ s5 = ConfigureNapot(s2, 5, Flash, LockedReadOnly)
       /\ s13 = ConfigureNapot(s11, 13, DebugRom, DebugRomCfg)
       /\ s14 = ConfigureNa4(s13, 14, Guard, LockedNoAccess)
       /\ s15 = ConfigureNapot(s14, 15, Ram, LockedReadWrite)
  OBVIOUS
<1> HIDE DEF s1, s2, s5, s11, s13, s14, s15
<1>4. /\ s15 \in States
      /\ \A i \in Entries : s15.addr[i] = HomeAddr[i]
      /\ \A i \in Entries : s15.cfg[i] = IF i = 13 THEN Napot \cup DebugRomCfg ELSE HomeCfg[i]
  <2>1. /\ s1 \in States
        /\ \A j \in Entries : s1.addr[j] = IF j = 1 THEN RomText.end
                                            ELSE IF j = 0 THEN RomText.start ELSE 0
        /\ \A j \in Entries : s1.cfg[j] = IF j = 1 THEN Tor \cup LockedReadExecute ELSE {}
    <3>1. /\ s1.addr = [Zeroed.addr EXCEPT ![0] = RomText.start, ![1] = RomText.end]
          /\ s1.cfg = [Zeroed.cfg EXCEPT ![1] = Tor \cup LockedReadExecute]
          /\ s1 = [addr |-> s1.addr, cfg |-> s1.cfg]
      BY DEF s1, ConfigureTor
    <3>2. Zeroed.addr \in AddrType /\ Zeroed.cfg \in CfgType
      BY <1>3b DEF States, AddrType, CfgType
    <3>3. Tor \cup LockedReadExecute \in SUBSET Bits
      BY Permissions
    <3>4. s1.addr \in AddrType /\ s1.cfg \in CfgType
      BY <1>3a, <3>1, <3>2, <3>3 DEF AddrType, CfgType
    <3> QED
      BY <1>3b, <3>1, <3>2, <3>4 DEF States, AddrType, CfgType, Entries
  <2>2. /\ s2 \in States
        /\ \A j \in Entries : s2.addr[j] = IF j = 2 THEN Encoded(Rom) ELSE s1.addr[j]
        /\ \A j \in Entries : s2.cfg[j] = IF j = 2 THEN Napot \cup LockedReadOnly ELSE s1.cfg[j]
    <3>1. /\ s2 \in States
          /\ s2.addr = [s1.addr EXCEPT ![2] = Encoded(Rom)] /\ s2.cfg = [s1.cfg EXCEPT ![2] = Napot \cup LockedReadOnly]
      BY <1>3, <1>3c, <1>3d, <2>1, <1>3e, NapotCopy
    <3> QED
      BY <3>1, <2>1 DEF States
  <2>3. /\ s5 \in States
        /\ \A j \in Entries : s5.addr[j] = IF j = 5 THEN Encoded(Flash) ELSE s2.addr[j]
        /\ \A j \in Entries : s5.cfg[j] = IF j = 5 THEN Napot \cup LockedReadOnly ELSE s2.cfg[j]
    <3>1. /\ s5 \in States
          /\ s5.addr = [s2.addr EXCEPT ![5] = Encoded(Flash)] /\ s5.cfg = [s2.cfg EXCEPT ![5] = Napot \cup LockedReadOnly]
      BY <1>3, <1>3c, <1>3d, <2>2, <1>3e, NapotCopy
    <3> QED
      BY <3>1, <2>2 DEF States
  <2>4. /\ s11 \in States
        /\ \A j \in Entries : s11.addr[j] = IF j = 11 THEN Mmio.end
                                             ELSE IF j = 10 THEN Mmio.start ELSE s5.addr[j]
        /\ \A j \in Entries : s11.cfg[j] = IF j = 11 THEN Tor \cup LockedReadWrite ELSE s5.cfg[j]
    <3>1. /\ s11.addr = [s5.addr EXCEPT ![10] = Mmio.start, ![11] = Mmio.end]
          /\ s11.cfg = [s5.cfg EXCEPT ![11] = Tor \cup LockedReadWrite]
          /\ s11 = [addr |-> s11.addr, cfg |-> s11.cfg]
      BY DEF s11, ConfigureTor
    <3>2. s5.addr \in AddrType /\ s5.cfg \in CfgType
      BY <2>3 DEF States, AddrType, CfgType
    <3>3. Tor \cup LockedReadWrite \in SUBSET Bits
      BY Permissions
    <3>4. s11.addr \in AddrType /\ s11.cfg \in CfgType
      BY <1>3a, <3>1, <3>2, <3>3 DEF AddrType, CfgType
    <3> QED
      BY <3>1, <3>2, <3>4 DEF States, AddrType, CfgType, Entries
  <2>5. /\ s13 \in States
        /\ \A j \in Entries : s13.addr[j] = IF j = 13 THEN Encoded(DebugRom) ELSE s11.addr[j]
        /\ \A j \in Entries : s13.cfg[j] = IF j = 13 THEN Napot \cup DebugRomCfg ELSE s11.cfg[j]
    <3>1. /\ s13 \in States
          /\ s13.addr = [s11.addr EXCEPT ![13] = Encoded(DebugRom)] /\ s13.cfg = [s11.cfg EXCEPT ![13] = Napot \cup DebugRomCfg]
      BY <1>3, <1>3c, <1>3d, <2>4, <1>3e, NapotCopy
    <3> QED
      BY <3>1, <2>4 DEF States
  <2>6. /\ s14 \in States
        /\ \A j \in Entries : s14.addr[j] = IF j = 14 THEN Guard ELSE s13.addr[j]
        /\ \A j \in Entries : s14.cfg[j] = IF j = 14 THEN Na4 \cup LockedNoAccess ELSE s13.cfg[j]
    <3>1. /\ s14 \in States
          /\ s14.addr = [s13.addr EXCEPT ![14] = Guard] /\ s14.cfg = [s13.cfg EXCEPT ![14] = Na4 \cup LockedNoAccess]
      BY <1>3a, <1>3d, <1>3e, <2>5, Na4Copy
    <3> QED
      BY <3>1, <2>5 DEF States
  <2>7. /\ s15 \in States
        /\ \A j \in Entries : s15.addr[j] = IF j = 15 THEN Encoded(Ram) ELSE s14.addr[j]
        /\ \A j \in Entries : s15.cfg[j] = IF j = 15 THEN Napot \cup LockedReadWrite ELSE s14.cfg[j]
    <3>1. /\ s15 \in States
          /\ s15.addr = [s14.addr EXCEPT ![15] = Encoded(Ram)] /\ s15.cfg = [s14.cfg EXCEPT ![15] = Napot \cup LockedReadWrite]
      BY <1>3, <1>3c, <1>3d, <2>6, <1>3e, NapotCopy
    <3> QED
      BY <3>1, <2>6 DEF States
  <2>8. \A i \in Entries : s15.addr[i] = HomeAddr[i]
    BY <2>1, <2>2, <2>3, <2>4, <2>5, <2>6, <2>7 DEF HomeAddr
  <2>9. \A i \in Entries : s15.cfg[i] = IF i = 13 THEN Napot \cup DebugRomCfg ELSE HomeCfg[i]
    <3> DEFINE p1 == Tor \cup LockedReadExecute
               p2 == Napot \cup LockedReadOnly
               p11 == Tor \cup LockedReadWrite
               p13 == Napot \cup DebugRomCfg
               p14 == Na4 \cup LockedNoAccess
               p15 == Napot \cup LockedReadWrite
               none == {}
    <3>1. \A j \in Entries :
            /\ s1.cfg[j] = IF j = 1 THEN p1 ELSE none
            /\ s2.cfg[j] = IF j = 2 THEN p2 ELSE s1.cfg[j]
            /\ s5.cfg[j] = IF j = 5 THEN p2 ELSE s2.cfg[j]
            /\ s11.cfg[j] = IF j = 11 THEN p11 ELSE s5.cfg[j]
            /\ s13.cfg[j] = IF j = 13 THEN p13 ELSE s11.cfg[j]
            /\ s14.cfg[j] = IF j = 14 THEN p14 ELSE s13.cfg[j]
            /\ s15.cfg[j] = IF j = 15 THEN p15 ELSE s14.cfg[j]
      BY <2>1, <2>2, <2>3, <2>4, <2>5, <2>6, <2>7
    <3>2. HomeCfg = [i \in Entries |-> CASE i = 1  -> p1 [] i = 2  -> p2 [] i = 5  -> p2
                                         [] i = 11 -> p11
                                         [] i = 13 -> Napot \cup LockedReadWriteExecute
                                         [] i = 14 -> p14 [] i = 15 -> p15 [] OTHER -> none]
      BY DEF HomeCfg
    <3> HIDE DEF p1, p2, p11, p13, p14, p15, none
    <3>3. \A i \in Entries : s15.cfg[i] = IF i = 13 THEN p13 ELSE HomeCfg[i]
      BY <3>1, <3>2
    <3> QED
      BY <3>3 DEF p13
  <2> QED
    BY <2>7, <2>8, <2>9
<1>5. TypeOK'
  <2>1. /\ pmpaddr' \in AddrType /\ pmpcfg' \in CfgType /\ remap' \in RemapType
        /\ epmp_state' \in States \cup {None} /\ lc' \in LcStates /\ Len(ops') <= 15
    BY <1>0, <1>1, <1>2, <1>4, TypeFacts
  <2>2. epmp_state' = None <=> Uncopied'
    BY <1>1, <1>2, <1>4, EpmpAssumption DEF Uncopied
  <2>3. Held' /\ pc' \in Pcs
    BY <1>0, <1>1, TypeFacts DEF Held, Pcs
  <2> QED
    BY <2>1, <2>2, <2>3, TypeStep
<1>6. OpenedNapot(13, DebugRom, DebugRomCfg)
  BY <1>0, <1>1 DEF DebugRomEntry, OpeningNapot, OpenNapot
<1>7. Copy'
  <2>1. \A i \in Entries : pmpaddr[i] = HomeAddr[i]
    <3>1. \A i \in Entries \ {13} : pmpaddr[i] = HomeAddr[i]
      BY <1>0, <1>1 DEF FixedEntries
    <3>2. pmpaddr[13] = HomeAddr[13]
      BY <1>6 DEF OpenedNapot, HomeAddr, Entries
    <3> QED
      BY <3>1, <3>2
  <2>2. \A i \in Entries : pmpcfg[i] = IF i = 13 THEN Napot \cup DebugRomCfg ELSE HomeCfg[i]
    <3>1. \A i \in {0, 1, 2, 5, 10, 11, 12, 14, 15} : pmpcfg[i] = HomeCfg[i]
      BY <1>0, <1>1 DEF FixedEntries
    <3>2. \A i \in {3, 4, 6, 7, 8, 9} : pmpcfg[i] = {}
      BY <1>0, <1>1 DEF FixedEntries, RomExtEntries, OwnerEntries, Shut
    <3>3. \A i \in {3, 4, 6, 7, 8, 9} : HomeCfg[i] = {}
      BY DEF HomeCfg, Entries
    <3>4. pmpcfg[13] = Napot \cup DebugRomCfg
      BY <1>6 DEF OpenedNapot
    <3>5. Entries = {0, 1, 2, 5, 10, 11, 12, 14, 15} \cup {3, 4, 6, 7, 8, 9} \cup {13}
      BY DEF Entries
    <3> QED
      BY <3>1, <3>2, <3>3, <3>4, <3>5
  <2>3. \A i \in Entries : Copied(i)'
    BY <1>1, <1>2, <1>4, <2>1, <2>2 DEF Copied
  <2> QED
    BY <1>1, <2>3 DEF Copy
<1>8. DebugRomEntry'
  BY <1>1, <1>6 DEF DebugRomEntry, OpenedNapot, DebugRomCfg, Debuggable
<1> USE DEF IInv
<1>9. NoFailure' /\ Idle' /\ ImagesChecked' /\ Initialising'
  BY <1>1 DEF NoFailure, Idle, ImagesChecked, Initialising
<1>10. FixedEntries' /\ RomExtEntries' /\ OwnerEntries' /\ Translation'
  BY <1>1 DEF FixedEntries, RomExtEntries, OwnerEntries, Translation, Shut
<1> QED
  BY <1>5, <1>7, <1>8, <1>9, <1>10

LEMMA RomBootInv ==
  ASSUME IInv, NEW s \in Slots, NEW im \in Images, RomBoot(s, im)
  PROVE  IInv'
<1>0. TypeOK /\ Idle /\ ImagesChecked /\ FixedEntries /\ DebugRomEntry /\ RomExtEntries
      /\ OwnerEntries /\ Translation /\ Copy
  BY DEF IInv
<1>1. /\ pc = "rom" /\ Stage = 3 /\ Quiet /\ ops = <<>>
      /\ epmp_state' = epmp_state /\ owners' = owners /\ owner' = owner
      /\ ManifestCheck(im, RomExtSizeMax)
      /\ romExt' = [slot |-> s, image |-> im]
  BY <1>0 DEF RomBoot, csrs, Stage, Quiet, Idle
<1>2. \/ /\ im.translated /\ pc' = "rom_remap"
         /\ ops' = RemapSet(0, RomExtVirtual, RomExtAt(s))
      \/ ~im.translated /\ pc' = "rom_boot" /\ ops' = <<>>
  BY <1>1 DEF RomBoot, RemappedTo
<1>3. Stage' = 4 /\ pc' \in {"rom_remap", "rom_boot"}
  BY <1>2 DEF Stage
<1>4. TypeOK'
  <2>1. romExt' \in [slot : Slots, image : Images]
    BY <1>1
  <2>2. Held'
    BY <1>0, <1>1, <2>1, TypeFacts DEF Held
  <2>3. Len(ops') <= 15
    <3>1. CASE ops' = RemapSet(0, RomExtVirtual, RomExtAt(s))
      <4>1. Len(ops') = 3
        BY <3>1, RemapLength, Zenon
      <4> QED
        BY <4>1
    <3>2. CASE ops' = <<>>
      BY <3>2
    <3> QED
      BY <1>2, <3>1, <3>2
  <2>4. epmp_state' \in States /\ pc' \in Pcs /\ ~Uncopied'
    BY <1>0, <1>1, <1>3, TypeFacts DEF Uncopied, Pcs
  <2> QED
    BY <1>0, <1>1, <2>2, <2>3, <2>4, QuietTypes
<1>5. NoFailure' /\ Idle' /\ Initialising'
  BY <1>2 DEF NoFailure, Idle, Initialising
<1>6. ImagesChecked'
  <2>1. romExt'.image = im /\ romExt' # None /\ ManifestCheck(im, RomExtSizeMax)'
    BY <1>1, HandoverAssumption DEF ManifestCheck
  <2> QED
    BY <1>0, <1>1, <1>2, <1>3, <2>1 DEF ImagesChecked
<1>7. FixedEntries' /\ DebugRomEntry' /\ RomExtEntries' /\ OwnerEntries'
  BY <1>0, <1>1, <1>3 DEF FixedEntries, DebugRomEntry, RomExtEntries, OwnerEntries, Quiet,
     Shut, OpenedNapot, DebugRomCfg, Debuggable
<1>8. Translation'
  <2>1. ~remap[0].en /\ ~remap[1].en
    BY <1>0, <1>1 DEF Translation
  <2>2. pc' = "rom_remap" => Mapping(0, RomExtVirtual, RomExtAt(romExt.slot))'
    <3>1. romExt'.slot = s
      BY <1>1
    <3>2. pc' = "rom_remap" => ops' = RemapSet(0, RomExtVirtual, RomExtAt(romExt.slot))'
      BY <1>2, <3>1 DEF RomExtAt, Bank
    <3> QED
      BY <1>1, <2>1, <3>2 DEF Mapping, Quiet
  <2> QED
    BY <1>1, <1>3, <2>1, <2>2 DEF Translation, Quiet
<1>9. Copy'
  BY <1>0, <1>1, <1>3 DEF Copy, Quiet, Pending, Copied
<1> QED
  BY <1>4, <1>5, <1>6, <1>7, <1>8, <1>9 DEF IInv

LEMMA RomUnlockRInv ==
  ASSUME IInv, RomUnlockR
  PROVE  IInv'
<1>0. TypeOK /\ ImagesChecked /\ FixedEntries /\ DebugRomEntry /\ RomExtEntries
      /\ OwnerEntries /\ Translation /\ Copy
  BY DEF IInv
<1>1. /\ pc = "rom_remap" /\ Stage = 4 /\ Quiet /\ ops = <<>>
      /\ owners' = owners /\ owner' = owner /\ romExt' = romExt
  BY DEF RomUnlockR, csrs, Stage, Quiet
<1>2. StateCheck /\ epmp_state \in States
  BY <1>0, <1>1, CheckSucceeds
<1>3. /\ pc' = "rom_unlock_r" /\ Stage' = 5
      /\ epmp_state' = ConfigureNapot(epmp_state, 6, RomExtVirtual, LockedReadOnly)
      /\ ops' = OpenNapot(6, RomExtVirtual, LockedReadOnly)
  BY <1>2 DEF RomUnlockR, Checked, Stage
<1>4. /\ epmp_state' \in States
      /\ \A j \in Entries : epmp_state'.addr[j] = IF j = 6 THEN Encoded(RomExtVirtual)
                                                    ELSE epmp_state.addr[j]
      /\ \A j \in Entries : epmp_state'.cfg[j] = IF j = 6 THEN Napot \cup LockedReadOnly
                                                   ELSE epmp_state.cfg[j]
  <2>1. /\ 6 \in Entries /\ LockedReadOnly \in SUBSET Bits
        /\ Encoded(RomExtVirtual) \in 0 .. AddressEnd
    BY AlignedRegions, Permissions DEF Entries
  <2>2. /\ epmp_state' \in States
        /\ epmp_state'.addr = [epmp_state.addr EXCEPT ![6] = Encoded(RomExtVirtual)]
        /\ epmp_state'.cfg = [epmp_state.cfg EXCEPT ![6] = Napot \cup LockedReadOnly]
    BY <1>2, <1>3, <2>1, NapotCopy
  <2> QED
    BY <1>2, <2>2 DEF States
<1>5. TypeOK'
  <2>1. Held'
    BY <1>0, <1>1, TypeFacts DEF Held
  <2>2. Len(ops') <= 15
    BY <1>3 DEF OpenNapot
  <2>3. pc' \in Pcs /\ ~Uncopied'
    BY <1>3 DEF Uncopied, Pcs
  <2> QED
    BY <1>0, <1>1, <1>4, <2>1, <2>2, <2>3, QuietTypes
<1>6. NoFailure' /\ Idle' /\ Initialising' /\ ImagesChecked'
  BY <1>0, <1>1, <1>3 DEF NoFailure, Idle, Initialising, ImagesChecked
<1>7. FixedEntries' /\ DebugRomEntry' /\ OwnerEntries'
  BY <1>0, <1>1, <1>3 DEF FixedEntries, DebugRomEntry, OwnerEntries, Quiet,
     Shut, OpenedNapot, DebugRomCfg, Debuggable
<1>8. RomExtEntries'
  <2>1. Shut(6) /\ Shut(4)
    BY <1>0, <1>1 DEF RomExtEntries
  <2> QED
    BY <1>1, <1>3, <2>1 DEF RomExtEntries, Quiet, Shut, OpeningNapot
<1>9. Translation'
  <2>1. Mapped(0, RomExtVirtual, RomExtAt(romExt.slot)) /\ ~remap[1].en
    BY <1>0, <1>1 DEF Translation, Mapping, RemapSet
  <2> QED
    BY <1>0, <1>1, <1>3, <2>1 DEF Translation, Mapped, Quiet, ImagesChecked, RomExtAt, Bank
<1>10. Copy'
  <2>1. \A i \in Entries : Copied(i)
    BY <1>0, <1>1 DEF Copy, Pending
  <2>2. \A i \in Entries \ {6} : Copied(i)'
    BY <1>1, <1>4, <2>1 DEF Copied, Quiet
  <2>3. CopyNapot(6, RomExtVirtual, LockedReadOnly)'
    BY <1>4 DEF CopyNapot, Entries
  <2> QED
    BY <1>3, <2>2, <2>3 DEF Copy, Pending
<1> QED
  BY <1>5, <1>6, <1>7, <1>8, <1>9, <1>10 DEF IInv

LEMMA RomUnlockRxInv ==
  ASSUME IInv, RomUnlockRx
  PROVE  IInv'
<1>0. TypeOK /\ ImagesChecked /\ FixedEntries /\ DebugRomEntry /\ RomExtEntries
      /\ OwnerEntries /\ Translation /\ Copy
  BY DEF IInv
<1>1. /\ pc \in {"rom_unlock_r", "rom_boot"} /\ Stage \in {4, 5} /\ Quiet /\ ops = <<>>
      /\ owners' = owners /\ owner' = owner /\ romExt' = romExt
  BY DEF RomUnlockRx, csrs, Stage, Quiet
<1>2. StateCheck /\ epmp_state \in States
  BY <1>0, <1>1, CheckSucceeds
<1>3. /\ pc' = "rom_unlock_rx" /\ Stage' = 6
      /\ epmp_state' = ConfigureTor(epmp_state, 4, RomExtText, LockedReadExecute)
      /\ ops' = OpenTor(4, RomExtText, LockedReadExecute)
  BY <1>2 DEF RomUnlockRx, Checked, Stage
<1>4. RomExtText.start \in 0 .. AddressEnd /\ RomExtText.end \in 0 .. AddressEnd
  <2>1. /\ romExt.slot \in Slots /\ romExt.image \in Images
        /\ ManifestCheck(romExt.image, RomExtSizeMax)
    BY <1>0, <1>1, TypeFacts DEF ImagesChecked, Held
  <2> QED
    BY <2>1, RomExtRegion DEF RomExtText
<1>5. /\ epmp_state' \in States
      /\ epmp_state'.addr[3] = RomExtText.start /\ epmp_state'.addr[4] = RomExtText.end
      /\ \A j \in Entries \ {3, 4} : epmp_state'.addr[j] = epmp_state.addr[j]
      /\ epmp_state'.cfg[4] = Tor \cup LockedReadExecute
      /\ \A j \in Entries \ {4} : epmp_state'.cfg[j] = epmp_state.cfg[j]
  <2>1. /\ epmp_state'.addr = [epmp_state.addr EXCEPT ![3] = RomExtText.start, ![4] = RomExtText.end]
        /\ epmp_state'.cfg = [epmp_state.cfg EXCEPT ![4] = Tor \cup LockedReadExecute]
        /\ epmp_state' = [addr |-> epmp_state'.addr, cfg |-> epmp_state'.cfg]
    BY <1>3 DEF ConfigureTor
  <2>2. epmp_state.addr \in AddrType /\ epmp_state.cfg \in CfgType
    BY <1>2 DEF States, AddrType, CfgType
  <2>3. Tor \cup LockedReadExecute \in SUBSET Bits
    BY Permissions
  <2>4. epmp_state'.addr \in AddrType /\ epmp_state'.cfg \in CfgType
    BY <1>4, <2>1, <2>2, <2>3 DEF AddrType, CfgType
  <2> QED
    BY <2>1, <2>2, <2>4 DEF States, AddrType, CfgType, Entries
<1>6. TypeOK'
  <2>1. Held'
    BY <1>0, <1>1, TypeFacts DEF Held
  <2>2. Len(ops') <= 15
    BY <1>3 DEF OpenTor
  <2>3. pc' \in Pcs /\ ~Uncopied'
    BY <1>3 DEF Uncopied, Pcs
  <2> QED
    BY <1>0, <1>1, <1>5, <2>1, <2>2, <2>3, QuietTypes
<1>7. NoFailure' /\ Idle' /\ Initialising' /\ ImagesChecked'
  BY <1>0, <1>1, <1>3 DEF NoFailure, Idle, Initialising, ImagesChecked
<1>8. FixedEntries' /\ DebugRomEntry' /\ OwnerEntries'
  BY <1>0, <1>1, <1>3 DEF FixedEntries, DebugRomEntry, OwnerEntries, Quiet,
     Shut, OpenedNapot, DebugRomCfg, Debuggable
<1>9. IF romExt.image.translated
      THEN pc = "rom_unlock_r" /\ Stage = 5 ELSE pc = "rom_boot" /\ Stage = 4
  BY <1>0, <1>1 DEF ImagesChecked, Stage
<1>10. RomExtEntries'
  <2>1. Shut(4)
    BY <1>0, <1>1 DEF RomExtEntries
  <2>2. IF romExt.image.translated THEN OpenedNapot(6, RomExtVirtual, LockedReadOnly) ELSE Shut(6)
    BY <1>0, <1>1, <1>9 DEF RomExtEntries, OpeningNapot, OpenNapot
  <2>3. RomExtText' = RomExtText
    BY <1>1 DEF RomExtText, RomExtBase, RomExtAt, Bank
  <2>4. OpeningTor(4, RomExtText, LockedReadExecute)'
    BY <1>1, <1>3, <2>1, <2>3 DEF OpeningTor, Shut, Quiet
  <2> QED
    BY <1>1, <1>3, <2>2, <2>4 DEF RomExtEntries, Quiet, Shut, OpenedNapot
<1>11. Translation'
  <2>1. /\ IF romExt.image.translated THEN Mapped(0, RomExtVirtual, RomExtAt(romExt.slot))
                                      ELSE ~remap[0].en
        /\ ~remap[1].en
    BY <1>0, <1>1, <1>9 DEF Translation
  <2> QED
    BY <1>1, <1>3, <2>1 DEF Translation, Mapped, Quiet, RomExtAt, Bank
<1>12. Copy'
  <2>1. \A i \in Entries : Copied(i)
    BY <1>2, TypeFacts, <1>0 DEF StateCheck, Copied
  <2>2. \A i \in Entries \ {3, 4} : Copied(i)'
    BY <1>1, <1>5, <2>1 DEF Copied, Quiet
  <2>3. epmp_state.cfg[3] = {}
    BY <1>0, <1>1, <2>1 DEF Copied, FixedEntries, Shut, Entries
  <2>4. CopyTor(4, RomExtText, LockedReadExecute)'
    <3>1. RomExtText' = RomExtText
      BY <1>1 DEF RomExtText, RomExtBase, RomExtAt, Bank
    <3>2. epmp_state'.cfg[3] = {}
      BY <1>5, <2>3 DEF Entries
    <3> QED
      BY <1>5, <3>1, <3>2 DEF CopyTor
  <2> QED
    BY <1>3, <2>2, <2>4 DEF Copy, Pending
<1> QED
  BY <1>6, <1>7, <1>8, <1>10, <1>11, <1>12 DEF IInv

LEMMA RomExtMainInv ==
  ASSUME IInv, NEW o \in [Slots -> Images], RomExtMain(o)
  PROVE  IInv'
<1>0. TypeOK /\ Idle /\ ImagesChecked /\ FixedEntries /\ DebugRomEntry /\ RomExtEntries
      /\ OwnerEntries /\ Translation /\ Copy
  BY DEF IInv
<1>1. /\ pc = "rom_ext" /\ pc' = pc /\ Stage = 7 /\ Stage' = 7 /\ Quiet /\ ops = <<>>
      /\ ops' = ops /\ epmp_state' = epmp_state /\ romExt' = romExt
      /\ owners' = o /\ owner' = First(o)
  BY <1>0 DEF RomExtMain, csrs, Stage, Quiet, Idle
<1>2. TypeOK'
  <2>1. First(o) \in Slots /\ First(o) # None
    BY HandoverAssumption DEF First, Slots
  <2>2. Held'
    BY <1>0, <1>1, <2>1, TypeFacts DEF Held
  <2>3. Len(ops') <= 15 /\ epmp_state' \in States /\ pc' \in Pcs /\ ~Uncopied'
    BY <1>0, <1>1, TypeFacts DEF Uncopied, Pcs
  <2> QED
    BY <1>0, <1>1, <2>2, <2>3, QuietTypes
<1>3. NoFailure' /\ Idle' /\ Initialising' /\ ImagesChecked'
  BY <1>0, <1>1 DEF NoFailure, Idle, Initialising, ImagesChecked
<1>4. FixedEntries' /\ DebugRomEntry' /\ OwnerEntries'
  BY <1>0, <1>1 DEF FixedEntries, DebugRomEntry, OwnerEntries, Quiet,
     Shut, OpenedNapot, DebugRomCfg, Debuggable
<1>5. RomExtEntries'
  <2>1. RomExtText' = RomExtText
    BY <1>1 DEF RomExtText, RomExtBase, RomExtAt, Bank
  <2> QED
    BY <1>0, <1>1, <2>1 DEF RomExtEntries, Quiet, Shut, OpenedNapot, OpenedTor
<1>6. Translation'
  BY <1>0, <1>1 DEF Translation, Mapped, Quiet, RomExtAt, Bank
<1>7. Copy'
  BY <1>0, <1>1 DEF Copy, Quiet, Pending, Copied
<1> QED
  BY <1>2, <1>3, <1>4, <1>5, <1>6, <1>7 DEF IInv

LEMMA RomExtRejectInv ==
  ASSUME IInv, RomExtReject
  PROVE  IInv'
<1>0. TypeOK /\ Idle /\ ImagesChecked /\ FixedEntries /\ DebugRomEntry /\ RomExtEntries
      /\ OwnerEntries /\ Translation /\ Copy
  BY DEF IInv
<1>1. /\ pc = "rom_ext" /\ pc' \in {"rom_ext", "shutdown"} /\ Stage = 7 /\ Stage' = 7
      /\ Quiet /\ ops = <<>> /\ ops' = ops /\ epmp_state' = epmp_state /\ romExt' = romExt
      /\ owners' = owners /\ owner # None /\ owner' \in {owner, Second(owners)}
  BY <1>0 DEF RomExtReject, csrs, Stage, Quiet, Idle
<1>2. TypeOK'
  <2>1. Second(owners) \in Slots /\ None \notin Slots
    BY HandoverAssumption DEF Second, Slots
  <2>2. Held'
    BY <1>0, <1>1, <2>1, TypeFacts DEF Held
  <2>3. Len(ops') <= 15 /\ epmp_state' \in States /\ pc' \in Pcs /\ ~Uncopied'
    BY <1>0, <1>1, TypeFacts DEF Uncopied, Pcs
  <2> QED
    BY <1>0, <1>1, <2>2, <2>3, QuietTypes
<1>3. NoFailure' /\ Idle' /\ Initialising' /\ ImagesChecked'
  BY <1>0, <1>1 DEF NoFailure, Idle, Initialising, ImagesChecked
<1>4. FixedEntries' /\ DebugRomEntry' /\ OwnerEntries'
  BY <1>0, <1>1 DEF FixedEntries, DebugRomEntry, OwnerEntries, Quiet,
     Shut, OpenedNapot, DebugRomCfg, Debuggable
<1>5. RomExtEntries'
  <2>1. RomExtText' = RomExtText
    BY <1>1 DEF RomExtText, RomExtBase, RomExtAt, Bank
  <2> QED
    BY <1>0, <1>1, <2>1 DEF RomExtEntries, Quiet, Shut, OpenedNapot, OpenedTor
<1>6. Translation'
  BY <1>0, <1>1 DEF Translation, Mapped, Quiet, RomExtAt, Bank
<1>7. Copy'
  BY <1>0, <1>1 DEF Copy, Quiet, Pending, Copied
<1> QED
  BY <1>2, <1>3, <1>4, <1>5, <1>6, <1>7 DEF IInv

LEMMA RomExtBootInv ==
  ASSUME IInv, RomExtBoot
  PROVE  IInv'
<1>0. TypeOK /\ Idle /\ ImagesChecked /\ FixedEntries /\ DebugRomEntry /\ RomExtEntries
      /\ OwnerEntries /\ Translation /\ Copy
  BY DEF IInv
<1>1. /\ pc = "rom_ext" /\ Stage = 7 /\ Quiet /\ ops = <<>>
      /\ epmp_state' = epmp_state /\ owners' = owners /\ owner' = owner /\ romExt' = romExt
      /\ owner # None /\ ManifestCheck(owners[owner], OwnerSizeMax)
  BY <1>0 DEF RomExtBoot, csrs, Stage, Quiet, Idle
<1>2. \/ /\ owners[owner].translated /\ pc' = "ext_remap"
         /\ ops' = RemapSet(1, OwnerVirtual, Flash.start)
      \/ ~owners[owner].translated /\ pc' = "ext_boot" /\ ops' = <<>>
  BY <1>1 DEF RomExtBoot
<1>3. Stage' = 8 /\ pc' \in {"ext_remap", "ext_boot"}
  BY <1>2 DEF Stage
<1>4. TypeOK'
  <2>1. Held'
    BY <1>0, <1>1, TypeFacts DEF Held
  <2>2. Len(ops') <= 15
    <3>1. CASE ops' = RemapSet(1, OwnerVirtual, Flash.start)
      <4>1. Len(ops') = 3
        BY <3>1, RemapLength, Zenon
      <4> QED
        BY <4>1
    <3>2. CASE ops' = <<>>
      BY <3>2
    <3> QED
      BY <1>2, <3>1, <3>2
  <2>3. epmp_state' \in States /\ pc' \in Pcs /\ ~Uncopied'
    BY <1>0, <1>1, <1>3, TypeFacts DEF Uncopied, Pcs
  <2> QED
    BY <1>0, <1>1, <2>1, <2>2, <2>3, QuietTypes
<1>5. NoFailure' /\ Idle' /\ Initialising'
  BY <1>2 DEF NoFailure, Idle, Initialising
<1>6. ImagesChecked'
  <2>1. ManifestCheck(owners[owner], OwnerSizeMax)'
    BY <1>1 DEF ManifestCheck
  <2> QED
    BY <1>0, <1>1, <1>2, <1>3, <2>1 DEF ImagesChecked
<1>7. FixedEntries' /\ DebugRomEntry' /\ OwnerEntries'
  BY <1>0, <1>1, <1>3 DEF FixedEntries, DebugRomEntry, OwnerEntries, Quiet,
     Shut, OpenedNapot, DebugRomCfg, Debuggable
<1>8. RomExtEntries'
  <2>1. RomExtText' = RomExtText
    BY <1>1 DEF RomExtText, RomExtBase, RomExtAt, Bank
  <2> QED
    BY <1>0, <1>1, <1>3, <2>1 DEF RomExtEntries, Quiet, Shut, OpenedNapot, OpenedTor
<1>9. Translation'
  <2>1. /\ IF romExt.image.translated THEN Mapped(0, RomExtVirtual, RomExtAt(romExt.slot))
                                      ELSE ~remap[0].en
        /\ ~remap[1].en
    BY <1>0, <1>1 DEF Translation
  <2>2. pc' = "ext_remap" => Mapping(1, OwnerVirtual, Flash.start)'
    BY <1>1, <1>2, <2>1 DEF Mapping, Quiet
  <2> QED
    BY <1>1, <1>3, <2>1, <2>2 DEF Translation, Mapped, Quiet, RomExtAt, Bank
<1>10. Copy'
  BY <1>0, <1>1, <1>3 DEF Copy, Quiet, Pending, Copied
<1> QED
  BY <1>4, <1>5, <1>6, <1>7, <1>8, <1>9, <1>10 DEF IInv

LEMMA RomExtUnlockRInv ==
  ASSUME IInv, RomExtUnlockR
  PROVE  IInv'
<1>0. TypeOK /\ ImagesChecked /\ FixedEntries /\ DebugRomEntry /\ RomExtEntries
      /\ OwnerEntries /\ Translation /\ Copy
  BY DEF IInv
<1>1. /\ pc = "ext_remap" /\ Stage = 8 /\ Quiet /\ ops = <<>>
      /\ owners' = owners /\ owner' = owner /\ romExt' = romExt
  BY DEF RomExtUnlockR, csrs, Stage, Quiet
<1>2. StateCheck /\ epmp_state \in States
  BY <1>0, <1>1, CheckSucceeds
<1>3. /\ pc' = "ext_unlock_r" /\ Stage' = 9
      /\ epmp_state' = ConfigureNapot(epmp_state, 9, OwnerVirtual, LockedReadOnly)
      /\ ops' = OpenNapot(9, OwnerVirtual, LockedReadOnly)
  BY <1>2 DEF RomExtUnlockR, Checked, Stage
<1>4. /\ epmp_state' \in States
      /\ \A j \in Entries : epmp_state'.addr[j] = IF j = 9 THEN Encoded(OwnerVirtual)
                                                    ELSE epmp_state.addr[j]
      /\ \A j \in Entries : epmp_state'.cfg[j] = IF j = 9 THEN Napot \cup LockedReadOnly
                                                   ELSE epmp_state.cfg[j]
  <2>1. /\ 9 \in Entries /\ LockedReadOnly \in SUBSET Bits
        /\ Encoded(OwnerVirtual) \in 0 .. AddressEnd
    BY AlignedRegions, Permissions DEF Entries
  <2>2. /\ epmp_state' \in States
        /\ epmp_state'.addr = [epmp_state.addr EXCEPT ![9] = Encoded(OwnerVirtual)]
        /\ epmp_state'.cfg = [epmp_state.cfg EXCEPT ![9] = Napot \cup LockedReadOnly]
    BY <1>2, <1>3, <2>1, NapotCopy
  <2> QED
    BY <1>2, <2>2 DEF States
<1>5. TypeOK'
  <2>1. Held'
    BY <1>0, <1>1, TypeFacts DEF Held
  <2>2. Len(ops') <= 15
    BY <1>3 DEF OpenNapot
  <2>3. pc' \in Pcs /\ ~Uncopied'
    BY <1>3 DEF Uncopied, Pcs
  <2> QED
    BY <1>0, <1>1, <1>4, <2>1, <2>2, <2>3, QuietTypes
<1>6. NoFailure' /\ Idle' /\ Initialising' /\ ImagesChecked'
  BY <1>0, <1>1, <1>3 DEF NoFailure, Idle, Initialising, ImagesChecked
<1>7. FixedEntries' /\ DebugRomEntry'
  BY <1>0, <1>1, <1>3 DEF FixedEntries, DebugRomEntry, Quiet,
     Shut, OpenedNapot, DebugRomCfg, Debuggable
<1>8. RomExtEntries' /\ OwnerEntries'
  <2>1. RomExtText' = RomExtText
    BY <1>1 DEF RomExtText, RomExtBase, RomExtAt, Bank
  <2>2. RomExtEntries'
    BY <1>0, <1>1, <1>3, <2>1 DEF RomExtEntries, Quiet, Shut, OpenedNapot, OpenedTor
  <2>3. Shut(9) /\ Shut(8)
    BY <1>0, <1>1 DEF OwnerEntries
  <2>4. OwnerEntries'
    BY <1>1, <1>3, <2>3 DEF OwnerEntries, Quiet, Shut, OpeningNapot
  <2> QED
    BY <2>2, <2>4
<1>9. Translation'
  <2>1. /\ IF romExt.image.translated THEN Mapped(0, RomExtVirtual, RomExtAt(romExt.slot))
                                      ELSE ~remap[0].en
        /\ owners[owner].translated /\ Mapped(1, OwnerVirtual, Flash.start)
    BY <1>0, <1>1 DEF Translation, Mapping, RemapSet, ImagesChecked
  <2> QED
    BY <1>1, <1>3, <2>1 DEF Translation, Mapped, Quiet, RomExtAt, Bank
<1>10. Copy'
  <2>1. \A i \in Entries : Copied(i)
    BY <1>0, <1>1 DEF Copy, Pending
  <2>2. \A i \in Entries \ {9} : Copied(i)'
    BY <1>1, <1>4, <2>1 DEF Copied, Quiet
  <2>3. CopyNapot(9, OwnerVirtual, LockedReadOnly)'
    BY <1>4 DEF CopyNapot, Entries
  <2> QED
    BY <1>3, <2>2, <2>3 DEF Copy, Pending
<1> QED
  BY <1>5, <1>6, <1>7, <1>8, <1>9, <1>10 DEF IInv

LEMMA RomExtUnlockRxInv ==
  ASSUME IInv, RomExtUnlockRx
  PROVE  IInv'
<1>0. TypeOK /\ ImagesChecked /\ FixedEntries /\ DebugRomEntry /\ RomExtEntries
      /\ OwnerEntries /\ Translation /\ Copy
  BY DEF IInv
<1>1. /\ pc \in {"ext_unlock_r", "ext_boot"} /\ Stage \in {8, 9} /\ Quiet /\ ops = <<>>
      /\ owners' = owners /\ owner' = owner /\ romExt' = romExt
  BY DEF RomExtUnlockRx, csrs, Stage, Quiet
<1>2. StateCheck /\ epmp_state \in States
  BY <1>0, <1>1, CheckSucceeds
<1>3. /\ pc' = "ext_unlock_rx" /\ Stage' = 10
      /\ epmp_state' = ConfigureTor(epmp_state, 8, OwnerText, LockedReadExecute)
      /\ ops' = OpenTor(8, OwnerText, LockedReadExecute)
  BY <1>2 DEF RomExtUnlockRx, Checked, Stage
<1>4. OwnerText.start \in 0 .. AddressEnd /\ OwnerText.end \in 0 .. AddressEnd
  <2>1. /\ owner \in Slots /\ owners[owner] \in Images
        /\ ManifestCheck(owners[owner], OwnerSizeMax)
    BY <1>0, <1>1, TypeFacts DEF ImagesChecked, Held
  <2> QED
    BY <2>1, OwnerRegion DEF OwnerText
<1>5. /\ epmp_state' \in States
      /\ epmp_state'.addr[7] = OwnerText.start /\ epmp_state'.addr[8] = OwnerText.end
      /\ \A j \in Entries \ {7, 8} : epmp_state'.addr[j] = epmp_state.addr[j]
      /\ epmp_state'.cfg[8] = Tor \cup LockedReadExecute
      /\ \A j \in Entries \ {8} : epmp_state'.cfg[j] = epmp_state.cfg[j]
  <2>1. /\ epmp_state'.addr = [epmp_state.addr EXCEPT ![7] = OwnerText.start, ![8] = OwnerText.end]
        /\ epmp_state'.cfg = [epmp_state.cfg EXCEPT ![8] = Tor \cup LockedReadExecute]
        /\ epmp_state' = [addr |-> epmp_state'.addr, cfg |-> epmp_state'.cfg]
    BY <1>3 DEF ConfigureTor
  <2>2. epmp_state.addr \in AddrType /\ epmp_state.cfg \in CfgType
    BY <1>2 DEF States, AddrType, CfgType
  <2>3. Tor \cup LockedReadExecute \in SUBSET Bits
    BY Permissions
  <2>4. epmp_state'.addr \in AddrType /\ epmp_state'.cfg \in CfgType
    BY <1>4, <2>1, <2>2, <2>3 DEF AddrType, CfgType
  <2> QED
    BY <2>1, <2>2, <2>4 DEF States, AddrType, CfgType, Entries
<1>6. TypeOK'
  <2>1. Held'
    BY <1>0, <1>1, TypeFacts DEF Held
  <2>2. Len(ops') <= 15
    BY <1>3 DEF OpenTor
  <2>3. pc' \in Pcs /\ ~Uncopied'
    BY <1>3 DEF Uncopied, Pcs
  <2> QED
    BY <1>0, <1>1, <1>5, <2>1, <2>2, <2>3, QuietTypes
<1>7. NoFailure' /\ Idle' /\ Initialising' /\ ImagesChecked'
  BY <1>0, <1>1, <1>3 DEF NoFailure, Idle, Initialising, ImagesChecked
<1>8. FixedEntries' /\ DebugRomEntry'
  BY <1>0, <1>1, <1>3 DEF FixedEntries, DebugRomEntry, Quiet,
     Shut, OpenedNapot, DebugRomCfg, Debuggable
<1>9. IF owners[owner].translated
      THEN pc = "ext_unlock_r" /\ Stage = 9 ELSE pc = "ext_boot" /\ Stage = 8
  BY <1>0, <1>1 DEF ImagesChecked, Stage
<1>10. RomExtEntries' /\ OwnerEntries'
  <2>1. RomExtText' = RomExtText /\ OwnerText' = OwnerText
    BY <1>1 DEF RomExtText, RomExtBase, RomExtAt, OwnerText, OwnerBase, OwnerAt, Bank
  <2>2. RomExtEntries'
    BY <1>0, <1>1, <1>3, <2>1 DEF RomExtEntries, Quiet, Shut, OpenedNapot, OpenedTor
  <2>3. Shut(8)
    BY <1>0, <1>1 DEF OwnerEntries
  <2>4. IF owners[owner].translated THEN OpenedNapot(9, OwnerVirtual, LockedReadOnly) ELSE Shut(9)
    BY <1>0, <1>1, <1>9 DEF OwnerEntries, OpeningNapot, OpenNapot
  <2>5. OpeningTor(8, OwnerText, LockedReadExecute)'
    BY <1>1, <1>3, <2>1, <2>3 DEF OpeningTor, Shut, Quiet
  <2>6. OwnerEntries'
    BY <1>1, <1>3, <2>4, <2>5 DEF OwnerEntries, Quiet, Shut, OpenedNapot
  <2> QED
    BY <2>2, <2>6
<1>11. Translation'
  <2>1. /\ IF romExt.image.translated THEN Mapped(0, RomExtVirtual, RomExtAt(romExt.slot))
                                      ELSE ~remap[0].en
        /\ IF owners[owner].translated THEN Mapped(1, OwnerVirtual, Flash.start) ELSE ~remap[1].en
    BY <1>0, <1>1, <1>9 DEF Translation
  <2> QED
    BY <1>1, <1>3, <2>1 DEF Translation, Mapped, Quiet, RomExtAt, Bank
<1>12. Copy'
  <2>1. \A i \in Entries : Copied(i)
    BY <1>2, TypeFacts, <1>0 DEF StateCheck, Copied
  <2>2. \A i \in Entries \ {7, 8} : Copied(i)'
    BY <1>1, <1>5, <2>1 DEF Copied, Quiet
  <2>3. epmp_state.cfg[7] = {}
    BY <1>0, <1>1, <2>1 DEF Copied, FixedEntries, Shut, Entries
  <2>4. CopyTor(8, OwnerText, LockedReadExecute)'
    <3>1. OwnerText' = OwnerText
      BY <1>1 DEF OwnerText, OwnerBase, OwnerAt, Bank
    <3>2. epmp_state'.cfg[7] = {}
      BY <1>5, <2>3 DEF Entries
    <3> QED
      BY <1>5, <3>1, <3>2 DEF CopyTor
  <2> QED
    BY <1>3, <2>2, <2>4 DEF Copy, Pending
<1> QED
  BY <1>6, <1>7, <1>8, <1>10, <1>11, <1>12 DEF IInv

LEMMA RomExtJumpInv ==
  ASSUME IInv, RomExtJump
  PROVE  IInv'
<1>0. TypeOK /\ ImagesChecked /\ FixedEntries /\ DebugRomEntry /\ RomExtEntries
      /\ OwnerEntries /\ Translation /\ Copy
  BY DEF IInv
<1>1. /\ pc = "ext_unlock_rx" /\ Stage = 10 /\ Quiet /\ ops = <<>>
      /\ owners' = owners /\ owner' = owner /\ romExt' = romExt
  BY DEF RomExtJump, csrs, Stage, Quiet
<1>2. StateCheck /\ epmp_state \in States
  BY <1>0, <1>1, CheckSucceeds
<1>3. pc' \in {"owner", "owner_trap"} /\ Stage' = 11 /\ epmp_state' = epmp_state /\ ops' = ops
  BY <1>2 DEF RomExtJump, Checked, Stage
<1>4. TypeOK'
  <2>1. Held'
    BY <1>0, <1>1, TypeFacts DEF Held
  <2>2. Len(ops') <= 15 /\ epmp_state' \in States /\ pc' \in Pcs /\ ~Uncopied'
    BY <1>0, <1>2, <1>3, TypeFacts DEF Uncopied, Pcs
  <2> QED
    BY <1>0, <1>1, <2>1, <2>2, QuietTypes
<1>5. NoFailure' /\ Idle' /\ Initialising' /\ ImagesChecked'
  BY <1>0, <1>1, <1>3 DEF NoFailure, Idle, Initialising, ImagesChecked
<1>6. FixedEntries' /\ DebugRomEntry'
  BY <1>0, <1>1, <1>3 DEF FixedEntries, DebugRomEntry, Quiet,
     Shut, OpenedNapot, DebugRomCfg, Debuggable
<1>7. RomExtEntries' /\ OwnerEntries'
  <2>1. RomExtText' = RomExtText /\ OwnerText' = OwnerText
    BY <1>1 DEF RomExtText, RomExtBase, RomExtAt, OwnerText, OwnerBase, OwnerAt, Bank
  <2>2. RomExtEntries'
    BY <1>0, <1>1, <1>3, <2>1 DEF RomExtEntries, Quiet, Shut, OpenedNapot, OpenedTor
  <2>3. OpenedTor(8, OwnerText, LockedReadExecute)
    BY <1>0, <1>1 DEF OwnerEntries, OpeningTor, OpenTor
  <2>4. IF owners[owner].translated THEN OpenedNapot(9, OwnerVirtual, LockedReadOnly) ELSE Shut(9)
    BY <1>0, <1>1 DEF OwnerEntries
  <2>5. OwnerEntries'
    BY <1>1, <1>3, <2>1, <2>3, <2>4 DEF OwnerEntries, Quiet, Shut, OpenedNapot, OpenedTor
  <2> QED
    BY <2>2, <2>5
<1>8. Translation'
  BY <1>0, <1>1, <1>3 DEF Translation, Mapped, Quiet, RomExtAt, Bank
<1>9. Copy'
  <2>1. \A i \in Entries : Copied(i)
    BY <1>2, TypeFacts, <1>0 DEF StateCheck, Copied
  <2> QED
    BY <1>1, <1>3, <2>1 DEF Copy, Quiet, Pending, Copied
<1> QED
  BY <1>4, <1>5, <1>6, <1>7, <1>8, <1>9 DEF IInv

-----------------------------------------------------------------------------
(* Register writes preserve the invariant *)

\* What a register write leaves alone.
Same ==
  /\ epmp_state' = epmp_state /\ pc' = pc /\ lc' = lc
  /\ romExt' = romExt /\ owners' = owners /\ owner' = owner

LEMMA SameFacts ==
  ASSUME Same
  PROVE  /\ Stage' = Stage /\ RomExtText' = RomExtText /\ OwnerText' = OwnerText
         /\ DebugRomCfg' = DebugRomCfg
         /\ ImagesChecked => ImagesChecked'
         /\ NoFailure => NoFailure'
<1>1. Stage' = Stage
  BY DEF Same, Stage
<1>2. RomExtText' = RomExtText /\ OwnerText' = OwnerText /\ DebugRomCfg' = DebugRomCfg
  BY DEF Same, RomExtText, RomExtBase, RomExtAt, OwnerText, OwnerBase, OwnerAt, Bank,
     DebugRomCfg, Debuggable
<1>3. ImagesChecked => ImagesChecked'
  BY <1>1 DEF Same, ImagesChecked
<1>4. NoFailure => NoFailure'
  BY DEF Same, NoFailure
<1> QED
  BY <1>1, <1>2, <1>3, <1>4

LEMMA SameTypes ==
  ASSUME TypeOK, Same, pmpaddr' \in AddrType, pmpcfg' \in CfgType, remap' \in RemapType,
         Len(ops') <= 15
  PROVE  TypeOK'
<1>1. /\ epmp_state' \in States \cup {None} /\ pc' \in Pcs /\ lc' \in LcStates
  BY TypeFacts DEF Same
<1>2. epmp_state' = None <=> Uncopied'
  BY TypeFacts DEF Same, Uncopied
<1>3. Held'
  BY TypeFacts DEF Same, Held
<1> QED
  BY <1>1, <1>2, <1>3, TypeStep

LEMMA OpeningLength ==
  ASSUME NEW i, NEW region, NEW perm, NEW old
  PROVE  /\ OpeningNapot(i, region, perm, old)' => Len(ops') <= 15
         /\ OpeningTor(i, region, perm)' => Len(ops') <= 15
<1> DEFINE p == AddrWrite(i, Encoded(region))
           a == AddrWrite(i - 1, region.start)
           b == AddrWrite(i, region.end)
           c == ClearBits(i)
           n == SetBits(i, Napot \cup perm)
           s == SetBits(i, Tor \cup perm)
<1>0. \A l \in {0, 1, 2, 3, 4} : l <= 15
  OBVIOUS
<1>1. ASSUME OpeningNapot(i, region, perm, old)'
      PROVE  Len(ops') <= 15
  <2>1. ops' \in {<<p, c, n>>, <<c, n>>, <<n>>, <<>>}
    BY <1>1 DEF OpeningNapot, OpenNapot
  <2> HIDE DEF p, c, n
  <2>2. Len(<<p, c, n>>) = 3 /\ Len(<<c, n>>) = 2 /\ Len(<<n>>) = 1 /\ Len(<<>>) = 0
    OBVIOUS
  <2>3. Len(ops') \in {0, 1, 2, 3, 4}
    BY <2>1, <2>2
  <2> QED
    BY <1>0, <2>3, Zenon
<1>2. ASSUME OpeningTor(i, region, perm)'
      PROVE  Len(ops') <= 15
  <2>1. ops' \in {<<a, b, c, s>>, <<b, c, s>>, <<c, s>>, <<s>>, <<>>}
    BY <1>2 DEF OpeningTor, OpenTor
  <2> HIDE DEF a, b, c, s
  <2>2. /\ Len(<<a, b, c, s>>) = 4 /\ Len(<<b, c, s>>) = 3 /\ Len(<<c, s>>) = 2
        /\ Len(<<s>>) = 1 /\ Len(<<>>) = 0
    OBVIOUS
  <2>3. Len(ops') \in {0, 1, 2, 3, 4}
    BY <2>1, <2>2
  <2> QED
    BY <1>0, <2>3, Zenon
<1> QED
  BY <1>1, <1>2

LEMMA InitWriteInv ==
  ASSUME IInv, Write, Same, pc = "rom_epmp_init"
  PROVE  IInv'
<1>0. TypeOK /\ NoFailure /\ ImagesChecked /\ Initialising /\ Translation
  BY DEF IInv
<1>1. Stage = 1 /\ Stage' = 1 /\ pc' = pc
  BY SameFacts DEF Stage, Same
<1>2. /\ Initialising' /\ remap' = remap
      /\ pmpaddr' \in AddrType /\ pmpcfg' \in CfgType
  BY <1>0, <1>1, TypeFacts, InitStep
<1>3. TypeOK'
  <2>1. PICK S : InitOps \in Seq(S)
    BY InitOpsAre
  <2>2. Len(InitOps) = 15
    BY InitOpsAre
  <2>3. PICK n \in 0 .. 15 : n = Written'
    BY <1>1, <1>2 DEF Initialising
  <2>4. Len(ops') <= 15
    <3>1. ops' = SubSeq(InitOps, n + 1, 15)
      BY <1>1, <1>2, <2>3 DEF Initialising
    <3>2. n \in 0 .. Len(InitOps) /\ ops' = SubSeq(InitOps, n + 1, Len(InitOps))
      BY <2>2, <3>1
    <3>3. Len(ops') = Len(InitOps) - n
      BY <2>1, <3>2, RestOf
    <3> QED
      BY <2>2, <3>3
  <2> QED
    BY <1>0, <1>2, <2>4, SameTypes, TypeFacts
<1>4. NoFailure' /\ ImagesChecked'
  BY <1>0, SameFacts
<1>5. Idle' /\ FixedEntries' /\ DebugRomEntry' /\ RomExtEntries' /\ OwnerEntries' /\ Copy'
  BY <1>1 DEF Idle, FixedEntries, DebugRomEntry, RomExtEntries, OwnerEntries, Copy
<1>6. Translation'
  BY <1>0, <1>1, <1>2 DEF Translation
<1> QED
  BY <1>2, <1>3, <1>4, <1>5, <1>6 DEF IInv

LEMMA DebugRomWriteInv ==
  ASSUME IInv, Write, Same, pc = "config_debug_rom"
  PROVE  IInv'
<1>0. TypeOK /\ NoFailure /\ ImagesChecked /\ Translation /\ FixedEntries /\ DebugRomEntry
      /\ RomExtEntries /\ OwnerEntries
  BY DEF IInv
<1>1. Stage = 2 /\ Stage' = 2 /\ pc' = pc
  BY SameFacts DEF Stage, Same
<1>2. PICK perm \in SUBSET Bits : perm = DebugRomCfg
  BY Permissions DEF DebugRomCfg
<1> DEFINE old == Napot \cup LockedReadWriteExecute
<1>3. OpeningNapot(13, DebugRom, perm, old)
  BY <1>0, <1>1, <1>2 DEF DebugRomEntry
<1> HIDE DEF old
<1>4. /\ OpeningNapot(13, DebugRom, perm, old)' /\ Apart({13})
      /\ pmpaddr'[13] \in {pmpaddr[13], Encoded(DebugRom)}
  BY <1>0, <1>3, TypeFacts, AlignedRegions, NapotStep DEF Entries
<1>5. /\ pmpaddr' \in AddrType /\ pmpcfg' \in CfgType /\ remap' = remap
      /\ \A j \in Entries \ {13} : pmpaddr'[j] = pmpaddr[j] /\ pmpcfg'[j] = pmpcfg[j]
  BY <1>4 DEF Apart
<1>6. TypeOK'
  BY <1>0, <1>4, <1>5, OpeningLength, SameTypes, TypeFacts
<1>7. NoFailure' /\ ImagesChecked'
  BY <1>0, SameFacts
<1>8. Idle' /\ Initialising' /\ Copy'
  BY <1>1 DEF Idle, Initialising, Copy
<1>9. FixedEntries' /\ RomExtEntries' /\ OwnerEntries'
  BY <1>0, <1>1, <1>5 DEF FixedEntries, RomExtEntries, OwnerEntries, Shut, Entries
<1>10. DebugRomEntry'
  <2>1. pmpaddr[13] = Encoded(DebugRom)
    BY <1>0, <1>1 DEF DebugRomEntry
  <2>2. DebugRomCfg' = perm
    BY <1>2, SameFacts
  <2>3. OpeningNapot(13, DebugRom, DebugRomCfg, Napot \cup LockedReadWriteExecute)'
    BY <1>4, <2>2 DEF old, OpeningNapot, OpenedNapot
  <2> QED
    BY <1>1, <1>4, <2>1, <2>3 DEF DebugRomEntry
<1>11. Translation'
  BY <1>0, <1>1, <1>5 DEF Translation
<1> QED
  BY <1>6, <1>7, <1>8, <1>9, <1>10, <1>11 DEF IInv

LEMMA MappingLength ==
  ASSUME NEW k, NEW region, NEW to
  PROVE  Mapping(k, region, to)' => Len(ops') <= 15
<1> DEFINE m == RemapWrite(k, "match", Encoded(region))
           t == RemapWrite(k, "to", to)
           e == RemapWrite(k, "en", TRUE)
<1>0. \A l \in {0, 1, 2, 3, 4} : l <= 15
  OBVIOUS
<1>1. ASSUME Mapping(k, region, to)'
      PROVE  Len(ops') <= 15
  <2>1. ops' = <<m, t, e>> \/ ops' = <<t, e>> \/ ops' = <<e>> \/ ops' = <<>>
    BY <1>1, Zenon DEF Mapping, RemapSet
  <2> HIDE DEF m, t, e
  <2>2. Len(<<m, t, e>>) = 3 /\ Len(<<t, e>>) = 2 /\ Len(<<e>>) = 1 /\ Len(<<>>) = 0
    OBVIOUS
  <2>3. Len(ops') \in {0, 1, 2, 3, 4}
    BY <2>1, <2>2
  <2> QED
    BY <1>0, <2>3, Zenon
<1> QED
  BY <1>1

LEMMA RomRemapWriteInv ==
  ASSUME IInv, Write, Same, pc = "rom_remap"
  PROVE  IInv'
<1>0. TypeOK /\ NoFailure /\ ImagesChecked /\ Translation /\ FixedEntries /\ DebugRomEntry
      /\ RomExtEntries /\ OwnerEntries /\ Copy
  BY DEF IInv
<1>1. Stage = 4 /\ Stage' = 4 /\ pc' = pc
  BY SameFacts DEF Stage, Same
<1>2. PICK to \in Address : to = RomExtAt(romExt.slot)
  <2>1. romExt.slot \in Slots
    BY <1>0, <1>1, TypeFacts DEF ImagesChecked, Held
  <2> QED
    BY <2>1, Banks DEF RomExtAt
<1>3. /\ Mapping(0, RomExtVirtual, to)' /\ ops # <<>>
      /\ remap' \in RemapType /\ \A j \in {0, 1} \ {0} : remap'[j] = remap[j]
      /\ pmpaddr' = pmpaddr /\ pmpcfg' = pmpcfg
  <2>1. Mapping(0, RomExtVirtual, to)
    BY <1>0, <1>2 DEF Translation
  <2>2. Encoded(RomExtVirtual) \in Address /\ remap \in RemapType
    BY <1>0, AlignedRegions, TypeFacts
  <2> QED
    BY <1>2, <2>1, <2>2, RemapStep
<1>4. Len(ops') <= 15
  BY <1>3, MappingLength
<1>5. TypeOK'
  BY <1>0, <1>3, <1>4, SameTypes, TypeFacts
<1>6. NoFailure' /\ ImagesChecked'
  BY <1>0, SameFacts
<1>7. Idle' /\ Initialising'
  BY <1>1 DEF Idle, Initialising
<1>8. FixedEntries' /\ DebugRomEntry' /\ RomExtEntries' /\ OwnerEntries'
  BY <1>0, <1>1, <1>3, SameFacts DEF FixedEntries, DebugRomEntry, RomExtEntries, OwnerEntries,
     Shut, OpenedNapot, OpenedTor, Same
<1>9. Copy'
  BY <1>0, <1>1, <1>3 DEF Copy, Same, Pending, Copied
<1>10. Translation'
  <2>1. RomExtAt(romExt.slot)' = to
    BY <1>2 DEF RomExtAt, Bank, Same
  <2>2. Mapping(0, RomExtVirtual, RomExtAt(romExt.slot))'
    BY <1>3, <2>1 DEF Mapping, Mapped
  <2> QED
    BY <1>0, <1>1, <1>3, <2>2 DEF Translation, Same
<1> QED
  BY <1>5, <1>6, <1>7, <1>8, <1>9, <1>10 DEF IInv

LEMMA ExtRemapWriteInv ==
  ASSUME IInv, Write, Same, pc = "ext_remap"
  PROVE  IInv'
<1>0. TypeOK /\ NoFailure /\ ImagesChecked /\ Translation /\ FixedEntries /\ DebugRomEntry
      /\ RomExtEntries /\ OwnerEntries /\ Copy
  BY DEF IInv
<1>1. Stage = 8 /\ Stage' = 8 /\ pc' = pc
  BY SameFacts DEF Stage, Same
<1>2. PICK to \in Address : to = Flash.start
  BY MapTypes DEF Regions
<1>3. /\ Mapping(1, OwnerVirtual, to)' /\ ops # <<>>
      /\ remap' \in RemapType /\ \A j \in {0, 1} \ {1} : remap'[j] = remap[j]
      /\ pmpaddr' = pmpaddr /\ pmpcfg' = pmpcfg
  <2>1. Mapping(1, OwnerVirtual, to)
    BY <1>0, <1>2 DEF Translation
  <2>2. Encoded(OwnerVirtual) \in Address /\ remap \in RemapType
    BY <1>0, AlignedRegions, TypeFacts
  <2> QED
    BY <1>2, <2>1, <2>2, RemapStep
<1>4. Len(ops') <= 15
  BY <1>3, MappingLength
<1>5. TypeOK'
  BY <1>0, <1>3, <1>4, SameTypes, TypeFacts
<1>6. NoFailure' /\ ImagesChecked'
  BY <1>0, SameFacts
<1>7. Idle' /\ Initialising'
  BY <1>1 DEF Idle, Initialising
<1>8. FixedEntries' /\ DebugRomEntry' /\ RomExtEntries' /\ OwnerEntries'
  BY <1>0, <1>1, <1>3, SameFacts DEF FixedEntries, DebugRomEntry, RomExtEntries, OwnerEntries,
     Shut, OpenedNapot, OpenedTor, Same
<1>9. Copy'
  BY <1>0, <1>1, <1>3 DEF Copy, Same, Pending, Copied
<1>10. Translation'
  <2>1. Mapping(1, OwnerVirtual, Flash.start)'
    BY <1>2, <1>3
  <2>2. IF romExt.image.translated THEN Mapped(0, RomExtVirtual, RomExtAt(romExt.slot))
                                   ELSE ~remap[0].en
    BY <1>0, <1>1 DEF Translation
  <2>3. remap'[0] = remap[0]
    BY <1>3
  <2> QED
    BY <1>1, <2>1, <2>2, <2>3 DEF Translation, Mapped, Same, RomExtAt, Bank
<1> QED
  BY <1>5, <1>6, <1>7, <1>8, <1>9, <1>10 DEF IInv

LEMMA RomUnlockRWriteInv ==
  ASSUME IInv, Write, Same, pc = "rom_unlock_r"
  PROVE  IInv'
<1>0. TypeOK /\ NoFailure /\ ImagesChecked /\ Translation /\ FixedEntries /\ DebugRomEntry
      /\ RomExtEntries /\ OwnerEntries /\ Copy
  BY DEF IInv
<1>1. Stage = 5 /\ Stage' = 5 /\ pc' = pc
  BY SameFacts DEF Stage, Same
<1> DEFINE old == {}
<1>2. OpeningNapot(6, RomExtVirtual, LockedReadOnly, old)
  BY <1>0, <1>1 DEF RomExtEntries
<1> HIDE DEF old
<1>3. OpeningNapot(6, RomExtVirtual, LockedReadOnly, old)' /\ Apart({6}) /\ ops # <<>>
  BY <1>0, <1>2, TypeFacts, AlignedRegions, Permissions, NapotStep DEF Entries
<1>4. /\ pmpaddr' \in AddrType /\ pmpcfg' \in CfgType /\ remap' = remap
      /\ \A j \in Entries \ {6} : pmpaddr'[j] = pmpaddr[j] /\ pmpcfg'[j] = pmpcfg[j]
  BY <1>3 DEF Apart
<1>5. TypeOK'
  BY <1>0, <1>3, <1>4, OpeningLength, SameTypes, TypeFacts
<1>6. NoFailure' /\ ImagesChecked'
  BY <1>0, SameFacts
<1>7. Idle' /\ Initialising'
  BY <1>1 DEF Idle, Initialising
<1>8. FixedEntries' /\ DebugRomEntry' /\ OwnerEntries'
  BY <1>0, <1>1, <1>4, SameFacts DEF FixedEntries, DebugRomEntry, OwnerEntries, Shut, OpenedNapot,
     OpenedTor, Entries, Same
<1>9. RomExtEntries'
  <2>1. OpeningNapot(6, RomExtVirtual, LockedReadOnly, {})'
    BY <1>3 DEF old, OpeningNapot
  <2>2. Shut(4)'
    BY <1>0, <1>1, <1>4 DEF RomExtEntries, Shut, Entries
  <2> QED
    BY <1>1, <2>1, <2>2 DEF RomExtEntries
<1>10. Translation'
  BY <1>0, <1>1, <1>4 DEF Translation, Mapped, Same, RomExtAt, Bank
<1>11. Copy'
  <2>1. Pending = {6} /\ Pending' = {6}
    BY <1>1 DEF Pending
  <2>2. \A k \in Entries \ {6} : Copied(k)'
    BY <1>0, <1>1, <1>4, <2>1 DEF Copy, Copied, Same
  <2>3. CopyNapot(6, RomExtVirtual, LockedReadOnly)'
    BY <1>0, <1>1 DEF Copy, CopyNapot, Same
  <2> QED
    BY <1>1, <2>1, <2>2, <2>3 DEF Copy
<1> QED
  BY <1>5, <1>6, <1>7, <1>8, <1>9, <1>10, <1>11 DEF IInv

LEMMA ExtUnlockRWriteInv ==
  ASSUME IInv, Write, Same, pc = "ext_unlock_r"
  PROVE  IInv'
<1>0. TypeOK /\ NoFailure /\ ImagesChecked /\ Translation /\ FixedEntries /\ DebugRomEntry
      /\ RomExtEntries /\ OwnerEntries /\ Copy
  BY DEF IInv
<1>1. Stage = 9 /\ Stage' = 9 /\ pc' = pc
  BY SameFacts DEF Stage, Same
<1> DEFINE old == {}
<1>2. OpeningNapot(9, OwnerVirtual, LockedReadOnly, old)
  BY <1>0, <1>1 DEF OwnerEntries
<1> HIDE DEF old
<1>3. OpeningNapot(9, OwnerVirtual, LockedReadOnly, old)' /\ Apart({9}) /\ ops # <<>>
  BY <1>0, <1>2, TypeFacts, AlignedRegions, Permissions, NapotStep DEF Entries
<1>4. /\ pmpaddr' \in AddrType /\ pmpcfg' \in CfgType /\ remap' = remap
      /\ \A j \in Entries \ {9} : pmpaddr'[j] = pmpaddr[j] /\ pmpcfg'[j] = pmpcfg[j]
  BY <1>3 DEF Apart
<1>5. TypeOK'
  BY <1>0, <1>3, <1>4, OpeningLength, SameTypes, TypeFacts
<1>6. NoFailure' /\ ImagesChecked'
  BY <1>0, SameFacts
<1>7. Idle' /\ Initialising'
  BY <1>1 DEF Idle, Initialising
<1>8. FixedEntries' /\ DebugRomEntry' /\ RomExtEntries'
  BY <1>0, <1>1, <1>4, SameFacts DEF FixedEntries, DebugRomEntry, RomExtEntries, Shut, OpenedNapot,
     OpenedTor, Entries, Same
<1>9. OwnerEntries'
  <2>1. OpeningNapot(9, OwnerVirtual, LockedReadOnly, {})'
    BY <1>3 DEF old, OpeningNapot
  <2>2. Shut(8)'
    BY <1>0, <1>1, <1>4 DEF OwnerEntries, Shut, Entries
  <2> QED
    BY <1>1, <2>1, <2>2 DEF OwnerEntries
<1>10. Translation'
  BY <1>0, <1>1, <1>4 DEF Translation, Mapped, Same, RomExtAt, Bank
<1>11. Copy'
  <2>1. Pending = {9} /\ Pending' = {9}
    BY <1>1 DEF Pending
  <2>2. \A k \in Entries \ {9} : Copied(k)'
    BY <1>0, <1>1, <1>4, <2>1 DEF Copy, Copied, Same
  <2>3. CopyNapot(9, OwnerVirtual, LockedReadOnly)'
    BY <1>0, <1>1 DEF Copy, CopyNapot, Same
  <2> QED
    BY <1>1, <2>1, <2>2, <2>3 DEF Copy
<1> QED
  BY <1>5, <1>6, <1>7, <1>8, <1>9, <1>10, <1>11 DEF IInv

LEMMA RomUnlockRxWriteInv ==
  ASSUME IInv, Write, Same, pc = "rom_unlock_rx"
  PROVE  IInv'
<1>0. TypeOK /\ NoFailure /\ ImagesChecked /\ Translation /\ FixedEntries /\ DebugRomEntry
      /\ RomExtEntries /\ OwnerEntries /\ Copy
  BY DEF IInv
<1>1. Stage = 6 /\ Stage' = 6 /\ pc' = pc
  BY SameFacts DEF Stage, Same
<1>2. PICK r : r = RomExtText
  OBVIOUS
<1>3. r.start \in 0 .. AddressEnd /\ r.end \in 0 .. AddressEnd
  <2>1. /\ romExt.slot \in Slots /\ romExt.image \in Images
        /\ ManifestCheck(romExt.image, RomExtSizeMax)
    BY <1>0, <1>1, TypeFacts DEF ImagesChecked, Held
  <2> QED
    BY <1>2, <2>1, RomExtRegion DEF RomExtText
<1>4. OpeningTor(4, r, LockedReadExecute)' /\ Apart({3, 4})
      /\ pmpcfg'[3] = pmpcfg[3] /\ ops # <<>>
  <2>1. OpeningTor(4, r, LockedReadExecute)
    BY <1>0, <1>1, <1>2 DEF RomExtEntries
  <2>2. /\ OpeningTor(4, r, LockedReadExecute)' /\ Apart({4 - 1, 4})
        /\ pmpcfg'[4 - 1] = pmpcfg[4 - 1] /\ ops # <<>>
    BY <1>0, <1>3, <2>1, TypeFacts, Permissions, TorStep
  <2> QED
    BY <2>2
<1>5. /\ pmpaddr' \in AddrType /\ pmpcfg' \in CfgType /\ remap' = remap
      /\ \A j \in Entries \ {3, 4} : pmpaddr'[j] = pmpaddr[j] /\ pmpcfg'[j] = pmpcfg[j]
      /\ pmpcfg'[3] = pmpcfg[3]
  BY <1>4 DEF Apart
<1>6. TypeOK'
  BY <1>0, <1>4, <1>5, OpeningLength, SameTypes, TypeFacts
<1>7. NoFailure' /\ ImagesChecked'
  BY <1>0, SameFacts
<1>8. Idle' /\ Initialising'
  BY <1>1 DEF Idle, Initialising
<1>9. FixedEntries' /\ DebugRomEntry' /\ OwnerEntries'
  BY <1>0, <1>1, <1>5, SameFacts DEF FixedEntries, DebugRomEntry, OwnerEntries, Shut, OpenedNapot,
     OpenedTor, Entries, Same
<1>10. RomExtEntries'
  <2>1. RomExtText' = r
    BY <1>2, SameFacts
  <2>2. OpeningTor(4, RomExtText, LockedReadExecute)'
    BY <1>4, <2>1 DEF OpeningTor, OpenedTor
  <2> QED
    BY <1>0, <1>1, <1>5, <2>2 DEF RomExtEntries, Shut, OpenedNapot, Entries, Same
<1>11. Translation'
  BY <1>0, <1>1, <1>5 DEF Translation, Mapped, Same, RomExtAt, Bank
<1>12. Copy'
  <2>1. Pending = {3, 4} /\ Pending' = {3, 4}
    BY <1>1 DEF Pending
  <2>2. \A k \in Entries \ {3, 4} : Copied(k)'
    BY <1>0, <1>1, <1>5, <2>1 DEF Copy, Copied, Same
  <2>3. CopyTor(4, RomExtText, LockedReadExecute)'
    BY <1>0, <1>1, SameFacts DEF Copy, CopyTor, Same
  <2> QED
    BY <1>1, <2>1, <2>2, <2>3 DEF Copy
<1> QED
  BY <1>6, <1>7, <1>8, <1>9, <1>10, <1>11, <1>12 DEF IInv

LEMMA ExtUnlockRxWriteInv ==
  ASSUME IInv, Write, Same, pc = "ext_unlock_rx"
  PROVE  IInv'
<1>0. TypeOK /\ NoFailure /\ ImagesChecked /\ Translation /\ FixedEntries /\ DebugRomEntry
      /\ RomExtEntries /\ OwnerEntries /\ Copy
  BY DEF IInv
<1>1. Stage = 10 /\ Stage' = 10 /\ pc' = pc
  BY SameFacts DEF Stage, Same
<1>2. PICK r : r = OwnerText
  OBVIOUS
<1>3. r.start \in 0 .. AddressEnd /\ r.end \in 0 .. AddressEnd
  <2>1. /\ owner \in Slots /\ owners[owner] \in Images
        /\ ManifestCheck(owners[owner], OwnerSizeMax)
    BY <1>0, <1>1, TypeFacts DEF ImagesChecked, Held
  <2> QED
    BY <1>2, <2>1, OwnerRegion DEF OwnerText
<1>4. OpeningTor(8, r, LockedReadExecute)' /\ Apart({7, 8})
      /\ pmpcfg'[7] = pmpcfg[7] /\ ops # <<>>
  <2>1. OpeningTor(8, r, LockedReadExecute)
    BY <1>0, <1>1, <1>2 DEF OwnerEntries
  <2>2. /\ OpeningTor(8, r, LockedReadExecute)' /\ Apart({8 - 1, 8})
        /\ pmpcfg'[8 - 1] = pmpcfg[8 - 1] /\ ops # <<>>
    BY <1>0, <1>3, <2>1, TypeFacts, Permissions, TorStep
  <2> QED
    BY <2>2
<1>5. /\ pmpaddr' \in AddrType /\ pmpcfg' \in CfgType /\ remap' = remap
      /\ \A j \in Entries \ {7, 8} : pmpaddr'[j] = pmpaddr[j] /\ pmpcfg'[j] = pmpcfg[j]
      /\ pmpcfg'[7] = pmpcfg[7]
  BY <1>4 DEF Apart
<1>6. TypeOK'
  BY <1>0, <1>4, <1>5, OpeningLength, SameTypes, TypeFacts
<1>7. NoFailure' /\ ImagesChecked'
  BY <1>0, SameFacts
<1>8. Idle' /\ Initialising'
  BY <1>1 DEF Idle, Initialising
<1>9. FixedEntries' /\ DebugRomEntry' /\ RomExtEntries'
  BY <1>0, <1>1, <1>5, SameFacts DEF FixedEntries, DebugRomEntry, RomExtEntries, Shut, OpenedNapot,
     OpenedTor, Entries, Same
<1>10. OwnerEntries'
  <2>1. OwnerText' = r
    BY <1>2, SameFacts
  <2>2. OpeningTor(8, OwnerText, LockedReadExecute)'
    BY <1>4, <2>1 DEF OpeningTor, OpenedTor
  <2> QED
    BY <1>0, <1>1, <1>5, <2>2 DEF OwnerEntries, Shut, OpenedNapot, Entries, Same
<1>11. Translation'
  BY <1>0, <1>1, <1>5 DEF Translation, Mapped, Same, RomExtAt, Bank
<1>12. Copy'
  <2>1. Pending = {7, 8} /\ Pending' = {7, 8}
    BY <1>1 DEF Pending
  <2>2. \A k \in Entries \ {7, 8} : Copied(k)'
    BY <1>0, <1>1, <1>5, <2>1 DEF Copy, Copied, Same
  <2>3. CopyTor(8, OwnerText, LockedReadExecute)'
    BY <1>0, <1>1, SameFacts DEF Copy, CopyTor, Same
  <2> QED
    BY <1>1, <2>1, <2>2, <2>3 DEF Copy
<1> QED
  BY <1>6, <1>7, <1>8, <1>9, <1>10, <1>11, <1>12 DEF IInv

-----------------------------------------------------------------------------
(* What the entries hold, in every state *)

Contents ==
  /\ \A i \in {0, 3, 7, 10, 12} : Shut(i)
  /\ Shut(1) \/ OpenedTor(1, RomText, LockedReadExecute)
  /\ \/ OpenedNapot(2, Rom, LockedReadOnly)
     \/ Early /\ \E r \in {ResetText, Rom} : OpenedNapot(2, r, LockedReadExecute)
  /\ Shut(4) \/ (Stage >= 6 /\ OpenedTor(4, RomExtText, LockedReadExecute))
  /\ Shut(5) \/ OpenedNapot(5, Flash, LockedReadOnly)
  /\ Shut(6) \/ OpenedNapot(6, RomExtVirtual, LockedReadOnly)
  /\ Shut(8) \/ (Stage >= 10 /\ OpenedTor(8, OwnerText, LockedReadExecute))
  /\ Shut(9) \/ OpenedNapot(9, OwnerVirtual, LockedReadOnly)
  /\ \E b \in {Mmio.start, ResetMmio.start}, e \in {Mmio.end, ResetMmio.end} :
       OpenedTor(11, [start |-> b, end |-> e], LockedReadWrite)
  /\ \/ Shut(13)
     \/ OpenedNapot(13, DebugRom, LockedNoAccess)
     \/ DebugOpen /\ OpenedNapot(13, DebugRom, LockedReadWriteExecute)
  /\ Shut(14) \/ (pmpaddr[14] = Guard /\ pmpcfg[14] = Na4 \cup LockedNoAccess)
  /\ Shut(15) \/ OpenedNapot(15, Ram, LockedReadWrite)

\* How many registers rom_epmp_init has written.
LEMMA EarlyLayout ==
  ASSUME IInv, Early
  PROVE  \E n \in 0 .. 15 :
           /\ pc = "rom_epmp_init" /\ ops = <<>> => n = 15
           /\ \A i \in Entries :
                /\ pmpaddr[i] = IF Position(i) <= n THEN HomeAddr[i] ELSE ResetAddr[i]
                /\ pmpcfg[i] = IF 12 + (i \div 4) <= n THEN HomeCfg[i] ELSE ResetCfg[i]
<1>1. CASE pc = "reset"
  <2>1. \A i \in Entries : ~(Position(i) <= 0) /\ ~(12 + (i \div 4) <= 0)
    BY DEF Position, Entries
  <2>2. pmpaddr = ResetAddr /\ pmpcfg = ResetCfg
    BY <1>1 DEF IInv, Initialising
  <2>3. \A i \in Entries :
          /\ pmpaddr[i] = IF Position(i) <= 0 THEN HomeAddr[i] ELSE ResetAddr[i]
          /\ pmpcfg[i] = IF 12 + (i \div 4) <= 0 THEN HomeCfg[i] ELSE ResetCfg[i]
    BY <2>1, <2>2
  <2>4. 0 \in 0 .. 15
    OBVIOUS
  <2> QED
    BY <1>1, <2>3, <2>4
<1>2. CASE pc = "rom_epmp_init"
  <2>1. PICK n \in 0 .. 15 : n = Written
    BY <1>2 DEF IInv, Initialising
  <2>2. \A i \in Entries :
          /\ pmpaddr[i] = IF Position(i) <= n THEN HomeAddr[i] ELSE ResetAddr[i]
          /\ pmpcfg[i] = IF 12 + (i \div 4) <= n THEN HomeCfg[i] ELSE ResetCfg[i]
    BY <1>2, <2>1 DEF IInv, Initialising
  <2>3. ops = <<>> => n = 15
    <3>1. Len(InitOps) = 15
      BY InitOpsAre
    <3> QED
      BY <2>1, <3>1 DEF Written
  <2> QED
    BY <2>1, <2>2, <2>3
<1> QED
  BY <1>1, <1>2 DEF Early

LEMMA EarlyContents ==
  ASSUME IInv, Early
  PROVE  Contents
<1>1. PICK n \in 0 .. 15 : \A i \in Entries :
        /\ pmpaddr[i] = IF Position(i) <= n THEN HomeAddr[i] ELSE ResetAddr[i]
        /\ pmpcfg[i] = IF 12 + (i \div 4) <= n THEN HomeCfg[i] ELSE ResetCfg[i]
  BY EarlyLayout
<1>2. \A i \in {0, 3, 4, 6, 7, 8, 9, 10, 12} : Shut(i)
  <2>1. \A i \in {0, 3, 4, 6, 7, 8, 9, 10, 12} : i \in Entries /\ HomeCfg[i] = {} /\ ResetCfg[i] = {}
    BY DEF HomeCfg, ResetCfg, Entries
  <2> QED
    BY <1>1, <2>1 DEF Shut
<1>3. Shut(1) \/ OpenedTor(1, RomText, LockedReadExecute)
  <2>1. /\ pmpaddr[0] = IF 1 <= n THEN RomText.start ELSE 0
        /\ pmpaddr[1] = IF 2 <= n THEN RomText.end ELSE 0
        /\ pmpcfg[1] = IF 12 <= n THEN Tor \cup LockedReadExecute ELSE {}
    BY <1>1 DEF HomeAddr, HomeCfg, ResetAddr, ResetCfg, Entries, Position
  <2> QED
    BY <2>1 DEF Shut, OpenedTor
<1>4. \/ OpenedNapot(2, Rom, LockedReadOnly)
      \/ Early /\ \E r \in {ResetText, Rom} : OpenedNapot(2, r, LockedReadExecute)
  <2>1. /\ pmpaddr[2] = IF 3 <= n THEN Encoded(Rom) ELSE Encoded(ResetText)
        /\ pmpcfg[2] = IF 12 <= n THEN Napot \cup LockedReadOnly ELSE Napot \cup LockedReadExecute
    BY <1>1 DEF HomeAddr, HomeCfg, ResetAddr, ResetCfg, Entries, Position
  <2> QED
    BY <2>1 DEF OpenedNapot
<1>5. Shut(5) \/ OpenedNapot(5, Flash, LockedReadOnly)
  <2>1. /\ pmpaddr[5] = IF 6 <= n THEN Encoded(Flash) ELSE 0
        /\ pmpcfg[5] = IF 13 <= n THEN Napot \cup LockedReadOnly ELSE {}
    BY <1>1 DEF HomeAddr, HomeCfg, ResetAddr, ResetCfg, Entries, Position
  <2> QED
    BY <2>1 DEF Shut, OpenedNapot
<1>6. \E b \in {Mmio.start, ResetMmio.start}, e \in {Mmio.end, ResetMmio.end} :
        OpenedTor(11, [start |-> b, end |-> e], LockedReadWrite)
  <2>1. /\ pmpaddr[10] \in {Mmio.start, ResetMmio.start}
        /\ pmpaddr[11] \in {Mmio.end, ResetMmio.end}
        /\ pmpcfg[11] = Tor \cup LockedReadWrite
    BY <1>1 DEF HomeAddr, HomeCfg, ResetAddr, ResetCfg, Entries
  <2>2. 11 - 1 = 10
    OBVIOUS
  <2> QED
    BY <2>1, <2>2 DEF OpenedTor
<1>7. DebugOpen /\ OpenedNapot(13, DebugRom, LockedReadWriteExecute)
  <2>1. /\ pmpaddr[13] = Encoded(DebugRom)
        /\ pmpcfg[13] = Napot \cup LockedReadWriteExecute
    BY <1>1 DEF HomeAddr, HomeCfg, ResetAddr, ResetCfg, Entries
  <2> QED
    BY <2>1 DEF OpenedNapot, DebugOpen
<1>8. Shut(14) \/ (pmpaddr[14] = Guard /\ pmpcfg[14] = Na4 \cup LockedNoAccess)
  <2>1. /\ pmpaddr[14] = IF 10 <= n THEN Guard ELSE 0
        /\ pmpcfg[14] = IF 15 <= n THEN Na4 \cup LockedNoAccess ELSE {}
    BY <1>1 DEF HomeAddr, HomeCfg, ResetAddr, ResetCfg, Entries, Position
  <2> QED
    BY <2>1 DEF Shut
<1>9. Shut(15) \/ OpenedNapot(15, Ram, LockedReadWrite)
  <2>1. /\ pmpaddr[15] = IF 11 <= n THEN Encoded(Ram) ELSE 0
        /\ pmpcfg[15] = IF 15 <= n THEN Napot \cup LockedReadWrite ELSE {}
    BY <1>1 DEF HomeAddr, HomeCfg, ResetAddr, ResetCfg, Entries, Position
  <2> QED
    BY <2>1 DEF Shut, OpenedNapot
<1> QED
  BY <1>2, <1>3, <1>4, <1>5, <1>6, <1>7, <1>8, <1>9 DEF Contents

\* After rom_epmp_init, most of them are fixed.
Settled ==
  /\ OpenedTor(1, RomText, LockedReadExecute) /\ OpenedNapot(2, Rom, LockedReadOnly)
  /\ OpenedNapot(5, Flash, LockedReadOnly) /\ OpenedTor(11, Mmio, LockedReadWrite)
  /\ pmpaddr[14] = Guard /\ pmpcfg[14] = Na4 \cup LockedNoAccess
  /\ OpenedNapot(15, Ram, LockedReadWrite)

LEMMA SettledFrom ==
  ASSUME \A i \in {0, 1, 2, 5, 10, 11, 12, 14, 15} :
           pmpaddr[i] = HomeAddr[i] /\ pmpcfg[i] = HomeCfg[i]
  PROVE  Settled /\ Shut(0) /\ Shut(10) /\ Shut(12)
<1>1. 1 - 1 = 0 /\ 11 - 1 = 10
  OBVIOUS
<1>2. /\ pmpaddr[0] = RomText.start /\ pmpaddr[1] = RomText.end
      /\ pmpaddr[2] = Encoded(Rom) /\ pmpaddr[5] = Encoded(Flash)
      /\ pmpaddr[10] = Mmio.start /\ pmpaddr[11] = Mmio.end
      /\ pmpaddr[14] = Guard /\ pmpaddr[15] = Encoded(Ram)
  BY DEF HomeAddr, Entries
<1>3. /\ pmpcfg[0] = {} /\ pmpcfg[10] = {} /\ pmpcfg[12] = {}
      /\ pmpcfg[1] = Tor \cup LockedReadExecute /\ pmpcfg[2] = Napot \cup LockedReadOnly
      /\ pmpcfg[5] = Napot \cup LockedReadOnly /\ pmpcfg[11] = Tor \cup LockedReadWrite
      /\ pmpcfg[14] = Na4 \cup LockedNoAccess /\ pmpcfg[15] = Napot \cup LockedReadWrite
  BY DEF HomeCfg, Entries
<1> QED
  BY <1>1, <1>2, <1>3 DEF Settled, Shut, OpenedTor, OpenedNapot

LEMMA StageFacts ==
  ASSUME IInv
  PROVE  /\ Stage \in 0 .. 11
         /\ Early <=> Stage <= 1
         /\ Opened <=> Stage >= 10
         /\ InRom <=> Stage \in 2 .. 6
         /\ InExt => Stage \in 7 .. 10
         /\ pc = "config_debug_rom" <=> Stage = 2
         /\ Stage = 4 => pc \in {"rom_remap", "rom_boot"}
         /\ Stage = 8 => pc \in {"ext_remap", "ext_boot"}
<1>1. pc \in Pcs \ {"bad_check", "rom_ext_trap"}
  BY TypeFacts DEF IInv, NoFailure
<1>2. ASSUME pc = "reset"
      PROVE  Stage = 0
  BY <1>2 DEF Stage
<1>3. ASSUME pc = "rom_epmp_init"
      PROVE  Stage = 1
  BY <1>3 DEF Stage
<1>4. ASSUME pc = "config_debug_rom"
      PROVE  Stage = 2
  BY <1>4 DEF Stage
<1>5. ASSUME pc = "rom"
      PROVE  Stage = 3
  BY <1>5 DEF Stage
<1>6. ASSUME pc \in {"rom_remap", "rom_boot"}
      PROVE  Stage = 4
  BY <1>6 DEF Stage
<1>7. ASSUME pc = "rom_unlock_r"
      PROVE  Stage = 5
  BY <1>7 DEF Stage
<1>8. ASSUME pc = "rom_unlock_rx"
      PROVE  Stage = 6
  BY <1>8 DEF Stage
<1>9. ASSUME pc \in {"rom_ext", "shutdown"}
      PROVE  Stage = 7
  BY <1>9 DEF Stage
<1>10. ASSUME pc \in {"ext_remap", "ext_boot"}
      PROVE  Stage = 8
  BY <1>10 DEF Stage
<1>11. ASSUME pc = "ext_unlock_r"
      PROVE  Stage = 9
  BY <1>11 DEF Stage
<1>12. ASSUME pc = "ext_unlock_rx"
      PROVE  Stage = 10
  BY <1>12 DEF Stage
<1>13. ASSUME pc \in {"owner", "owner_trap"}
      PROVE  Stage = 11
  BY <1>13 DEF Stage
<1> QED
  BY <1>1, <1>2, <1>3, <1>4, <1>5, <1>6, <1>7, <1>8, <1>9, <1>10, <1>11, <1>12, <1>13
     DEF Pcs, Early, Opened, InRom, InExt

LEMMA LaterContents ==
  ASSUME IInv, ~Early
  PROVE  Contents /\ Settled
<1>0. FixedEntries /\ DebugRomEntry /\ RomExtEntries /\ OwnerEntries
  BY DEF IInv
<1>1. Stage \in 2 .. 11
  BY StageFacts
<1>2. Settled /\ Shut(0) /\ Shut(10) /\ Shut(12) /\ Shut(3) /\ Shut(7)
  BY <1>0, <1>1, SettledFrom DEF FixedEntries
<1>3. Shut(4) \/ (Stage >= 6 /\ OpenedTor(4, RomExtText, LockedReadExecute))
  BY <1>0, <1>1 DEF RomExtEntries, OpeningTor
<1>4. Shut(6) \/ OpenedNapot(6, RomExtVirtual, LockedReadOnly)
  BY <1>0, <1>1 DEF RomExtEntries, OpeningNapot, Shut
<1>5. Shut(8) \/ (Stage >= 10 /\ OpenedTor(8, OwnerText, LockedReadExecute))
  BY <1>0, <1>1 DEF OwnerEntries, OpeningTor
<1>6. Shut(9) \/ OpenedNapot(9, OwnerVirtual, LockedReadOnly)
  BY <1>0, <1>1 DEF OwnerEntries, OpeningNapot, Shut
<1>7. \/ Shut(13)
      \/ OpenedNapot(13, DebugRom, LockedNoAccess)
      \/ DebugOpen /\ OpenedNapot(13, DebugRom, LockedReadWriteExecute)
  <2>1. OpenedNapot(13, DebugRom, DebugRomCfg) =>
          \/ OpenedNapot(13, DebugRom, LockedNoAccess)
          \/ DebugOpen /\ OpenedNapot(13, DebugRom, LockedReadWriteExecute)
    BY DEF DebugRomCfg, DebugOpen
  <2>2. CASE Stage = 2
    <3>1. OpeningNapot(13, DebugRom, DebugRomCfg, Napot \cup LockedReadWriteExecute)
          /\ pmpaddr[13] = Encoded(DebugRom)
      BY <1>0, <2>2 DEF DebugRomEntry
    <3>2. \/ pmpcfg[13] = Napot \cup LockedReadWriteExecute
          \/ Shut(13)
          \/ OpenedNapot(13, DebugRom, DebugRomCfg)
      BY <3>1 DEF OpeningNapot
    <3>3. DebugOpen
      BY <2>2, StageFacts DEF DebugOpen
    <3> QED
      BY <2>1, <3>1, <3>2, <3>3 DEF OpenedNapot
  <2>3. CASE Stage > 2
    BY <1>0, <2>1, <2>3 DEF DebugRomEntry
  <2> QED
    BY <1>1, <2>2, <2>3
<1>8. \E b \in {Mmio.start, ResetMmio.start}, e \in {Mmio.end, ResetMmio.end} :
        OpenedTor(11, [start |-> b, end |-> e], LockedReadWrite)
  BY <1>2 DEF Settled, OpenedTor
<1> QED
  BY <1>2, <1>3, <1>4, <1>5, <1>6, <1>7, <1>8 DEF Contents, Settled

LEMMA ContentsHold ==
  ASSUME IInv
  PROVE  Contents
BY EarlyContents, LaterContents

-----------------------------------------------------------------------------
(* Matching *)

LEMMA Modes ==
  /\ Tor # Na4 /\ Tor # Napot /\ Na4 # Napot
  /\ {} \cap Napot # Tor /\ {} \cap Napot # Na4 /\ {} \cap Napot # Napot
  /\ \A p \in {LockedNoAccess, LockedReadOnly, LockedReadWrite, LockedReadExecute,
               LockedReadWriteExecute} :
       /\ (Tor \cup p) \cap Napot = Tor
       /\ (Na4 \cup p) \cap Napot = Na4
       /\ (Napot \cup p) \cap Napot = Napot
BY DEF Tor, Na4, Napot, LockedNoAccess, LockedReadOnly, LockedReadWrite, LockedReadExecute,
   LockedReadWriteExecute

\* What an entry lets through that matches first.
Grants(i, t) == "L" \in pmpcfg[i] => t \in pmpcfg[i]

LEMMA ModeRights ==
  ASSUME NEW i \in Entries, NEW t \in Access, NEW m \in {Tor, Na4, Napot}
  PROVE  /\ pmpcfg[i] = m \cup LockedNoAccess => ~Grants(i, t)
         /\ pmpcfg[i] = m \cup LockedReadOnly => (Grants(i, t) <=> t = "R")
         /\ pmpcfg[i] = m \cup LockedReadWrite => (Grants(i, t) <=> t \in {"R", "W"})
         /\ pmpcfg[i] = m \cup LockedReadExecute => (Grants(i, t) <=> t \in {"R", "X"})
         /\ pmpcfg[i] = m \cup LockedReadWriteExecute => Grants(i, t)
BY DEF Grants, Access, Tor, Na4, Napot, LockedNoAccess, LockedReadOnly, LockedReadWrite,
   LockedReadExecute, LockedReadWriteExecute

LEMMA ShutMatch ==
  ASSUME NEW i \in Entries, NEW a, Shut(i)
  PROVE  ~Matches(i, a) /\ pmpcfg[i] \cap Napot # Tor
BY Modes DEF Shut, Matches

LEMMA NapotMatch ==
  ASSUME NEW i \in Entries, NEW r \in Regions, Aligned(r), NEW a \in Address, NEW p,
         p \in {LockedNoAccess, LockedReadOnly, LockedReadWrite, LockedReadExecute,
               LockedReadWriteExecute},
         OpenedNapot(i, r, p)
  PROVE  (Matches(i, a) <=> a \in In(r)) /\ pmpcfg[i] \cap Napot # Tor
<1>1. pmpcfg[i] \cap Napot = Napot /\ pmpaddr[i] = Encoded(r)
  BY Modes, Zenon DEF OpenedNapot
<1>2. Matches(i, a) <=> SameBlock(Encoded(r), a)
  BY <1>1, Modes DEF Matches
<1>3. SameBlock(Encoded(r), a) <=> a \in In(r)
  <2>1. r \in [start : Nat, end : Nat] /\ a \in Nat
    BY RegionBounds, EpmpAssumption DEF Address
  <2> QED
    BY <2>1, BlockOfEncoded
<1> QED
  BY <1>1, <1>2, <1>3, Modes

LEMMA TorMatch ==
  ASSUME NEW i \in Entries \ {0}, NEW r, NEW a \in Address, NEW p,
         p \in {LockedNoAccess, LockedReadOnly, LockedReadWrite, LockedReadExecute,
               LockedReadWriteExecute},
         r.start \in Int, r.end \in Int,
         OpenedTor(i, r, p)
  PROVE  Matches(i, a) <=> a \in In(r)
<1>1. pmpcfg[i] \cap Napot = Tor /\ pmpaddr[i - 1] = r.start /\ pmpaddr[i] = r.end
  BY Modes, Zenon DEF OpenedTor
<1>2. i > 0 /\ a \in Int
  BY EpmpAssumption DEF Entries, Address
<1>3. Matches(i, a) <=> r.start <= a /\ a < r.end
  BY <1>1, <1>2, Modes DEF Matches
<1> QED
  BY <1>2, <1>3 DEF In

LEMMA Na4Match ==
  ASSUME NEW i \in Entries, NEW a, NEW g, pmpaddr[i] = g, pmpcfg[i] = Na4 \cup LockedNoAccess
  PROVE  (Matches(i, a) <=> a = g) /\ pmpcfg[i] \cap Napot # Tor
<1>1. pmpcfg[i] \cap Napot = Na4
  BY Modes, Zenon
<1> QED
  BY <1>1, Modes DEF Matches

-----------------------------------------------------------------------------
(* What an address can match, and what it then allows *)

Reaches(a) ==
  /\ \A i \in {0, 3, 7, 10, 12} : ~Matches(i, a)
  /\ Matches(1, a) => a \in In(RomText)
  /\ Matches(2, a) => a \in In(Rom)
  /\ Matches(4, a) => Stage >= 6 /\ a \in In(RomExtText)
  /\ Matches(5, a) => a \in In(Flash)
  /\ Matches(6, a) => a \in In(RomExtVirtual)
  /\ Matches(8, a) => Stage >= 10 /\ a \in In(OwnerText)
  /\ Matches(9, a) => a \in In(OwnerVirtual)
  /\ Matches(11, a) => a \in In(Mmio)
  /\ Matches(13, a) => a \in In(DebugRom)
  /\ Matches(14, a) => a = Guard
  /\ Matches(15, a) => a \in In(Ram)

Rights(a, t) ==
  /\ Matches(1, a) => (Grants(1, t) <=> t \in {"R", "X"})
  /\ Matches(2, a) => Grants(2, "R") /\ (Grants(2, t) => t = "R" \/ (t = "X" /\ Early))
  /\ Matches(4, a) => (Grants(4, t) <=> t \in {"R", "X"})
  /\ Matches(5, a) => (Grants(5, t) <=> t = "R")
  /\ Matches(6, a) => (Grants(6, t) <=> t = "R")
  /\ Matches(8, a) => (Grants(8, t) <=> t \in {"R", "X"})
  /\ Matches(9, a) => (Grants(9, t) <=> t = "R")
  /\ Matches(11, a) => (Grants(11, t) <=> t \in {"R", "W"})
  /\ Matches(13, a) => (Grants(13, t) => DebugOpen)
  /\ Matches(14, a) => ~Grants(14, t)
  /\ Matches(15, a) => (Grants(15, t) <=> t \in {"R", "W"})

LEMMA TextRegions ==
  ASSUME IInv
  PROVE  /\ Stage >= 4 =>
              /\ romExt.slot \in Slots /\ romExt.image \in Images
              /\ ManifestCheck(romExt.image, RomExtSizeMax)
              /\ RomExtText.start \in 0 .. AddressEnd /\ RomExtText.end \in 0 .. AddressEnd
              /\ IF romExt.image.translated THEN Within(RomExtText, RomExtVirtual)
                                            ELSE Within(RomExtText, Flash)
         /\ Stage >= 8 =>
              /\ owner \in Slots /\ owners[owner] \in Images
              /\ ManifestCheck(owners[owner], OwnerSizeMax)
              /\ OwnerText.start \in 0 .. AddressEnd /\ OwnerText.end \in 0 .. AddressEnd
              /\ IF owners[owner].translated THEN Within(OwnerText, OwnerVirtual)
                                             ELSE Within(OwnerText, Flash)
<1>1. Held /\ ImagesChecked
  BY TypeFacts DEF IInv
<1>2. ASSUME Stage >= 4
      PROVE  /\ romExt.slot \in Slots /\ romExt.image \in Images
             /\ ManifestCheck(romExt.image, RomExtSizeMax)
  BY <1>1, <1>2 DEF Held, ImagesChecked
<1>3. ASSUME Stage >= 8
      PROVE  /\ owner \in Slots /\ owners[owner] \in Images
             /\ ManifestCheck(owners[owner], OwnerSizeMax)
  BY <1>1, <1>3 DEF Held, ImagesChecked
<1> QED
  BY <1>2, <1>3, RomExtRegion, OwnerRegion DEF RomExtText, OwnerText

LEMMA InWithin ==
  ASSUME NEW r, NEW s, NEW a \in Int, r.start \in Int, r.end \in Int, s.start \in Int,
         s.end \in Int, Within(r, s), a \in In(r)
  PROVE  a \in In(s)
BY DEF Within, In

LEMMA Reaching ==
  ASSUME IInv, NEW a \in Address
  PROVE  Reaches(a)
<1>0. Contents
  BY ContentsHold
<1>1. \A i \in {0, 3, 7, 10, 12} : i \in Entries
  BY DEF Entries
<1>2. /\ 1 \in Entries \ {0} /\ 2 \in Entries /\ 4 \in Entries \ {0} /\ 5 \in Entries
      /\ 6 \in Entries /\ 8 \in Entries \ {0} /\ 9 \in Entries /\ 11 \in Entries \ {0}
      /\ 13 \in Entries /\ 14 \in Entries /\ 15 \in Entries
  BY DEF Entries
<1>3. \A i \in {0, 3, 7, 10, 12} : ~Matches(i, a)
  BY <1>0, <1>1, ShutMatch DEF Contents
<1>4. Matches(1, a) => a \in In(RomText)
  <2>1. RomText.start \in Int /\ RomText.end \in Int
    BY MapTypes, RegionBounds
  <2> QED
    BY <1>0, <1>2, <2>1, ShutMatch, TorMatch DEF Contents
<1>5. Matches(2, a) => a \in In(Rom)
  <2>1. \A r \in {ResetText, Rom} : Aligned(r) /\ r \in Regions
    BY AlignedRegions
  <2>2. a \in In(ResetText) => a \in In(Rom)
    <3>1. \A r \in {ResetText, RomText, Rom} : r.start \in Int /\ r.end \in Int
      BY MapTypes, RegionBounds
    <3>2. Within(ResetText, RomText) /\ Within(RomText, Rom) /\ a \in Int
      BY HandoverAssumption, EpmpAssumption DEF Address
    <3> QED
      BY <3>1, <3>2, InWithin
  <2>3. \E r \in {ResetText, Rom} : OpenedNapot(2, r, LockedReadOnly)
                                    \/ OpenedNapot(2, r, LockedReadExecute)
    BY <1>0 DEF Contents
  <2> QED
    BY <1>2, <2>1, <2>2, <2>3, NapotMatch
<1>6. Matches(4, a) => Stage >= 6 /\ a \in In(RomExtText)
  <2>1. CASE Shut(4)
    BY <1>2, <2>1, ShutMatch
  <2>2. CASE Stage >= 6 /\ OpenedTor(4, RomExtText, LockedReadExecute)
    <3>1. RomExtText.start \in Int /\ RomExtText.end \in Int
      BY <2>2, TextRegions, StageFacts
    <3> QED
      BY <1>2, <2>2, <3>1, TorMatch
  <2> QED
    BY <1>0, <2>1, <2>2 DEF Contents
<1>7. Matches(5, a) => a \in In(Flash)
  BY <1>0, <1>2, AlignedRegions, ShutMatch, NapotMatch DEF Contents
<1>8. Matches(6, a) => a \in In(RomExtVirtual)
  BY <1>0, <1>2, AlignedRegions, ShutMatch, NapotMatch DEF Contents
<1>9. Matches(8, a) => Stage >= 10 /\ a \in In(OwnerText)
  <2>1. CASE Shut(8)
    BY <1>2, <2>1, ShutMatch
  <2>2. CASE Stage >= 10 /\ OpenedTor(8, OwnerText, LockedReadExecute)
    <3>1. OwnerText.start \in Int /\ OwnerText.end \in Int
      BY <2>2, TextRegions, StageFacts
    <3> QED
      BY <1>2, <2>2, <3>1, TorMatch
  <2> QED
    BY <1>0, <2>1, <2>2 DEF Contents
<1>10. Matches(9, a) => a \in In(OwnerVirtual)
  BY <1>0, <1>2, AlignedRegions, ShutMatch, NapotMatch DEF Contents
<1>11. Matches(11, a) => a \in In(Mmio)
  <2>1. PICK b \in {Mmio.start, ResetMmio.start}, e \in {Mmio.end, ResetMmio.end} :
          OpenedTor(11, [start |-> b, end |-> e], LockedReadWrite)
    BY <1>0 DEF Contents
  <2>2. /\ Mmio.start \in Int /\ Mmio.end \in Int /\ ResetMmio.start \in Int /\ ResetMmio.end \in Int
        /\ Mmio.start <= ResetMmio.start /\ ResetMmio.end <= Mmio.end
    BY MapTypes, RegionBounds, HandoverAssumption DEF Within
  <2>3. b \in Int /\ e \in Int /\ Mmio.start <= b /\ e <= Mmio.end /\ a \in Int
    BY <2>2, EpmpAssumption DEF Address
  <2>4. Matches(11, a) => a \in In([start |-> b, end |-> e])
    BY <1>2, <2>1, <2>3, TorMatch
  <2> QED
    BY <2>2, <2>3, <2>4 DEF In
<1>12. Matches(13, a) => a \in In(DebugRom)
  BY <1>0, <1>2, AlignedRegions, ShutMatch, NapotMatch DEF Contents
<1>13. Matches(14, a) => a = Guard
  BY <1>0, <1>2, ShutMatch, Na4Match DEF Contents
<1>14. Matches(15, a) => a \in In(Ram)
  BY <1>0, <1>2, AlignedRegions, ShutMatch, NapotMatch DEF Contents
<1> QED
  BY <1>3, <1>4, <1>5, <1>6, <1>7, <1>8, <1>9, <1>10, <1>11, <1>12, <1>13, <1>14 DEF Reaches

LEMMA Granting ==
  ASSUME IInv, NEW a \in Address, NEW t \in Access
  PROVE  Rights(a, t)
<1>0. Contents
  BY ContentsHold
<1>1. /\ 1 \in Entries /\ 2 \in Entries /\ 4 \in Entries /\ 5 \in Entries
      /\ 6 \in Entries /\ 8 \in Entries /\ 9 \in Entries /\ 11 \in Entries
      /\ 13 \in Entries /\ 14 \in Entries /\ 15 \in Entries
  BY DEF Entries
<1>2. Tor \in {Tor, Na4, Napot} /\ Na4 \in {Tor, Na4, Napot} /\ Napot \in {Tor, Na4, Napot}
  OBVIOUS
<1>3. Matches(1, a) => (Grants(1, t) <=> t \in {"R", "X"})
  BY <1>0, <1>1, <1>2, ShutMatch, ModeRights DEF Contents, OpenedTor
<1>4. Matches(2, a) => Grants(2, "R") /\ (Grants(2, t) => t = "R" \/ (t = "X" /\ Early))
  <2>1. "R" \in Access
    BY DEF Access
  <2> QED
    BY <1>0, <1>1, <1>2, <2>1, ModeRights DEF Contents, OpenedNapot
<1>5. Matches(4, a) => (Grants(4, t) <=> t \in {"R", "X"})
  BY <1>0, <1>1, <1>2, ShutMatch, ModeRights DEF Contents, OpenedTor
<1>6. Matches(5, a) => (Grants(5, t) <=> t = "R")
  BY <1>0, <1>1, <1>2, ShutMatch, ModeRights DEF Contents, OpenedNapot
<1>7. Matches(6, a) => (Grants(6, t) <=> t = "R")
  BY <1>0, <1>1, <1>2, ShutMatch, ModeRights DEF Contents, OpenedNapot
<1>8. Matches(8, a) => (Grants(8, t) <=> t \in {"R", "X"})
  BY <1>0, <1>1, <1>2, ShutMatch, ModeRights DEF Contents, OpenedTor
<1>9. Matches(9, a) => (Grants(9, t) <=> t = "R")
  BY <1>0, <1>1, <1>2, ShutMatch, ModeRights DEF Contents, OpenedNapot
<1>10. Matches(11, a) => (Grants(11, t) <=> t \in {"R", "W"})
  BY <1>0, <1>1, <1>2, ModeRights DEF Contents, OpenedTor
<1>11. Matches(13, a) => (Grants(13, t) => DebugOpen)
  BY <1>0, <1>1, <1>2, ShutMatch, ModeRights DEF Contents, OpenedNapot
<1>12. Matches(14, a) => ~Grants(14, t)
  BY <1>0, <1>1, <1>2, ShutMatch, ModeRights DEF Contents
<1>13. Matches(15, a) => (Grants(15, t) <=> t \in {"R", "W"})
  BY <1>0, <1>1, <1>2, ShutMatch, ModeRights DEF Contents, OpenedNapot
<1> QED
  BY <1>3, <1>4, <1>5, <1>6, <1>7, <1>8, <1>9, <1>10, <1>11, <1>12, <1>13 DEF Rights

LEMMA AllowedFirst ==
  ASSUME NEW a, NEW t, NEW i \in Entries, Matches(i, a), \A j \in 0 .. i - 1 : ~Matches(j, a)
  PROVE  Grants(i, t) => Allowed(t, a)
BY DEF Allowed, Grants

LEMMA AllowedBy ==
  ASSUME NEW a, NEW t, Allowed(t, a)
  PROVE  \E i \in Entries : Matches(i, a) /\ Grants(i, t)
BY DEF Allowed, Grants

\* What can be fetched at most, and written.
LEMMA Fetched ==
  ASSUME IInv, NEW a \in Address, Allowed("X", a)
  PROVE  \/ a \in In(RomText)
         \/ Early /\ a \in In(Rom)
         \/ Stage >= 6 /\ a \in In(RomExtText)
         \/ Stage >= 10 /\ a \in In(OwnerText)
         \/ DebugOpen /\ a \in In(DebugRom)
<1>1. PICK i \in Entries : Matches(i, a) /\ Grants(i, "X")
  BY AllowedBy
<1>2. Reaches(a) /\ Rights(a, "X")
  BY Reaching, Granting DEF Access
<1>3. i \in {0, 1, 2, 3, 4, 5, 6, 7, 8, 9, 10, 11, 12, 13, 14, 15}
  BY DEF Entries
<1> QED
  BY <1>1, <1>2, <1>3 DEF Reaches, Rights

LEMMA Writable ==
  ASSUME IInv, NEW a \in Address, Allowed("W", a)
  PROVE  \/ a \in In(Mmio)
         \/ a \in In(Ram)
         \/ DebugOpen /\ a \in In(DebugRom)
<1>1. PICK i \in Entries : Matches(i, a) /\ Grants(i, "W")
  BY AllowedBy
<1>2. Reaches(a) /\ Rights(a, "W")
  BY Reaching, Granting DEF Access
<1>3. i \in {0, 1, 2, 3, 4, 5, 6, 7, 8, 9, 10, 11, 12, 13, 14, 15}
  BY DEF Entries
<1> QED
  BY <1>1, <1>2, <1>3 DEF Reaches, Rights

\* The code of a verified ROM_EXT lies apart from all of ROM.
LEMMA RomExtTextApart ==
  ASSUME IInv, Stage >= 4, NEW a \in Address, a \in In(RomExtText)
  PROVE  /\ romExt.image.translated => a \in In(RomExtVirtual)
         /\ ~romExt.image.translated => a \in In(Flash)
         /\ a \notin In(Rom) /\ a \notin In(RomText)
<1>1. a \in Int
  BY EpmpAssumption DEF Address
<1>2. /\ \A r \in {Rom, RomText, RomExtVirtual, Flash} : r.start \in Int /\ r.end \in Int
      /\ RomExtText.start \in Int /\ RomExtText.end \in Int
  BY MapTypes, RegionBounds, TextRegions
<1>3. /\ romExt.image.translated => a \in In(RomExtVirtual)
      /\ ~romExt.image.translated => a \in In(Flash)
  BY <1>1, <1>2, TextRegions, InWithin
<1>4. a \notin In(Rom)
  BY <1>1, <1>3, MapDisjoint
<1>5. a \notin In(RomText)
  BY <1>1, <1>2, <1>4, InWithin, HandoverAssumption
<1> QED
  BY <1>3, <1>4, <1>5

LEMMA RomExtFetchable ==
  ASSUME IInv, Stage >= 6, OpenedTor(4, RomExtText, LockedReadExecute),
         NEW a \in Address, a \in In(RomExtText)
  PROVE  Allowed("X", a) /\ Allowed("R", a)
<1>1. Matches(4, a) /\ 4 \in Entries
  <2>1. RomExtText.start \in Int /\ RomExtText.end \in Int /\ 4 \in Entries \ {0}
    BY TextRegions, StageFacts DEF Entries
  <2> QED
    BY <2>1, TorMatch
<1>2. Reaches(a) /\ Rights(a, "X") /\ Rights(a, "R")
  BY Reaching, Granting DEF Access
<1>3. a \notin In(Rom) /\ a \notin In(RomText)
  BY RomExtTextApart, StageFacts
<1>4. \A j \in 0 .. 4 - 1 : ~Matches(j, a)
  <2>1. \A j \in 0 .. 4 - 1 : j \in {0, 1, 2, 3}
    OBVIOUS
  <2> QED
    BY <1>2, <1>3, <2>1 DEF Reaches
<1>5. Grants(4, "X") /\ Grants(4, "R")
  BY <1>1, <1>2 DEF Rights
<1> QED
  BY <1>1, <1>4, <1>5, AllowedFirst

LEMMA RomJumpInv ==
  ASSUME IInv, RomJump
  PROVE  IInv'
<1>0. TypeOK /\ ImagesChecked /\ FixedEntries /\ DebugRomEntry /\ RomExtEntries
      /\ OwnerEntries /\ Translation /\ Copy
  BY DEF IInv
<1>1. /\ pc = "rom_unlock_rx" /\ Stage = 6 /\ Quiet /\ ops = <<>>
      /\ owners' = owners /\ owner' = owner /\ romExt' = romExt
  BY DEF RomJump, csrs, Stage, Quiet
<1>2. StateCheck /\ epmp_state \in States
  BY <1>0, <1>1, CheckSucceeds
<1>3. OpenedTor(4, RomExtText, LockedReadExecute)
  BY <1>0, <1>1 DEF RomExtEntries, OpeningTor, OpenTor
<1>4. Allowed("X", RomExtEntry)
  <2>1. RomExtEntry \in In(RomExtText) /\ RomExtText.start \in Nat /\ RomExtText.end \in 0 .. AddressEnd
    BY <1>1, TextRegions, RomExtRegion DEF RomExtText, RomExtEntry
  <2>2. RomExtEntry \in Address
    BY <2>1, EpmpAssumption DEF In, Address
  <2> QED
    BY <1>1, <1>3, <2>1, <2>2, RomExtFetchable
<1>5. pc' = "rom_ext" /\ Stage' = 7 /\ epmp_state' = epmp_state /\ ops' = ops
  BY <1>2, <1>4 DEF RomJump, Checked, Stage
<1>6. TypeOK'
  <2>1. Held'
    BY <1>0, <1>1, TypeFacts DEF Held
  <2>2. Len(ops') <= 15 /\ epmp_state' \in States /\ pc' \in Pcs /\ ~Uncopied'
    BY <1>0, <1>2, <1>5, TypeFacts DEF Uncopied, Pcs
  <2> QED
    BY <1>0, <1>1, <2>1, <2>2, QuietTypes
<1>7. NoFailure' /\ Idle' /\ Initialising' /\ ImagesChecked'
  BY <1>0, <1>1, <1>5 DEF NoFailure, Idle, Initialising, ImagesChecked
<1>8. FixedEntries' /\ DebugRomEntry' /\ OwnerEntries'
  BY <1>0, <1>1, <1>5 DEF FixedEntries, DebugRomEntry, OwnerEntries, Quiet,
     Shut, OpenedNapot, DebugRomCfg, Debuggable
<1>9. RomExtEntries'
  <2>1. RomExtText' = RomExtText
    BY <1>1 DEF RomExtText, RomExtBase, RomExtAt, Bank
  <2>2. IF romExt.image.translated THEN OpenedNapot(6, RomExtVirtual, LockedReadOnly) ELSE Shut(6)
    BY <1>0, <1>1 DEF RomExtEntries
  <2> QED
    BY <1>1, <1>3, <1>5, <2>1, <2>2 DEF RomExtEntries, Quiet, Shut, OpenedNapot, OpenedTor
<1>10. Translation'
  BY <1>0, <1>1, <1>5 DEF Translation, Mapped, Quiet, RomExtAt, Bank
<1>11. Copy'
  <2>1. \A i \in Entries : Copied(i)
    BY <1>2, TypeFacts, <1>0 DEF StateCheck, Copied
  <2> QED
    BY <1>1, <1>5, <2>1 DEF Copy, Quiet, Pending, Copied
<1> QED
  BY <1>6, <1>7, <1>8, <1>9, <1>10, <1>11 DEF IInv

LEMMA WriteInv ==
  ASSUME IInv, Write, UNCHANGED <<epmp_state, pc, lc, romExt, owners, owner>>
  PROVE  IInv'
<1>1. Same
  BY DEF Same
<1>2. pc \in Pcs /\ NoFailure /\ Idle /\ ops # <<>>
  BY TypeFacts DEF IInv, Write
<1>3. pc \in {"rom_epmp_init", "config_debug_rom", "rom_remap", "rom_unlock_r", "rom_unlock_rx",
             "ext_remap", "ext_unlock_r", "ext_unlock_rx"}
  BY <1>2 DEF Pcs, NoFailure, Idle
<1> QED
  BY <1>1, <1>3, InitWriteInv, DebugRomWriteInv, RomRemapWriteInv, RomUnlockRWriteInv,
     RomUnlockRxWriteInv, ExtRemapWriteInv, ExtUnlockRWriteInv, ExtUnlockRxWriteInv

LEMMA StutterInv ==
  ASSUME IInv, UNCHANGED vars
  PROVE  IInv'
<1>1. /\ lc' = lc /\ owners' = owners /\ romExt' = romExt /\ owner' = owner
      /\ pmpaddr' = pmpaddr /\ pmpcfg' = pmpcfg /\ remap' = remap
      /\ epmp_state' = epmp_state /\ pc' = pc /\ ops' = ops
  BY DEF vars, csrs
<1>2. Stage' = Stage
  BY <1>1 DEF Stage
<1>3. TypeOK' <=> TypeOK
  BY <1>1 DEF TypeOK, Early, InRom, InExt, Opened
<1>4. (NoFailure' <=> NoFailure) /\ (Idle' <=> Idle)
  BY <1>1 DEF NoFailure, Idle
<1>5. ImagesChecked' <=> ImagesChecked
  BY <1>1, <1>2 DEF ImagesChecked
<1>6. Initialising' <=> Initialising
  BY <1>1 DEF Initialising, Written
<1>7. FixedEntries' <=> FixedEntries
  BY <1>1, <1>2 DEF FixedEntries, Shut
<1>8. DebugRomEntry' <=> DebugRomEntry
  BY <1>1, <1>2 DEF DebugRomEntry, OpeningNapot, OpenedNapot, Shut, DebugRomCfg, Debuggable
<1>9. RomExtEntries' <=> RomExtEntries
  BY <1>1, <1>2 DEF RomExtEntries, Shut, OpeningNapot, OpenedNapot, OpeningTor, OpenedTor,
                    RomExtText, RomExtBase, RomExtAt, Bank
<1>10. OwnerEntries' <=> OwnerEntries
  BY <1>1, <1>2 DEF OwnerEntries, Shut, OpeningNapot, OpenedNapot, OpeningTor, OpenedTor,
                    OwnerText, OwnerBase, OwnerAt, Bank
<1>11. Translation' <=> Translation
  BY <1>1, <1>2 DEF Translation, Mapped, Mapping, RomExtAt, Bank
<1>12. Copy' <=> Copy
  BY <1>1, <1>2 DEF Copy, Pending, Copied, CopyNapot, CopyTor, RomExtText, RomExtBase, RomExtAt,
                    OwnerText, OwnerBase, OwnerAt, Bank
<1> QED
  BY <1>3, <1>4, <1>5, <1>6, <1>7, <1>8, <1>9, <1>10, <1>11, <1>12 DEF IInv

\* Every step preserves the inductive invariant, so it holds in every state.
THEOREM Invariant == Spec => []IInv
<1>1. Init => IInv
  BY InitHolds
<1>2. IInv /\ [Next]_vars => IInv'
  <2> SUFFICES ASSUME IInv, [Next]_vars PROVE IInv'
    OBVIOUS
  <2>1. ASSUME NEW s \in Slots, NEW im \in Images, RomBoot(s, im) PROVE IInv'
    BY <2>1, RomBootInv
  <2>2. ASSUME NEW o \in [Slots -> Images], RomExtMain(o) PROVE IInv'
    BY <2>2, RomExtMainInv
  <2>3. ASSUME Write /\ UNCHANGED <<epmp_state, pc, lc, romExt, owners, owner>> PROVE IInv'
    BY <2>3, WriteInv
  <2> QED
    BY <2>1, <2>2, <2>3, RomEpmpInitInv, ConfigDebugRomInv, StateInitInv, RomUnlockRInv,
       RomUnlockRxInv, RomJumpInv, RomExtRejectInv, RomExtBootInv, RomExtUnlockRInv,
       RomExtUnlockRxInv, RomExtJumpInv, ResetInv, StutterInv DEF Next
<1> QED
  BY <1>1, <1>2, PTL DEF Spec
-----------------------------------------------------------------------------
(* What the invariant gives: what runs can go on, nothing else can be        *)
(* fetched, nothing that can be fetched can be written, and no call opens    *)
(* more than its own region.                                                 *)

\* Types are kept.
THEOREM TypeCorrect == Spec => []TypeOK
<1>1. IInv => TypeOK
  BY DEF IInv
<1> QED
  BY <1>1, Invariant, PTL

\* The copy in RAM says what the registers hold wherever it is compared with
\* them, and the entry point of a verified ROM_EXT can be fetched: no state is
\* reached in which a check failed or the jump trapped.
THEOREM ChecksAlwaysPass == Spec => []ChecksPass
<1>1. IInv => ChecksPass
  BY DEF IInv, NoFailure, ChecksPass
<1> QED
  BY <1>1, Invariant, PTL

-----------------------------------------------------------------------------
(* Addresses on the bus *)

LEMMA RomExtRemapped ==
  ASSUME IInv, remap[0].en
  PROVE  /\ Stage >= 4 /\ romExt.image.translated
         /\ remap[0].match = Encoded(RomExtVirtual) /\ remap[0].to = RomExtAt(romExt.slot)
<1>0. Translation /\ ImagesChecked
  BY DEF IInv
<1>1. Stage \in 4 .. 11 /\ pc # "rom_boot"
  BY <1>0, StageFacts DEF Translation
<1>2. CASE Stage > 4
  <2>1. IF romExt.image.translated THEN Mapped(0, RomExtVirtual, RomExtAt(romExt.slot)) ELSE ~remap[0].en
    BY <1>0, <1>2 DEF Translation
  <2> QED
    BY <1>1, <1>2, <2>1 DEF Mapped
<1>3. CASE Stage = 4
  <2>1. pc = "rom_remap"
    BY <1>1, <1>3, StageFacts
  <2>2. Mapping(0, RomExtVirtual, RomExtAt(romExt.slot)) /\ romExt.image.translated
    BY <1>0, <2>1 DEF Translation, ImagesChecked
  <2> QED
    BY <1>3, <2>2 DEF Mapping, Mapped
<1> QED
  BY <1>1, <1>2, <1>3

LEMMA OwnerRemapped ==
  ASSUME IInv, remap[1].en
  PROVE  /\ Stage >= 8 /\ owners[owner].translated
         /\ remap[1].match = Encoded(OwnerVirtual) /\ remap[1].to = Flash.start
<1>0. Translation /\ ImagesChecked
  BY DEF IInv
<1>1. Stage \in 8 .. 11 /\ pc # "ext_boot"
  BY <1>0, StageFacts DEF Translation
<1>2. CASE Stage > 8
  <2>1. IF owners[owner].translated THEN Mapped(1, OwnerVirtual, Flash.start) ELSE ~remap[1].en
    BY <1>0, <1>2 DEF Translation
  <2> QED
    BY <1>1, <1>2, <2>1 DEF Mapped
<1>3. CASE Stage = 8
  <2>1. pc = "ext_remap"
    BY <1>1, <1>3, StageFacts
  <2>2. Mapping(1, OwnerVirtual, Flash.start) /\ owners[owner].translated
    BY <1>0, <2>1 DEF Translation, ImagesChecked
  <2> QED
    BY <1>3, <2>2 DEF Mapping, Mapped
<1> QED
  BY <1>1, <1>2, <1>3

\* Where an address leads: to itself outside the two virtual regions.
LEMMA OnTheBus ==
  ASSUME IInv, NEW a \in Address
  PROVE  /\ a \notin In(RomExtVirtual) /\ a \notin In(OwnerVirtual) => Physical(a) = a
         /\ a \in In(RomExtVirtual) /\ remap[0].en =>
              Physical(a) = RomExtAt(romExt.slot) + (a - RomExtVirtual.start)
         /\ a \in In(OwnerVirtual) /\ remap[1].en =>
              Physical(a) = Flash.start + (a - OwnerVirtual.start)
<1> DEFINE Hit(k) == remap[k].en /\ SameBlock(remap[k].match, a)
           Out(k) == remap[k].to + (a % Span(remap[k].match))
<1>1. Physical(a) = IF Hit(0) THEN Out(0) ELSE IF Hit(1) THEN Out(1) ELSE a
  BY DEF Physical
<1>2. /\ RomExtVirtual \in [start : Nat, end : Nat] /\ Aligned(RomExtVirtual)
      /\ OwnerVirtual \in [start : Nat, end : Nat] /\ Aligned(OwnerVirtual)
      /\ a \in Nat
  BY AlignedRegions, RegionBounds, EpmpAssumption DEF Address
<1>3. Hit(0) <=> remap[0].en /\ a \in In(RomExtVirtual)
  BY <1>2, RomExtRemapped, BlockOfEncoded
<1>4. Hit(1) <=> remap[1].en /\ a \in In(OwnerVirtual)
  BY <1>2, OwnerRemapped, BlockOfEncoded
<1>5. Hit(0) => Out(0) = RomExtAt(romExt.slot) + (a - RomExtVirtual.start)
  BY <1>2, <1>3, RomExtRemapped, OffsetInBlock
<1>6. Hit(1) => Out(1) = Flash.start + (a - OwnerVirtual.start)
  BY <1>2, <1>4, OwnerRemapped, OffsetInBlock
<1>7. a \in In(RomExtVirtual) => a \notin In(OwnerVirtual)
  BY <1>2, MapDisjoint
<1> HIDE DEF Hit, Out
<1> QED
  BY <1>1, <1>3, <1>4, <1>5, <1>6, <1>7

\* Addresses outside the virtual regions.
LEMMA Untranslated ==
  ASSUME IInv, NEW a \in Address,
         a \in In(Rom) \/ a \in In(RomText) \/ a \in In(DebugRom) \/ a \in In(Mmio)
         \/ a \in In(Ram) \/ a \in In(Flash)
  PROVE  Physical(a) = a
<1>1. a \in Int
  BY EpmpAssumption DEF Address
<1>2. a \in In(RomText) => a \in In(Rom)
  <2>1. /\ RomText.start \in Int /\ RomText.end \in Int /\ Rom.start \in Int /\ Rom.end \in Int
    BY MapTypes, RegionBounds
  <2> QED
    BY <1>1, <2>1, InWithin, HandoverAssumption
<1>3. a \notin In(RomExtVirtual) /\ a \notin In(OwnerVirtual)
  BY <1>1, <1>2, MapDisjoint
<1> QED
  BY <1>3, OnTheBus

\* The code of the ROM_EXT is fetched from where it is in its bank.
LEMMA RomExtCode ==
  ASSUME IInv, Stage >= 5, NEW k \in Nat, RomExtBase(romExt) + k \in In(RomExtText)
  PROVE  /\ RomExtBase(romExt) + k \in Address
         /\ Physical(RomExtBase(romExt) + k) = RomExtAt(romExt.slot) + k
         /\ k \in In(romExt.image.code)
<1> DEFINE b == RomExtBase(romExt)
<1>1. Stage \in 5 .. 11
  BY StageFacts
<1>2. /\ romExt.slot \in Slots /\ romExt.image \in Images
      /\ ManifestCheck(romExt.image, RomExtSizeMax)
      /\ RomExtText.start \in 0 .. AddressEnd /\ RomExtText.end \in 0 .. AddressEnd
  BY <1>1, TextRegions
<1>3. b \in Nat
  BY <1>2, RomExtRegion
<1>4. b = IF romExt.image.translated THEN RomExtVirtual.start ELSE RomExtAt(romExt.slot)
  BY DEF RomExtBase
<1> HIDE DEF b
<1>5. b + k \in Address
  BY <1>2, <1>3, EpmpAssumption DEF b, In, Address
<1>6. romExt.image.code \in [start : Nat, end : Nat]
  BY <1>2, HandoverAssumption
<1>7. k \in In(romExt.image.code)
  <2>1. RomExtText = [start |-> b + romExt.image.code.start, end |-> b + romExt.image.code.end]
    BY DEF RomExtText, Moved, b
  <2>2. b + k \in In(RomExtText)
    BY DEF b
  <2> QED
    BY <1>3, <1>6, <2>1, <2>2 DEF In
<1>8. CASE romExt.image.translated
  <2>1. remap[0].en
    BY <1>1, <1>8 DEF IInv, Translation, Mapped
  <2>2. b + k \in In(RomExtVirtual)
    BY <1>1, <1>5, <1>8, RomExtTextApart DEF b
  <2>3. Physical(b + k) = RomExtAt(romExt.slot) + ((b + k) - RomExtVirtual.start)
    BY <1>5, <2>1, <2>2, OnTheBus
  <2>4. (b + k) - RomExtVirtual.start = k
    BY <1>3, <1>4, <1>8
  <2> QED
    BY <1>5, <1>7, <2>3, <2>4 DEF b
<1>9. CASE ~romExt.image.translated
  <2>1. b + k \in In(Flash)
    BY <1>1, <1>5, <1>9, RomExtTextApart DEF b
  <2> QED
    BY <1>4, <1>5, <1>7, <1>9, <2>1, Untranslated DEF b
<1> QED
  BY <1>8, <1>9

-----------------------------------------------------------------------------
(* What can be fetched, and what can be written *)

\* An address of the text section of the ROM_EXT leads to its code in flash.
LEMMA RomExtFetches ==
  ASSUME IInv, Stage >= 6, NEW a \in Address, a \in In(RomExtText)
  PROVE  Physical(a) \in In(Moved(romExt.image, RomExtAt(romExt.slot)))
<1>1. Stage \in 6 .. 11
  BY StageFacts
<1>2. /\ RomExtText.start \in Int /\ RomExtBase(romExt) \in Nat
      /\ romExt.image.code \in [start : Nat, end : Nat] /\ RomExtAt(romExt.slot) \in Nat
      /\ RomExtText.start = RomExtBase(romExt) + romExt.image.code.start
  <2>1. /\ romExt.slot \in Slots /\ romExt.image \in Images
        /\ ManifestCheck(romExt.image, RomExtSizeMax)
        /\ RomExtText.start \in 0 .. AddressEnd
    BY <1>1, TextRegions
  <2>2. RomExtBase(romExt) \in Nat /\ RomExtAt(romExt.slot) \in Nat
    BY <2>1, RomExtRegion, EpmpAssumption DEF Address
  <2>3. romExt.image.code \in [start : Nat, end : Nat]
    BY <2>1, HandoverAssumption
  <2>4. RomExtText.start = RomExtBase(romExt) + romExt.image.code.start
    BY DEF RomExtText, Moved
  <2> QED
    BY <2>1, <2>2, <2>3, <2>4
<1>3. a \in Nat /\ RomExtText.start <= a
  BY <1>2, EpmpAssumption DEF Address, In
<1>4. PICK k \in Nat : a = RomExtBase(romExt) + k
  <2>1. a - RomExtBase(romExt) \in Nat /\ a = RomExtBase(romExt) + (a - RomExtBase(romExt))
    BY <1>2, <1>3
  <2> QED
    BY <2>1
<1>5. RomExtBase(romExt) + k \in In(RomExtText)
  BY <1>4
<1>6. Physical(a) = RomExtAt(romExt.slot) + k /\ k \in In(romExt.image.code)
  BY <1>1, <1>4, <1>5, RomExtCode
<1> QED
  BY <1>2, <1>6 DEF Moved, In

\* An address of the text section of the owner stage leads into flash.
LEMMA OwnerFetches ==
  ASSUME IInv, Stage >= 10, NEW a \in Address, a \in In(OwnerText)
  PROVE  Physical(a) \in In(Flash)
<1>1. Stage \in 10 .. 11
  BY StageFacts
<1>2. /\ OwnerText.start \in Int /\ OwnerText.end \in Int
      /\ IF owners[owner].translated THEN Within(OwnerText, OwnerVirtual)
                                     ELSE Within(OwnerText, Flash)
  BY <1>1, TextRegions
<1>3. /\ a \in Int /\ Flash.start \in Int /\ Flash.end \in Int
      /\ OwnerVirtual.start \in Int /\ OwnerVirtual.end \in Int
  BY MapTypes, RegionBounds, EpmpAssumption DEF Address
<1>4. CASE owners[owner].translated
  <2>1. a \in In(OwnerVirtual)
    BY <1>2, <1>3, <1>4, InWithin
  <2>2. remap[1].en
    BY <1>1, <1>4 DEF IInv, Translation, Mapped
  <2>3. Physical(a) = Flash.start + (a - OwnerVirtual.start)
    BY <2>1, <2>2, OnTheBus
  <2> QED
    BY <1>3, <2>1, <2>3, Sizes DEF In
<1>5. CASE ~owners[owner].translated
  <2>1. a \in In(Flash)
    BY <1>2, <1>3, <1>5, InWithin
  <2> QED
    BY <2>1, Untranslated
<1> QED
  BY <1>4, <1>5

\* Before the owner stage is opened, only verified code can be fetched.
THEOREM FetchesAreVerified == Spec => []OnlyVerified
<1>1. ASSUME IInv, ~Opened, NEW a \in Address, Allowed("X", a)
      PROVE  Physical(a) \in Verified
  <2>1. CASE a \in In(RomText)
    BY <1>1, <2>1, Untranslated DEF Verified
  <2>2. CASE Early /\ a \in In(Rom)
    BY <1>1, <2>2, Untranslated DEF Verified
  <2>3. CASE Stage >= 6 /\ a \in In(RomExtText)
    <3>1. Physical(a) \in In(Moved(romExt.image, RomExtAt(romExt.slot)))
      BY <1>1, <2>3, RomExtFetches
    <3>2. romExt # None
      BY <1>1, <2>3, StageFacts DEF IInv, ImagesChecked
    <3> QED
      BY <3>1, <3>2 DEF Verified
  <2>4. CASE DebugOpen /\ a \in In(DebugRom)
    BY <1>1, <2>4, Untranslated DEF Verified
  <2>5. ~(Stage >= 10)
    BY <1>1, StageFacts
  <2> QED
    BY <1>1, <2>1, <2>2, <2>3, <2>4, <2>5, Fetched
<1>2. IInv => OnlyVerified
  BY <1>1 DEF OnlyVerified, Reached
<1> QED
  BY <1>2, Invariant, PTL

\* Where fetches and writes lead.
LEMMA FetchedFrom ==
  ASSUME IInv, NEW a \in Address, Allowed("X", a)
  PROVE  Physical(a) \in In(Rom) \/ Physical(a) \in In(Flash)
         \/ (DebugOpen /\ Physical(a) \in In(DebugRom))
<1>1. a \in Int /\ \A r \in {Rom, RomText, Flash} : r.start \in Int /\ r.end \in Int
  BY MapTypes, RegionBounds, EpmpAssumption DEF Address
<1>2. CASE a \in In(Rom) \/ a \in In(RomText)
  <2>1. a \in In(Rom)
    BY <1>1, <1>2, InWithin, HandoverAssumption
  <2> QED
    BY <2>1, Untranslated
<1>3. CASE Stage >= 6 /\ a \in In(RomExtText)
  <2>1. Physical(a) \in In(Moved(romExt.image, RomExtAt(romExt.slot)))
    BY <1>3, RomExtFetches
  <2>2. /\ romExt.slot \in Slots /\ romExt.image \in Images
        /\ ManifestCheck(romExt.image, RomExtSizeMax)
    BY <1>3, TextRegions, StageFacts
  <2>3. Within(Moved(romExt.image, RomExtAt(romExt.slot)), Flash)
        /\ RomExtAt(romExt.slot) \in Nat /\ romExt.image.code \in [start : Nat, end : Nat]
    BY <2>2, RomExtRegion, HandoverAssumption, EpmpAssumption DEF Address
  <2> QED
    BY <1>1, <2>1, <2>3 DEF In, Within, Moved
<1>4. CASE Stage >= 10 /\ a \in In(OwnerText)
  BY <1>4, OwnerFetches
<1>5. CASE DebugOpen /\ a \in In(DebugRom)
  BY <1>5, Untranslated
<1> QED
  BY <1>2, <1>3, <1>4, <1>5, Fetched

\* No word can be written, at whatever address, that can be fetched, at whatever
\* address, except debug ROM while it is open.
THEOREM CodeIsNeverWritable == Spec => []NeverWritableCode
<1>1. ASSUME IInv, NEW w \in Address, NEW x \in Address, Allowed("W", w), Allowed("X", x),
             Physical(w) = Physical(x)
      PROVE  DebugOpen /\ Physical(w) \in In(DebugRom)
  <2>1. Physical(w) = w
    BY <1>1, Writable, Untranslated
  <2>2. Physical(x) = w /\ w \in Int
    BY <1>1, <2>1, EpmpAssumption DEF Address
  <2>3. w \in In(Rom) \/ w \in In(Flash) \/ (DebugOpen /\ w \in In(DebugRom))
    BY <1>1, <2>2, FetchedFrom
  <2> QED
    BY <1>1, <2>1, <2>2, <2>3, Writable, MapDisjoint
<1>2. IInv => NeverWritableCode
  BY <1>1 DEF NeverWritableCode, Reached
<1> QED
  BY <1>2, Invariant, PTL

-----------------------------------------------------------------------------
(* What runs can go on *)

\* The text sections of the images are in the regions for them.
LEMMA TextsWithin ==
  ASSUME IInv, NEW a \in Address
  PROVE  /\ Stage >= 6 /\ a \in In(RomExtText) => a \in In(RomExtVirtual) \/ a \in In(Flash)
         /\ Stage >= 10 /\ a \in In(OwnerText) => a \in In(OwnerVirtual) \/ a \in In(Flash)
<1>1. Stage \in 0 .. 11 /\ a \in Int
  BY StageFacts, EpmpAssumption DEF Address
<1>2. \A r \in {RomExtVirtual, OwnerVirtual, Flash} : r.start \in Int /\ r.end \in Int
  BY MapTypes, RegionBounds
<1>3. ASSUME Stage >= 6, a \in In(RomExtText)
      PROVE  a \in In(RomExtVirtual) \/ a \in In(Flash)
  BY <1>1, <1>3, RomExtTextApart
<1>4. ASSUME Stage >= 10, a \in In(OwnerText)
      PROVE  a \in In(OwnerVirtual) \/ a \in In(Flash)
  <2>1. /\ OwnerText.start \in Int /\ OwnerText.end \in Int
        /\ Within(OwnerText, OwnerVirtual) \/ Within(OwnerText, Flash)
    BY <1>1, <1>4, TextRegions
  <2> QED
    BY <1>1, <1>2, <1>4, <2>1, InWithin
<1> QED
  BY <1>3, <1>4

\* No entry with a lower number than that of MMIO matches there, and none with a
\* lower number than that of RAM but the guard.
LEMMA MmioFirst ==
  ASSUME IInv, NEW a \in Address, a \in In(Mmio)
  PROVE  \A j \in 0 .. 10 : ~Matches(j, a)
<1>1. a \in Int /\ \A r \in {Rom, RomText} : r.start \in Int /\ r.end \in Int
  BY MapTypes, RegionBounds, EpmpAssumption DEF Address
<1>2. Reaches(a)
  BY Reaching
<1>3. /\ a \notin In(Rom) /\ a \notin In(Flash) /\ a \notin In(RomExtVirtual)
      /\ a \notin In(OwnerVirtual)
  BY <1>1, MapDisjoint
<1>4. a \notin In(RomText)
  BY <1>1, <1>3, InWithin, HandoverAssumption
<1>5. ~(Stage >= 6 /\ a \in In(RomExtText)) /\ ~(Stage >= 10 /\ a \in In(OwnerText))
  BY <1>3, TextsWithin
<1>6. \A j \in 0 .. 10 : j \in {0, 1, 2, 3, 4, 5, 6, 7, 8, 9, 10}
  OBVIOUS
<1> QED
  BY <1>2, <1>3, <1>4, <1>5, <1>6 DEF Reaches

LEMMA RamFirst ==
  ASSUME IInv, NEW a \in Address, a \in In(Ram), a # Guard
  PROVE  \A j \in 0 .. 14 : ~Matches(j, a)
<1>1. a \in Int /\ \A r \in {Rom, RomText} : r.start \in Int /\ r.end \in Int
  BY MapTypes, RegionBounds, EpmpAssumption DEF Address
<1>2. Reaches(a)
  BY Reaching
<1>3. /\ a \notin In(Rom) /\ a \notin In(Flash) /\ a \notin In(RomExtVirtual)
      /\ a \notin In(OwnerVirtual) /\ a \notin In(Mmio) /\ a \notin In(DebugRom)
  BY <1>1, MapDisjoint
<1>4. a \notin In(RomText)
  BY <1>1, <1>3, InWithin, HandoverAssumption
<1>5. ~(Stage >= 6 /\ a \in In(RomExtText)) /\ ~(Stage >= 10 /\ a \in In(OwnerText))
  BY <1>3, TextsWithin
<1>6. \A j \in 0 .. 14 : j \in {0, 1, 2, 3, 4, 5, 6, 7, 8, 9, 10, 11, 12, 13, 14}
  OBVIOUS
<1> QED
  BY <1>2, <1>3, <1>4, <1>5, <1>6 DEF Reaches

\* What an entry that matches first gives.
LEMMA FirstGives ==
  ASSUME IInv, NEW a \in Address
  PROVE  /\ Matches(11, a) /\ a \in In(Mmio) => Allowed("R", a) /\ Allowed("W", a)
         /\ Matches(15, a) /\ a \in In(Ram) /\ a # Guard => Allowed("R", a) /\ Allowed("W", a)
<1>1. 11 \in Entries /\ 15 \in Entries
  BY DEF Entries
<1>2. Rights(a, "R") /\ Rights(a, "W")
  BY Granting DEF Access
<1>3. ASSUME Matches(11, a), a \in In(Mmio)
      PROVE  Allowed("R", a) /\ Allowed("W", a)
  <2>1. Grants(11, "R") /\ Grants(11, "W")
    BY <1>2, <1>3 DEF Rights
  <2>2. \A j \in 0 .. 11 - 1 : ~Matches(j, a)
    BY <1>3, MmioFirst
  <2> QED
    BY <1>1, <1>3, <2>1, <2>2, AllowedFirst
<1>4. ASSUME Matches(15, a), a \in In(Ram), a # Guard
      PROVE  Allowed("R", a) /\ Allowed("W", a)
  <2>1. Grants(15, "R") /\ Grants(15, "W")
    BY <1>2, <1>4 DEF Rights
  <2>2. \A j \in 0 .. 15 - 1 : ~Matches(j, a)
    BY <1>4, RamFirst
  <2> QED
    BY <1>1, <1>4, <2>1, <2>2, AllowedFirst
<1> QED
  BY <1>3, <1>4

\* What is open when all registers of rom_epmp_init have been written.
LEMMA DataOpen ==
  ASSUME IInv, Settled, NEW a \in Address, a \in (In(Ram) \ {Guard}) \cup In(Mmio)
  PROVE  Allowed("R", a) /\ Allowed("W", a) /\ Physical(a) = a
<1>1. Physical(a) = a
  BY Untranslated
<1>2. CASE a \in In(Mmio)
  <2>1. Mmio.start \in Int /\ Mmio.end \in Int /\ 11 \in Entries \ {0}
    BY MapTypes, RegionBounds DEF Entries
  <2>2. Matches(11, a)
    BY <1>2, <2>1, TorMatch DEF Settled
  <2> QED
    BY <1>1, <1>2, <2>2, FirstGives
<1>3. CASE a \in In(Ram) /\ a # Guard
  <2>1. Matches(15, a)
    BY <1>3, AlignedRegions, NapotMatch DEF Settled, Entries
  <2> QED
    BY <1>1, <1>3, <2>1, FirstGives
<1> QED
  BY <1>2, <1>3

\* ROM and flash can be read, and the code of the ROM can be fetched.
LEMMA RomTextOpen ==
  ASSUME IInv, OpenedTor(1, RomText, LockedReadExecute), NEW a \in Address, a \in In(RomText)
  PROVE  Allowed("X", a) /\ Allowed("R", a)
<1>1. Reaches(a) /\ Rights(a, "X") /\ Rights(a, "R")
  BY Reaching, Granting DEF Access
<1>2. RomText.start \in Int /\ RomText.end \in Int /\ 1 \in Entries \ {0}
  BY MapTypes, RegionBounds DEF Entries
<1>3. Matches(1, a)
  BY <1>2, TorMatch
<1>4. \A j \in 0 .. 1 - 1 : ~Matches(j, a)
  <2>1. \A j \in 0 .. 1 - 1 : j = 0
    OBVIOUS
  <2> QED
    BY <1>1, <2>1 DEF Reaches
<1>5. Grants(1, "X") /\ Grants(1, "R")
  BY <1>1, <1>3 DEF Rights
<1> QED
  BY <1>2, <1>3, <1>4, <1>5, AllowedFirst

LEMMA RomReadable ==
  ASSUME IInv, Settled, NEW a \in Address, a \in In(Rom)
  PROVE  Allowed("R", a)
<1>1. CASE a \in In(RomText)
  BY <1>1, RomTextOpen DEF Settled
<1>2. CASE a \notin In(RomText)
  <2>1. Reaches(a) /\ Rights(a, "R")
    BY Reaching, Granting DEF Access
  <2>2. Matches(2, a) /\ 2 \in Entries
    BY AlignedRegions, NapotMatch DEF Settled, Entries
  <2>3. \A j \in 0 .. 2 - 1 : ~Matches(j, a)
    <3>1. \A j \in 0 .. 2 - 1 : j \in {0, 1}
      OBVIOUS
    <3> QED
      BY <1>2, <2>1, <3>1 DEF Reaches
  <2>4. Grants(2, "R")
    BY <2>1, <2>2 DEF Rights
  <2> QED
    BY <2>2, <2>3, <2>4, AllowedFirst
<1> QED
  BY <1>1, <1>2

LEMMA FlashReadable ==
  ASSUME IInv, Settled, NEW a \in Address, a \in In(Flash)
  PROVE  Allowed("R", a)
<1>1. Reaches(a) /\ Rights(a, "R")
  BY Reaching, Granting DEF Access
<1>2. Matches(5, a) /\ 5 \in Entries /\ 4 \in Entries
  BY AlignedRegions, NapotMatch DEF Settled, Entries
<1>3. \A j \in 0 .. 3 : ~Matches(j, a)
  <2>1. a \in Int /\ \A r \in {Rom, RomText} : r.start \in Int /\ r.end \in Int
    BY MapTypes, RegionBounds, EpmpAssumption DEF Address
  <2>2. a \notin In(Rom)
    BY <2>1, MapDisjoint
  <2>3. a \notin In(RomText)
    BY <2>1, <2>2, InWithin, HandoverAssumption
  <2>4. \A j \in 0 .. 3 : j \in {0, 1, 2, 3}
    OBVIOUS
  <2> QED
    BY <1>1, <2>2, <2>3, <2>4 DEF Reaches
<1>4. CASE Matches(4, a)
  <2>1. Grants(4, "R")
    BY <1>1, <1>4 DEF Rights
  <2>2. \A j \in 0 .. 4 - 1 : ~Matches(j, a)
    BY <1>3
  <2> QED
    BY <1>2, <1>4, <2>1, <2>2, AllowedFirst
<1>5. CASE ~Matches(4, a)
  <2>1. Grants(5, "R")
    BY <1>1, <1>2 DEF Rights
  <2>2. \A j \in 0 .. 5 - 1 : ~Matches(j, a)
    <3>1. \A j \in 0 .. 5 - 1 : j \in 0 .. 3 \/ j = 4
      OBVIOUS
    <3> QED
      BY <1>3, <1>5, <3>1
  <2> QED
    BY <1>2, <2>1, <2>2, AllowedFirst
<1> QED
  BY <1>4, <1>5

\* During reset and rom_epmp_init the code that reset opens can be fetched: first
\* by the entry of reset, then by that of the text section of ROM.
LEMMA ResetTextOpen ==
  ASSUME IInv, Early, NEW a \in Address, a \in In(ResetText)
  PROVE  Allowed("X", a) /\ Allowed("R", a)
<1>1. PICK n \in 0 .. 15 : \A i \in Entries :
        /\ pmpaddr[i] = IF Position(i) <= n THEN HomeAddr[i] ELSE ResetAddr[i]
        /\ pmpcfg[i] = IF 12 + (i \div 4) <= n THEN HomeCfg[i] ELSE ResetCfg[i]
  BY EarlyLayout
<1>2. a \in In(RomText) /\ a \in In(Rom)
  <2>1. a \in Int /\ \A r \in {ResetText, RomText, Rom} : r.start \in Int /\ r.end \in Int
    BY MapTypes, RegionBounds, EpmpAssumption DEF Address
  <2> QED
    BY <2>1, InWithin, HandoverAssumption
<1>3. CASE n >= 12
  <2>1. /\ pmpaddr[0] = RomText.start /\ pmpaddr[1] = RomText.end
        /\ pmpcfg[1] = Tor \cup LockedReadExecute
    BY <1>1, <1>3 DEF HomeAddr, HomeCfg, ResetAddr, ResetCfg, Entries, Position
  <2>2. OpenedTor(1, RomText, LockedReadExecute)
    BY <2>1 DEF OpenedTor
  <2> QED
    BY <1>2, <2>2, RomTextOpen
<1>4. CASE n < 12
  <2>1. /\ pmpcfg[0] = {} /\ pmpcfg[1] = {}
        /\ pmpaddr[2] \in {Encoded(Rom), Encoded(ResetText)}
        /\ pmpcfg[2] = Napot \cup LockedReadExecute
    BY <1>1, <1>4 DEF HomeAddr, HomeCfg, ResetAddr, ResetCfg, Entries, Position
  <2>2. 0 \in Entries /\ 1 \in Entries /\ 2 \in Entries
    BY DEF Entries
  <2>3. Matches(2, a)
    <3>1. \E r \in {ResetText, Rom} : OpenedNapot(2, r, LockedReadExecute)
      BY <2>1 DEF OpenedNapot
    <3> QED
      BY <1>2, <2>2, <3>1, AlignedRegions, NapotMatch
  <2>4. \A j \in 0 .. 2 - 1 : ~Matches(j, a)
    <3>1. ~Matches(0, a) /\ ~Matches(1, a)
      BY <2>1, <2>2, ShutMatch DEF Shut
    <3>2. \A j \in 0 .. 2 - 1 : j \in {0, 1}
      OBVIOUS
    <3> QED
      BY <3>1, <3>2
  <2>5. Grants(2, "X") /\ Grants(2, "R")
    BY <2>1 DEF Grants, Napot, LockedReadExecute
  <2> QED
    BY <2>2, <2>3, <2>4, <2>5, AllowedFirst
<1> QED
  BY <1>3, <1>4

\* And the peripherals that reset opens can be used.
LEMMA ResetMmioOpen ==
  ASSUME IInv, Early, NEW a \in Address, a \in In(ResetMmio)
  PROVE  Allowed("R", a) /\ Allowed("W", a) /\ Physical(a) = a
<1>1. PICK b \in {Mmio.start, ResetMmio.start}, e \in {Mmio.end, ResetMmio.end} :
        OpenedTor(11, [start |-> b, end |-> e], LockedReadWrite)
  BY ContentsHold DEF Contents
<1>2. /\ Mmio.start \in Int /\ Mmio.end \in Int /\ ResetMmio.start \in Int /\ ResetMmio.end \in Int
      /\ Mmio.start <= ResetMmio.start /\ ResetMmio.end <= Mmio.end /\ a \in Int
  BY MapTypes, RegionBounds, HandoverAssumption, EpmpAssumption DEF Within, Address
<1>3. a \in In(Mmio) /\ a \in In([start |-> b, end |-> e]) /\ b \in Int /\ e \in Int
  BY <1>2 DEF In
<1>4. Matches(11, a)
  BY <1>1, <1>3, TorMatch DEF Entries
<1> QED
  BY <1>3, <1>4, FirstGives, Untranslated

\* When rom_epmp_init ends, all its registers are written.
LEMMA SettledAtEnd ==
  ASSUME IInv, pc = "rom_epmp_init", ops = <<>>
  PROVE  Settled
<1>1. Early
  BY DEF Early
<1>2. \A i \in Entries : pmpaddr[i] = HomeAddr[i] \/ Position(i) > 15
  BY <1>1, EarlyLayout DEF Position, Entries
<1>3. \A i \in Entries : pmpcfg[i] = HomeCfg[i]
  BY <1>1, EarlyLayout DEF Entries
<1>4. \A i \in {0, 1, 2, 5, 10, 11, 14, 15} : i \in Entries /\ ~(Position(i) > 15)
  BY DEF Position, Entries
<1>5. pmpaddr[12] = HomeAddr[12]
  BY <1>1, EarlyLayout DEF HomeAddr, ResetAddr, Entries
<1>6. 12 \in Entries
  BY DEF Entries
<1> QED
  BY <1>2, <1>3, <1>4, <1>5, <1>6, SettledFrom

\* After every register write of every call, the code in progress can be fetched
\* from where its image is, and its data be accessed.
THEOREM AlwaysContinues == Spec => []Continues
<1>1. ASSUME IInv, NEW a \in Code
      PROVE  a \in Address => Allowed("X", a) /\ Allowed("R", a)
  <2>1. CASE Early
    BY <1>1, <2>1, ResetTextOpen DEF Code
  <2>2. CASE ~Early /\ InRom
    BY <1>1, <2>2, LaterContents, RomTextOpen DEF Code, Settled
  <2>3. CASE ~Early /\ ~InRom /\ InExt
    <3>1. Stage >= 6 /\ OpenedTor(4, RomExtText, LockedReadExecute)
      BY <1>1, <2>3, StageFacts DEF IInv, RomExtEntries
    <3> QED
      BY <1>1, <2>3, <3>1, RomExtFetchable DEF Code
  <2> QED
    BY <1>1, <2>1, <2>2, <2>3 DEF Code
<1>2. ASSUME IInv, NEW a \in Code
      PROVE  a \in Address
  <2>1. Early => a \in In(ResetText)
    BY <1>2 DEF Code
  <2>2. ~Early /\ InRom => a \in In(RomText)
    BY <1>2 DEF Code
  <2>3. ~Early /\ ~InRom => InExt /\ a \in In(RomExtText)
    BY <1>2 DEF Code
  <2>4. InExt => In(RomExtText) \subseteq Address
    <3>1. InExt => RomExtText.start \in 0 .. AddressEnd /\ RomExtText.end \in 0 .. AddressEnd
      BY <1>2, StageFacts, TextRegions
    <3> QED
      BY <3>1, EpmpAssumption DEF In, Address
  <2> QED
    BY <2>1, <2>2, <2>3, <2>4, MapTypes, RegionBounds
<1>3. ASSUME IInv, NEW a \in Data
      PROVE  Allowed("R", a) /\ Allowed("W", a) /\ Physical(a) = a
  <2>1. CASE a \in (In(Ram) \ {Guard}) \cup In(Mmio)
             /\ (InRom \/ InExt \/ (pc = "rom_epmp_init" /\ ops = <<>>))
    <3>1. a \in Address
      BY <2>1, MapTypes, RegionBounds
    <3>2. Settled
      BY <1>3, <2>1, StageFacts, LaterContents, SettledAtEnd
    <3> QED
      BY <1>3, <2>1, <3>1, <3>2, DataOpen
  <2>2. CASE Early /\ a \in In(ResetMmio)
    <3>1. a \in Address
      BY <2>2, MapTypes, RegionBounds
    <3> QED
      BY <1>3, <2>2, <3>1, ResetMmioOpen
  <2> QED
    BY <1>3, <2>1, <2>2 DEF Data
<1>4. ASSUME IInv, InRom, NEW a \in In(Rom) \cup In(Flash)
      PROVE  Allowed("R", a)
  <2>1. a \in Address
    BY MapTypes, RegionBounds
  <2>2. Settled
    BY <1>4, StageFacts, LaterContents
  <2> QED
    BY <1>4, <2>1, <2>2, RomReadable, FlashReadable
<1>5. ASSUME IInv, InExt, NEW k \in In(romExt.image.code)
      PROVE  Physical(RomExtBase(romExt) + k) = RomExtAt(romExt.slot) + k
  <2>1. Stage \in 7 .. 10
    BY <1>5, StageFacts
  <2>2. romExt.slot \in Slots /\ romExt.image \in Images
        /\ ManifestCheck(romExt.image, RomExtSizeMax)
    BY <1>5, <2>1, TextRegions
  <2>3. RomExtBase(romExt) \in Nat /\ romExt.image.code \in [start : Nat, end : Nat]
    BY <2>2, RomExtRegion, HandoverAssumption
  <2>4. k \in Nat
    BY <2>3, <1>5 DEF In
  <2>5. RomExtBase(romExt) + k \in In(RomExtText)
    BY <1>5, <2>3, <2>4 DEF In, RomExtText, Moved
  <2> QED
    BY <1>5, <2>1, <2>4, <2>5, RomExtCode
<1>6. IInv => Continues
  BY <1>1, <1>2, <1>3, <1>4, <1>5 DEF Continues
<1> QED
  BY <1>6, Invariant, PTL

-----------------------------------------------------------------------------
(* What a call changes *)

\* Matches, for given contents of the registers.
MatchIn(addr, cfg, i, a) ==
  CASE cfg[i] \cap Napot = Tor   -> /\ i > 0 => addr[i - 1] <= a
                                    /\ a < addr[i]
    [] cfg[i] \cap Napot = Na4   -> a = addr[i]
    [] cfg[i] \cap Napot = Napot -> SameBlock(addr[i], a)
    [] OTHER                     -> FALSE

LEMMA MatchNow ==
  ASSUME NEW i, NEW a
  PROVE  /\ Matches(i, a) <=> MatchIn(pmpaddr, pmpcfg, i, a)
         /\ Matches(i, a)' <=> MatchIn(pmpaddr', pmpcfg', i, a)
BY DEF Matches, MatchIn

\* If entries of S change that an address outside their regions does not match
\* before and after, nothing changes for the address: the entry above one of S
\* does not take its start from it.
LEMMA UnchangedOutside ==
  ASSUME NEW S \in SUBSET Entries, NEW a \in Address, NEW t \in Access,
         \A j \in Entries \ S : pmpaddr'[j] = pmpaddr[j] /\ pmpcfg'[j] = pmpcfg[j],
         \A j \in Entries \ S : j > 0 /\ j - 1 \in S => pmpcfg[j] \cap Napot # Tor,
         \A j \in S : ~MatchIn(pmpaddr, pmpcfg, j, a) /\ ~MatchIn(pmpaddr', pmpcfg', j, a)
  PROVE  Allowed(t, a)' = Allowed(t, a)
<1>1. ASSUME NEW j \in Entries \ S
      PROVE  MatchIn(pmpaddr', pmpcfg', j, a) <=> MatchIn(pmpaddr, pmpcfg, j, a)
  <2>1. CASE j > 0 /\ j - 1 \in S
    BY <1>1, <2>1 DEF MatchIn
  <2>2. CASE j = 0
    BY <1>1, <2>2 DEF MatchIn
  <2>3. CASE j > 0 /\ j - 1 \notin S
    <3>1. j - 1 \in Entries
      BY <1>1, <2>3 DEF Entries
    <3>2. pmpaddr'[j - 1] = pmpaddr[j - 1] /\ pmpaddr'[j] = pmpaddr[j] /\ pmpcfg'[j] = pmpcfg[j]
      BY <1>1, <2>3, <3>1
    <3> QED
      BY <3>2 DEF MatchIn
  <2> QED
    BY <2>1, <2>2, <2>3 DEF Entries
<1>2. \A j \in Entries : MatchIn(pmpaddr', pmpcfg', j, a) <=> MatchIn(pmpaddr, pmpcfg, j, a)
  BY <1>1
<1>3. \A i \in Entries : \A j \in 0 .. i - 1 : j \in Entries
  BY DEF Entries
<1>4. \A i \in Entries : MatchIn(pmpaddr, pmpcfg, i, a) => pmpcfg'[i] = pmpcfg[i]
  OBVIOUS
<1>5. Allowed(t, a) <=> \E i \in Entries :
        /\ MatchIn(pmpaddr, pmpcfg, i, a)
        /\ \A j \in 0 .. i - 1 : ~MatchIn(pmpaddr, pmpcfg, j, a)
        /\ "L" \in pmpcfg[i] => t \in pmpcfg[i]
  BY DEF Allowed, Matches, MatchIn
<1>6. Allowed(t, a)' <=> \E i \in Entries :
        /\ MatchIn(pmpaddr', pmpcfg', i, a)
        /\ \A j \in 0 .. i - 1 : ~MatchIn(pmpaddr', pmpcfg', j, a)
        /\ "L" \in pmpcfg'[i] => t \in pmpcfg'[i]
  BY DEF Allowed, Matches, MatchIn
<1>7. Allowed(t, a)' <=> Allowed(t, a)
  BY <1>2, <1>3, <1>4, <1>5, <1>6
<1>8. Allowed(t, a)' \in BOOLEAN /\ Allowed(t, a) \in BOOLEAN
  BY DEF Allowed
<1> QED
  BY <1>7, <1>8

\* Either of two states of the registers.
Either(j, a) == MatchIn(pmpaddr, pmpcfg, j, a) \/ MatchIn(pmpaddr', pmpcfg', j, a)

\* The register writes of a call, and the entries they change.
LEMMA CallWrites ==
  ASSUME IInv, IInv', Write, Same, NEW a \in Address, NEW t \in Access,
         Allowed(t, a)' # Allowed(t, a)
  PROVE  a \in Target
<1>0. TypeOK /\ NoFailure /\ Idle /\ ImagesChecked /\ Translation /\ FixedEntries /\ DebugRomEntry
      /\ RomExtEntries /\ OwnerEntries
  BY DEF IInv
<1>1. pmpaddr \in AddrType /\ pmpcfg \in CfgType /\ remap \in RemapType /\ pc \in Pcs
  BY <1>0, TypeFacts
<1>2. ops # <<>> /\ pc' = pc /\ Stage' = Stage /\ RomExtText' = RomExtText /\ OwnerText' = OwnerText
  BY SameFacts DEF Write, Same
<1>3. /\ ~Either(3, a) /\ ~Either(7, a)
      /\ Either(6, a) => a \in In(RomExtVirtual)
      /\ Either(9, a) => a \in In(OwnerVirtual)
      /\ Either(13, a) => a \in In(DebugRom)
      /\ Either(4, a) => a \in In(RomExtText)
      /\ Either(8, a) => a \in In(OwnerText)
  <2>1. Reaches(a)'
    <3>1. (IInv => Reaches(a))'
      BY Reaching, PTL
    <3> QED
      BY <3>1
  <2>2. Reaches(a)
    BY Reaching
  <2>3. ~Either(3, a) /\ ~Either(7, a)
    BY <2>1, <2>2, MatchNow DEF Reaches, Either
  <2>4. /\ Either(6, a) => a \in In(RomExtVirtual)
        /\ Either(9, a) => a \in In(OwnerVirtual)
        /\ Either(13, a) => a \in In(DebugRom)
    BY <2>1, <2>2, MatchNow DEF Reaches, Either
  <2>5. /\ Either(4, a) => a \in In(RomExtText)
        /\ Either(8, a) => a \in In(OwnerText)
    BY <1>2, <2>1, <2>2, MatchNow DEF Reaches, Either
  <2> QED
    BY <2>3, <2>4, <2>5
<1>4. ~(pmpcfg[5] \cap Napot = Tor) /\ ~(pmpcfg[7] \cap Napot = Tor)
      /\ ~(pmpcfg[9] \cap Napot = Tor) /\ ~(pmpcfg[10] \cap Napot = Tor)
      /\ ~(pmpcfg[14] \cap Napot = Tor)
  BY ContentsHold, Modes, Zenon DEF Contents, Shut, OpenedNapot
<1>5. ASSUME NEW S \in SUBSET Entries,
             \A j \in Entries \ S : pmpaddr'[j] = pmpaddr[j] /\ pmpcfg'[j] = pmpcfg[j],
             \A j \in Entries \ S : j > 0 /\ j - 1 \in S => j \in {5, 7, 9, 10, 14}
      PROVE  \E j \in S : Either(j, a)
  <2>1. \A j \in Entries \ S : j > 0 /\ j - 1 \in S => pmpcfg[j] \cap Napot # Tor
    BY <1>4, <1>5
  <2> QED
    BY <1>5, <2>1, UnchangedOutside DEF Either
<1>6. ASSUME pmpaddr' = pmpaddr, pmpcfg' = pmpcfg
      PROVE  FALSE
  BY <1>6, UnchangedOutside, {} \in SUBSET Entries
<1>7. CASE pc = "rom_epmp_init"
  BY <1>7 DEF Target
<1>8. CASE pc = "config_debug_rom"
  <2>1. PICK perm \in SUBSET Bits : perm = DebugRomCfg
    BY Permissions DEF DebugRomCfg
  <2>2. PICK old : old = Napot \cup LockedReadWriteExecute
    OBVIOUS
  <2>3. OpeningNapot(13, DebugRom, perm, old)
    BY <1>0, <1>8, <2>1, <2>2 DEF DebugRomEntry, Stage
  <2>4. Apart({13})
    BY <1>1, <2>3, AlignedRegions, NapotStep DEF Entries
  <2>5. Either(13, a)
    <3>1. {13} \in SUBSET Entries /\ \A j \in Entries \ {13} : j > 0 /\ j - 1 \in {13} => j \in {5, 7, 9, 10, 14}
      BY DEF Entries
    <3>2. \A j \in Entries \ {13} : pmpaddr'[j] = pmpaddr[j] /\ pmpcfg'[j] = pmpcfg[j]
      BY <2>4 DEF Apart
    <3>3. \E j \in {13} : Either(j, a)
      BY <1>5, <3>1, <3>2, Zenon
    <3> QED
      BY <3>3
  <2> QED
    BY <1>3, <1>8, <2>5 DEF Target
<1>9. CASE pc = "rom_remap"
  <2>1. PICK to \in Address : to = RomExtAt(romExt.slot)
    <3>1. romExt.slot \in Slots
      BY <1>0, <1>9, TypeFacts DEF ImagesChecked, Held, Stage
    <3> QED
      BY <3>1, Banks DEF RomExtAt
  <2>2. Mapping(0, RomExtVirtual, to)
    BY <1>0, <1>9, <2>1 DEF Translation
  <2> QED
    BY <1>1, <1>6, <2>1, <2>2, AlignedRegions, RemapStep
<1>10. CASE pc = "ext_remap"
  <2>1. PICK to \in Address : to = Flash.start
    BY Banks, RegionBounds, MapTypes, EpmpAssumption DEF Address, Regions
  <2>2. Mapping(1, OwnerVirtual, to)
    BY <1>0, <1>10, <2>1 DEF Translation
  <2> QED
    BY <1>1, <1>6, <2>1, <2>2, AlignedRegions, RemapStep
<1>11. CASE pc = "rom_unlock_r"
  <2>1. OpeningNapot(6, RomExtVirtual, LockedReadOnly, {})
    BY <1>0, <1>11 DEF RomExtEntries, Stage
  <2>2. Apart({6})
    BY <1>1, <2>1, AlignedRegions, Permissions, NapotStep DEF Entries
  <2>3. Either(6, a)
    <3>1. {6} \in SUBSET Entries /\ \A j \in Entries \ {6} : j > 0 /\ j - 1 \in {6} => j \in {5, 7, 9, 10, 14}
      BY DEF Entries
    <3>2. \A j \in Entries \ {6} : pmpaddr'[j] = pmpaddr[j] /\ pmpcfg'[j] = pmpcfg[j]
      BY <2>2 DEF Apart
    <3>3. \E j \in {6} : Either(j, a)
      BY <1>5, <3>1, <3>2, Zenon
    <3> QED
      BY <3>3
  <2> QED
    BY <1>3, <1>11, <2>3 DEF Target
<1>12. CASE pc = "ext_unlock_r"
  <2>1. OpeningNapot(9, OwnerVirtual, LockedReadOnly, {})
    BY <1>0, <1>12 DEF OwnerEntries, Stage
  <2>2. Apart({9})
    BY <1>1, <2>1, AlignedRegions, Permissions, NapotStep DEF Entries
  <2>3. Either(9, a)
    <3>1. {9} \in SUBSET Entries /\ \A j \in Entries \ {9} : j > 0 /\ j - 1 \in {9} => j \in {5, 7, 9, 10, 14}
      BY DEF Entries
    <3>2. \A j \in Entries \ {9} : pmpaddr'[j] = pmpaddr[j] /\ pmpcfg'[j] = pmpcfg[j]
      BY <2>2 DEF Apart
    <3>3. \E j \in {9} : Either(j, a)
      BY <1>5, <3>1, <3>2, Zenon
    <3> QED
      BY <3>3
  <2> QED
    BY <1>3, <1>12, <2>3 DEF Target
<1>13. CASE pc = "rom_unlock_rx"
  <2>1. Stage = 6
    BY <1>13 DEF Stage
  <2>2. PICK r : r = RomExtText
    OBVIOUS
  <2>3. r.start \in 0 .. AddressEnd /\ r.end \in 0 .. AddressEnd
    BY <2>1, <2>2, TextRegions
  <2>4. OpeningTor(4, r, LockedReadExecute)
    BY <1>0, <2>1, <2>2 DEF RomExtEntries
  <2>5. Apart({4 - 1, 4})
    BY <1>1, <2>3, <2>4, Permissions, TorStep
  <2>6. \E j \in {3, 4} : Either(j, a)
    <3>1. {3, 4} \in SUBSET Entries /\ \A j \in Entries \ {3, 4} : j > 0 /\ j - 1 \in {3, 4} => j \in {5, 7, 9, 10, 14}
      BY DEF Entries
    <3>2. \A j \in Entries \ {3, 4} : pmpaddr'[j] = pmpaddr[j] /\ pmpcfg'[j] = pmpcfg[j]
      BY <2>5 DEF Apart
    <3> QED
      BY <1>5, <3>1, <3>2, Zenon
  <2> QED
    BY <1>2, <1>3, <1>13, <2>6 DEF Target
<1>14. CASE pc = "ext_unlock_rx"
  <2>1. Stage = 10
    BY <1>14 DEF Stage
  <2>2. PICK r : r = OwnerText
    OBVIOUS
  <2>3. r.start \in 0 .. AddressEnd /\ r.end \in 0 .. AddressEnd
    BY <2>1, <2>2, TextRegions
  <2>4. OpeningTor(8, r, LockedReadExecute)
    BY <1>0, <2>1, <2>2 DEF OwnerEntries
  <2>5. Apart({8 - 1, 8})
    BY <1>1, <2>3, <2>4, Permissions, TorStep
  <2>6. \E j \in {7, 8} : Either(j, a)
    <3>1. {7, 8} \in SUBSET Entries /\ \A j \in Entries \ {7, 8} : j > 0 /\ j - 1 \in {7, 8} => j \in {5, 7, 9, 10, 14}
      BY DEF Entries
    <3>2. \A j \in Entries \ {7, 8} : pmpaddr'[j] = pmpaddr[j] /\ pmpcfg'[j] = pmpcfg[j]
      BY <2>5 DEF Apart
    <3> QED
      BY <1>5, <3>1, <3>2, Zenon
  <2> QED
    BY <1>2, <1>3, <1>14, <2>6 DEF Target
<1> QED
  BY <1>0, <1>1, <1>2, <1>7, <1>8, <1>9, <1>10, <1>11, <1>12, <1>13, <1>14
     DEF Pcs, NoFailure, Idle

\* Each call changes permissions in its own region only, at every register write.
THEOREM CallsAreConfined == Spec => Confined
<1>1. ASSUME IInv, IInv', [Next]_vars, pc' # "reset", NEW a \in Address, NEW t \in Access,
             Allowed(t, a)' # Allowed(t, a)
      PROVE  a \in Target
  <2>1. CASE Write /\ UNCHANGED <<epmp_state, pc, lc, romExt, owners, owner>>
    BY <1>1, <2>1, CallWrites DEF Same
  <2>2. CASE pmpaddr' = pmpaddr /\ pmpcfg' = pmpcfg
    <3>1. Allowed(t, a)' = Allowed(t, a)
      BY <2>2, UnchangedOutside, {} \in SUBSET Entries
    <3> QED
      BY <1>1, <3>1
  <2>3. \/ Write /\ UNCHANGED <<epmp_state, pc, lc, romExt, owners, owner>>
        \/ pmpaddr' = pmpaddr /\ pmpcfg' = pmpcfg
    BY <1>1 DEF Next, vars, csrs, RomEpmpInit, ConfigDebugRom, StateInit, RomBoot, RomUnlockR,
       RomUnlockRx, RomJump, RomExtMain, RomExtReject, RomExtBoot, RomExtUnlockR, RomExtUnlockRx,
       RomExtJump, Reset
  <2> QED
    BY <2>1, <2>2, <2>3
<1>2. IInv /\ IInv' /\ [Next]_vars =>
        [pc' # "reset" =>
           \A a \in Address, t \in Access : Allowed(t, a)' # Allowed(t, a) => a \in Target]_vars
  BY <1>1
<1> QED
  BY <1>2, Invariant, PTL DEF Spec, Confined
=============================================================================
