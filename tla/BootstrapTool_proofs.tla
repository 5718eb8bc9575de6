------------------------ MODULE BootstrapTool_proofs ------------------------
(***************************************************************************)
(* Properties of BootstrapTool that hold for every image, every script     *)
(* that polls after its commands, every geometry of flash and any number   *)
(* of resets and flash errors.                                             *)
(***************************************************************************)
EXTENDS Bootstrap_proofs, BootstrapToolInv

(* Items *)

LEMMA ItemIs ==
  ASSUME ToolType, NEW i \in 1 .. Len(tool.script)
  PROVE  LET item == tool.script[i]
         IN  /\ item \in Items
             /\ item.cmd \in HostCommands /\ item.cmd.op \in Uploaded
             /\ item.cmd.at = None => item.cmd.aligned
             /\ {item.wren, item.poll} \subseteq BOOLEAN
             /\ item.poll \/ (i = Len(tool.script) /\ item.cmd.op = "RESET")
<1>1. tool.script \in Seq(Items) /\ DOMAIN tool.script = 1 .. Len(tool.script)
  BY DEF ToolType
<1>2. tool.script[i] \in Items BY <1>1
<1>3. tool.script[i].poll \/ (i = Len(tool.script) /\ tool.script[i].cmd.op = "RESET")
  BY <1>1 DEF ToolType, GoodScript
<1> QED BY <1>2, <1>3 DEF Items, ToolCommands

LEMMA CurrentIs ==
  ASSUME ToolType, Place, InSession
  PROVE  /\ Current \in Items
         /\ Current.cmd \in HostCommands /\ Current.cmd.op \in Uploaded
         /\ Current.cmd.at = None => Current.cmd.aligned
         /\ {Current.wren, Current.poll} \subseteq BOOLEAN
         /\ Current.poll \/ (tool.i = Len(tool.script) /\ Current.cmd.op = "RESET")
         /\ tool.i \in 1 .. Len(tool.script)
<1>1. tool.i \in 1 .. Len(tool.script) BY DEF Place
<1> QED BY <1>1, ItemIs DEF Current

(* Steps of the tool keep what is known of the chip *)

\* A step of the tool that leaves the ROM and flash alone.
LEMMA OutsideKeepsRefInv ==
  ASSUME RefInv, rom' = rom, flash' = flash, perms' = perms, spi' \in SpiType
  PROVE  RefInv'
<1>1. TypeInv' BY DEF RefInv, TypeInv
<1>2. PermInv' BY DEF RefInv, PermInv, IsRom, WorkMatches, PermissionsMatch
<1>3. JobInv'
  <2>1. Target' = Target /\ \A w : Given(w)' = Given(w) /\ IsProgram' = IsProgram
    BY SameCommand
  <2>2. \A i \in 1 .. Len(rom'.todo) : Fits(rom'.todo[i]) => Fits(rom.todo[i])'
    BY FitsNext
  <2>3. \A w : (Finished(w)' <=> Finished(w)) /\ (Waiting(w)' <=> Waiting(w))
    BY <2>1 DEF Finished, Waiting, Final
  <2> QED BY <2>1, <2>2, <2>3 DEF RefInv, JobInv
<1> QED BY <1>1, <1>2, <1>3 DEF RefInv

LEMMA ResetKeepsRefInv ==
  ASSUME RefInv, ChipReset PROVE RefInv'
<1>1. TypeInv' BY ResetKeepsTypes DEF RefInv
<1>2. rom' = IdleRom /\ perms' = {} BY DEF ChipReset
<1>3. PermInv'
  BY <1>2 DEF IdleRom, PermInv, IsRom, RomFields, WorkMatches, PermissionsMatch
<1>4. JobInv' BY <1>2 DEF IdleRom, JobInv
<1> QED BY <1>1, <1>3, <1>4 DEF RefInv

LEMMA ToolKeepsRefInv ==
  ASSUME RefInv, ToolType, Place, [UpdateNext]_toolVars PROVE RefInv'
<1>1. spi \in SpiType BY DEF RefInv, TypeInv
<1>2. CASE ChipNext(RomNext \/ LatePop \/ AnyReset)
  <2>1. [Next]_vars BY <1>2 DEF ChipNext, Next, AnyNext
  <2> QED BY <2>1, StepKeepsRefInv
<1>3. CASE ToolStart \/ ToolReset
  BY <1>3, ResetKeepsRefInv DEF ToolStart, ToolReset
<1>4. CASE ToolShift
  <2>1. PICK c \in HostCommands : Shift(c)
    <3>1. InSession BY <1>4 DEF ToolShift, InSession
    <3>2. Current.cmd \in HostCommands BY <3>1, CurrentIs
    <3>3. Bare("WREN") \in HostCommands /\ Bare("READ_STATUS") \in HostCommands
      BY BareType DEF Ops
    <3>4. tool.pc = "wren" => Shift(Bare("WREN")) BY <1>4 DEF ToolShift
    <3>5. tool.pc = "cmd" => Shift(Current.cmd) BY <1>4 DEF ToolShift
    <3>6. tool.pc = "poll" => Shift(Bare("READ_STATUS")) BY <1>4 DEF ToolShift
    <3> QED BY <1>4, <3>2, <3>3, <3>4, <3>5, <3>6 DEF ToolShift
  <2>2. spi' \in SpiType
    <3>1. Shifted(spi, c) \in SpiType BY <1>1, ShiftedType
    <3>2. ASSUME NEW b \in BOOLEAN, NEW x \in HostCommands
          PROVE  [spi EXCEPT !.txn = x, !.seen = b] \in SpiType
      BY <1>1 DEF SpiType
    <3>3. Bare("READ_STATUS") \in HostCommands BY BareType DEF Ops
    <3> QED BY <2>1, <3>1, <3>2, <3>3 DEF Shift
  <2> QED BY <1>4, <2>2, OutsideKeepsRefInv DEF ToolShift
<1>5. CASE ToolRelease
  <2>1. spi' \in SpiType BY <1>1, <1>5, ReleasedType DEF ToolRelease
  <2> QED BY <1>5, <2>1, OutsideKeepsRefInv DEF ToolRelease
<1>6. CASE ToolSkip \/ ToolUnstrap \/ UNCHANGED toolVars
  <2>1. rom' = rom /\ flash' = flash /\ perms' = perms /\ spi' = spi
    BY <1>6 DEF ToolSkip, ToolUnstrap, toolVars, vars
  <2> QED BY <1>1, <2>1, OutsideKeepsRefInv
<1> QED BY <1>2, <1>3, <1>4, <1>5, <1>6 DEF UpdateNext, ToolNext
-----------------------------------------------------------------------------
(* The script of an update *)

\* Where the chunk of an image that begins at word a ends.
ChunkEnd(a, image) ==
  IF a + WordsPerProgPage < Len(image) THEN a + WordsPerProgPage ELSE Len(image)

Chunk(a, image) == SubSeq(image, a + 1, ChunkEnd(a, image))

ChunkItem(a, image) ==
  Item(Command("PAGE_PROGRAM", a, TRUE, Chunk(a, image), FALSE), TRUE, TRUE)

ChunkCount(image) ==
  IF image = <<>> THEN 0 ELSE ((Len(image) - 1) \div WordsPerProgPage) + 1

LEMMA ChunkIs ==
  ASSUME NEW image \in Seq(ProgramWords), NEW a \in Nat, a < Len(image)
  PROVE  /\ ChunkEnd(a, image) \in a + 1 .. Len(image)
         /\ ChunkEnd(a, image) <= a + WordsPerProgPage
         /\ Chunk(a, image) \in Payloads
         /\ Len(Chunk(a, image)) = ChunkEnd(a, image) - a
         /\ \A j \in 1 .. ChunkEnd(a, image) - a : Chunk(a, image)[j] = image[a + j]
<1> DEFINE e == ChunkEnd(a, image)
           d == Chunk(a, image)
<1>1. WordsPerProgPage \in Nat \ {0} /\ Len(image) \in Nat BY Sizes
<1>2. e \in a + 1 .. Len(image) /\ e <= a + WordsPerProgPage
  BY <1>1 DEF ChunkEnd
<1>3. d = SubSeq(image, a + 1, e) BY DEF Chunk
<1> HIDE DEF e, d
<1>4. d \in Seq(ProgramWords) /\ Len(d) = e - a /\ \A j \in 1 .. e - a : d[j] = image[a + j]
  BY <1>1, <1>2, <1>3
<1>5. d \in Payloads BY <1>1, <1>2, <1>4 DEF Payloads, ProgramWords
<1> QED BY <1>2, <1>4, <1>5 DEF e, d

LEMMA TimesOrder ==
  ASSUME NEW P \in Nat, NEW x \in Nat, NEW y \in Nat, x <= y
  PROVE  x * P <= y * P
<1>1. PICK d \in Nat : y = x + d
  <2>1. y - x \in Nat /\ y = x + (y - x) OBVIOUS
  <2> QED BY <2>1
<1>2. y * P = x * P + d * P BY <1>1
<1>3. d * P \in Nat /\ x * P \in Nat OBVIOUS
<1> QED BY <1>2, <1>3

\* Numbers of chunks and of words.
LEMMA ChunkCounts ==
  ASSUME NEW image \in Seq(ProgramWords)
  PROVE  LET K == ChunkCount(image)
             P == WordsPerProgPage
         IN  /\ K \in Nat /\ Len(image) <= K * P
             /\ \A k \in 1 .. K : (k - 1) * P \in Nat /\ (k - 1) * P < Len(image)
             /\ \A k \in Nat : k >= K => Len(image) <= k * P
<1> DEFINE P == WordsPerProgPage
           L == Len(image)
           K == ChunkCount(image)
<1>1. P \in Nat \ {0} /\ L \in Nat /\ (image = <<>> <=> L = 0) BY Sizes
<1>2. K = IF L = 0 THEN 0 ELSE ((L - 1) \div P) + 1
  BY <1>1 DEF ChunkCount
<1> HIDE DEF P, L, K
<1>20. ASSUME NEW x \in Nat, NEW y \in Nat, x <= y PROVE x * P <= y * P
  <2>1. P \in Nat BY <1>1
  <2> QED BY <1>20, <2>1, TimesOrder
<1>21. ASSUME NEW x \in Nat PROVE x * P \in Nat
  BY <1>1
<1>3. CASE L = 0
  <2>1. K = 0 BY <1>2, <1>3
  <2>2. K * P = 0 BY <1>1, <2>1
  <2>3. \A k \in Nat : L <= k * P BY <1>1, <1>3, <1>21
  <2> QED BY <1>1, <1>3, <2>1, <2>2, <2>3 DEF P, L, K
<1>4. CASE L # 0
  <2> DEFINE q == (L - 1) \div P
  <2>1. L - 1 \in Nat BY <1>1, <1>4
  <2>2. q \in Nat /\ L - 1 = P * q + ((L - 1) % P) /\ (L - 1) % P \in 0 .. P - 1
    BY <1>1, <2>1, Division
  <2>3. K = q + 1 BY <1>2, <1>4
  <2> HIDE DEF q
  <2>4. K \in Nat /\ K * P = P * q + P /\ L <= K * P
    BY <1>1, <2>2, <2>3
  <2>5. ASSUME NEW k \in 1 .. K PROVE (k - 1) * P \in Nat /\ (k - 1) * P < L
    <3>1. k - 1 \in Nat /\ k - 1 <= q BY <2>2, <2>3
    <3>2. (k - 1) * P <= q * P BY <1>20, <2>2, <3>1
    <3>3. q * P = P * q BY <1>1, <2>2
    <3> QED BY <1>1, <1>21, <2>2, <3>1, <3>2, <3>3
  <2>6. ASSUME NEW k \in Nat, k >= K PROVE L <= k * P
    <3>1. K * P <= k * P BY <1>20, <2>4, <2>6
    <3>2. k * P \in Nat /\ K * P \in Nat BY <1>21, <2>4
    <3> QED BY <1>1, <2>4, <3>1, <3>2
  <2> QED BY <2>4, <2>5, <2>6 DEF P, L, K
<1> QED BY <1>3, <1>4 DEF P, L, K

LEMMA ProgramItemsAre ==
  ASSUME NEW image \in Seq(ProgramWords)
  PROVE  ProgramItems(0, image)
           = [k \in 1 .. ChunkCount(image) |-> ChunkItem((k - 1) * WordsPerProgPage, image)]
<1> DEFINE P == WordsPerProgPage
           L == Len(image)
           from(k) == IF k = 1 THEN 0 ELSE ((0 \div P) + k - 1) * P
           to(k)   == IF from(k + 1) < 0 + L THEN from(k + 1) ELSE 0 + L
           words(k) == SubSeq(image, from(k) - 0 + 1, to(k) - 0)
           item(k) == Item(Command("PAGE_PROGRAM", from(k), TRUE, words(k), FALSE), TRUE, TRUE)
           N == ((0 + L - 1) \div P) - (0 \div P) + 1
<1>1. P \in Nat \ {0} /\ L \in Nat BY Sizes
<1>2. ProgramItems(0, image) = IF image = <<>> THEN <<>> ELSE [k \in 1 .. N |-> item(k)]
  BY DEF ProgramItems
<1>3. 0 \div P = 0 BY <1>1
<1>4. ASSUME NEW k \in Nat \ {0}
      PROVE  /\ from(k) = (k - 1) * P /\ from(k) \in Nat /\ from(k + 1) = from(k) + P
  BY <1>1, <1>3
<1> HIDE DEF P, L, from
<1>5. ASSUME NEW k \in Nat \ {0}
      PROVE  item(k) = ChunkItem((k - 1) * WordsPerProgPage, image)
  <2> DEFINE a == (k - 1) * P
  <2>1. from(k) = a /\ from(k) \in Nat /\ from(k + 1) = a + P BY <1>4
  <2> HIDE DEF a
  <2>2. to(k) - 0 = ChunkEnd(a, image)
    BY <1>1, <2>1 DEF ChunkEnd, P, L
  <2>3. words(k) = Chunk(a, image)
    <3>1. from(k) - 0 + 1 = a + 1 BY <2>1
    <3> HIDE DEF to
    <3> QED BY <2>2, <3>1 DEF Chunk
  <2> HIDE DEF words
  <2>4. item(k) = ChunkItem(a, image) BY <2>1, <2>3 DEF ChunkItem
  <2> QED BY <2>4 DEF a, P
<1>6. CASE image = <<>>
  <2>1. ChunkCount(image) = 0 /\ 1 .. 0 = {} BY <1>6 DEF ChunkCount
  <2>2. ProgramItems(0, image) = <<>> BY <1>2, <1>6
  <2> QED BY <2>1, <2>2
<1>7. CASE image # <<>>
  <2>1. N = ChunkCount(image)
    <3>1. 0 + L - 1 = Len(image) - 1 BY <1>1 DEF L
    <3>2. (Len(image) - 1) \div P \in Int BY <1>1 DEF L
    <3> QED BY <1>3, <1>7, <3>1, <3>2 DEF ChunkCount, P
  <2>2. ProgramItems(0, image) = [k \in 1 .. N |-> item(k)] BY <1>2, <1>7
  <2>3. \A k \in 1 .. N : k \in Nat \ {0} OBVIOUS
  <2> HIDE DEF N, item
  <2> QED BY <1>5, <2>1, <2>2, <2>3
<1> QED BY <1>6, <1>7

LEMMA ItemType ==
  ASSUME NEW c \in HostCommands, c.op \in Uploaded, c.at = None => c.aligned,
         NEW wren \in BOOLEAN, NEW poll \in BOOLEAN
  PROVE  /\ Item(c, wren, poll) \in Items
         /\ Item(c, wren, poll).cmd = c /\ Item(c, wren, poll).wren = wren
         /\ Item(c, wren, poll).poll = poll
<1>1. c \in ToolCommands BY DEF ToolCommands
<1> QED BY <1>1 DEF Item, Items

LEMMA ChunkItemIs ==
  ASSUME NEW image \in Seq(ProgramWords), NEW a \in Nat, a < Len(image)
  PROVE  /\ ChunkItem(a, image) \in Items /\ ChunkItem(a, image).poll
         /\ ChunkItem(a, image).cmd = Command("PAGE_PROGRAM", a, TRUE, Chunk(a, image), FALSE)
<1> DEFINE c == Command("PAGE_PROGRAM", a, TRUE, Chunk(a, image), FALSE)
<1>1. Chunk(a, image) \in Payloads BY ChunkIs
<1>2. c \in HostCommands /\ c.op \in Uploaded /\ (c.at = None => c.aligned)
  BY <1>1 DEF Command, HostCommands, Ops, Uploaded
<1>3. ChunkItem(a, image) = Item(c, TRUE, TRUE) BY DEF ChunkItem
<1> HIDE DEF c
<1>4. ChunkItem(a, image) \in Items /\ ChunkItem(a, image).poll /\ ChunkItem(a, image).cmd = c
  BY <1>2, <1>3, ItemType
<1> QED BY <1>4 DEF c

EraseItem == Item(Bare("CHIP_ERASE"), TRUE, TRUE)
ResetItem == Item(Bare("RESET"), FALSE, FALSE)

LEMMA EndItems ==
  /\ EraseItem \in Items /\ EraseItem.poll /\ EraseItem.cmd = Bare("CHIP_ERASE")
  /\ ResetItem \in Items /\ ~ResetItem.poll /\ ResetItem.cmd = Bare("RESET")
<1>1. ASSUME NEW op \in Uploaded
      PROVE  /\ Bare(op) \in HostCommands /\ Bare(op).op \in Uploaded
             /\ Bare(op).at = None => Bare(op).aligned
  BY BareType DEF Bare, Command, Uploaded
<1>2. "CHIP_ERASE" \in Uploaded /\ "RESET" \in Uploaded BY DEF Uploaded, Ops
<1> QED BY <1>1, <1>2, ItemType DEF EraseItem, ResetItem

\* An erase, the chunks in order, and RESET.
LEMMA UpdateIs ==
  ASSUME NEW image \in Seq(ProgramWords)
  PROVE  LET s == Update(image)
             K == ChunkCount(image)
         IN  /\ s \in Seq(Items) /\ Len(s) = K + 2
             /\ s[1] = EraseItem /\ s[K + 2] = ResetItem
             /\ \A k \in 1 .. K : s[k + 1] = ChunkItem((k - 1) * WordsPerProgPage, image)
<1> DEFINE K == ChunkCount(image)
           p == ProgramItems(0, image)
           s == Update(image)
<1>1. K \in Nat /\ \A k \in 1 .. K : (k - 1) * WordsPerProgPage \in Nat
                                   /\ (k - 1) * WordsPerProgPage < Len(image)
  BY ChunkCounts
<1>2. p = [k \in 1 .. K |-> ChunkItem((k - 1) * WordsPerProgPage, image)]
  BY ProgramItemsAre
<1> HIDE DEF K, p
<1>3. \A k \in 1 .. K : ChunkItem((k - 1) * WordsPerProgPage, image) \in Items
  BY <1>1, ChunkItemIs
<1>4. /\ p \in Seq(Items) /\ Len(p) = K
      /\ \A k \in 1 .. K : p[k] = ChunkItem((k - 1) * WordsPerProgPage, image)
  BY <1>1, <1>2, <1>3
<1>5. s = (<<EraseItem>> \o p) \o <<ResetItem>>
  BY DEF Update, EraseItem, ResetItem, p
<1> HIDE DEF s
<1>6. <<EraseItem>> \in Seq(Items) /\ <<ResetItem>> \in Seq(Items)
  BY EndItems
<1> DEFINE e == <<EraseItem>> \o p
<1>7. /\ e \in Seq(Items) /\ Len(e) = K + 1 /\ e[1] = EraseItem
      /\ \A k \in 1 .. K : e[k + 1] = p[k]
  <2>1. /\ e \in Seq(Items) /\ Len(e) = Len(<<EraseItem>>) + Len(p)
        /\ \A i \in 1 .. Len(<<EraseItem>>) + Len(p) :
             e[i] = IF i <= Len(<<EraseItem>>) THEN <<EraseItem>>[i] ELSE p[i - Len(<<EraseItem>>)]
    BY <1>4, <1>6, ConcatProperties, Zenon
  <2>2. Len(<<EraseItem>>) = 1 /\ <<EraseItem>>[1] = EraseItem OBVIOUS
  <2> HIDE DEF e
  <2> QED BY <1>1, <1>4, <2>1, <2>2
<1>8. s = e \o <<ResetItem>> BY <1>5
<1> HIDE DEF e
<1>9. /\ s \in Seq(Items) /\ Len(s) = K + 2 /\ s[K + 2] = ResetItem
      /\ \A i \in 1 .. K + 1 : s[i] = e[i]
  <2>1. /\ s \in Seq(Items) /\ Len(s) = Len(e) + Len(<<ResetItem>>)
        /\ \A i \in 1 .. Len(e) + Len(<<ResetItem>>) :
             s[i] = IF i <= Len(e) THEN e[i] ELSE <<ResetItem>>[i - Len(e)]
    BY <1>6, <1>7, <1>8, ConcatProperties, Zenon
  <2>2. Len(<<ResetItem>>) = 1 /\ <<ResetItem>>[1] = ResetItem OBVIOUS
  <2> QED BY <1>1, <1>7, <2>1, <2>2
<1>10. s[1] = EraseItem BY <1>1, <1>7, <1>9
<1>11. ASSUME NEW k \in 1 .. K
       PROVE  s[k + 1] = ChunkItem((k - 1) * WordsPerProgPage, image)
  <2>1. k + 1 \in 1 .. K + 1 BY <1>1
  <2> QED BY <1>4, <1>7, <1>9, <2>1
<1> QED BY <1>9, <1>10, <1>11 DEF s, K

LEMMA UpdateIsGood ==
  ASSUME NEW image \in Images
  PROVE  image \in Seq(ProgramWords) /\ GoodScript(Update(image))
<1> DEFINE s == Update(image)
           K == ChunkCount(image)
<1>1. image \in Seq(ProgramWords) BY ToolAssumption DEF ProgramWords
<1>2. /\ s \in Seq(Items) /\ Len(s) = K + 2
      /\ s[1] = EraseItem /\ s[K + 2] = ResetItem
      /\ \A k \in 1 .. K : s[k + 1] = ChunkItem((k - 1) * WordsPerProgPage, image)
  BY <1>1, UpdateIs
<1>3. K \in Nat /\ \A k \in 1 .. K : (k - 1) * WordsPerProgPage \in Nat
                                   /\ (k - 1) * WordsPerProgPage < Len(image)
  BY <1>1, ChunkCounts
<1> HIDE DEF s, K
<1>4. ASSUME NEW i \in DOMAIN s PROVE s[i].poll \/ (i = Len(s) /\ s[i].cmd.op = "RESET")
  <2>1. i \in 1 .. K + 2 BY <1>2
  <2>2. CASE i = 1 BY <1>2, <2>2, EndItems
  <2>3. CASE i = K + 2 BY <1>2, <2>3, EndItems DEF Bare, Command
  <2>4. CASE i \in 2 .. K + 1
    <3>1. i - 1 \in 1 .. K /\ (i - 1) + 1 = i BY <1>3, <2>4
    <3>2. s[i] = ChunkItem(((i - 1) - 1) * WordsPerProgPage, image) BY <1>2, <3>1
    <3> QED BY <1>1, <1>3, <3>1, <3>2, ChunkItemIs
  <2> QED BY <1>3, <2>1, <2>2, <2>3, <2>4
<1> QED BY <1>1, <1>2, <1>4 DEF s, GoodScript
-----------------------------------------------------------------------------
(* What the bus does *)

\* The status at the SCK edges of a transaction.
AtEdge(s) == IF s.pending = 0 THEN s.staged ELSE NoStatus

LEMMA StatusBits ==
  ASSUME NEW x \in Status, NEW b \in BOOLEAN
  PROVE  /\ [x EXCEPT !.wel = b] = [wip |-> x.wip, wel |-> b]
         /\ [x EXCEPT !.wip = b] = [wip |-> b, wel |-> x.wel]
BY DEF Status

LEMMA ShiftedIs ==
  ASSUME NEW s \in SpiType, NEW c \in HostCommands
  PROVE  LET t == Shifted(s, c)
         IN  /\ t.on = s.on /\ t.txn = c /\ t.pending = 0
             /\ t.committed = s.committed /\ t.sys = s.sys
             /\ t.intr = s.intr /\ t.overflow = s.overflow /\ t.addrs = s.addrs
             /\ c.op = "READ_STATUS" =>
                  /\ t.seen = s.committed.wip /\ t.staged = AtEdge(s)
                  /\ t.cmds = s.cmds /\ t.data = s.data
             /\ c.op = "WREN" =>
                  /\ t.staged = [wip |-> AtEdge(s).wip, wel |-> TRUE]
                  /\ t.cmds = s.cmds /\ t.data = s.data
             /\ c.op \in Uploaded =>
                  /\ t.staged = [wip |-> TRUE, wel |-> AtEdge(s).wel]
                  /\ t.cmds = Append(s.cmds, c.op)
<1> DEFINE p == [Popped(s) EXCEPT !.txn = c]
           t == Shifted(s, c)
<1>1. /\ p = [f \in DOMAIN ResetSpi |-> p[f]]
      /\ p.on = s.on /\ p.txn = c /\ p.pending = 0 /\ p.staged = AtEdge(s)
      /\ p.committed = s.committed /\ p.sys = s.sys
      /\ p.intr = s.intr /\ p.overflow = s.overflow
      /\ p.addrs = s.addrs /\ p.cmds = s.cmds /\ p.data = s.data
  BY DEF Popped, AtEdge, SpiType, ResetSpi
<1>2. p.staged \in Status
  <2>1. AtEdge(s) \in Status BY DEF AtEdge, SpiType, Status, NoStatus
  <2> QED BY <1>1, <2>1
<1>3. t = CASE c.op = "READ_STATUS" -> [p EXCEPT !.seen = s.committed.wip]
            [] c.op = "WREN"      -> [p EXCEPT !.staged.wel = TRUE]
            [] c.op = "WRDI"      -> [p EXCEPT !.staged.wel = FALSE]
            [] OTHER              -> [p EXCEPT !.staged.wip = TRUE, !.data = <<>>,
                                               !.cmds = Append(@, c.op)]
  BY DEF Shifted
<1> HIDE DEF p, t
<1>4. CASE c.op = "READ_STATUS"
  <2>1. t = [p EXCEPT !.seen = s.committed.wip] BY <1>3, <1>4
  <2> QED BY <1>1, <1>4, <2>1 DEF t, ResetSpi, Uploaded
<1>5. CASE c.op = "WREN"
  <2>1. t = [p EXCEPT !.staged.wel = TRUE] BY <1>3, <1>5
  <2>2. t.staged = [p.staged EXCEPT !.wel = TRUE] BY <1>1, <2>1 DEF ResetSpi
  <2>3. t.staged = [wip |-> AtEdge(s).wip, wel |-> TRUE] BY <1>1, <1>2, <2>2, StatusBits, Zenon
  <2>4. /\ t.on = p.on /\ t.txn = p.txn /\ t.pending = p.pending
        /\ t.committed = p.committed /\ t.sys = p.sys
        /\ t.intr = p.intr /\ t.overflow = p.overflow /\ t.addrs = p.addrs
        /\ t.cmds = p.cmds /\ t.data = p.data
    BY <1>1, <2>1 DEF ResetSpi
  <2>5. "WREN" # "READ_STATUS" /\ "WREN" \notin Uploaded BY DEF Uploaded
  <2> QED BY <1>1, <1>5, <2>3, <2>4, <2>5 DEF t
<1>6. CASE c.op = "WRDI"
  <2>1. t = [p EXCEPT !.staged.wel = FALSE] BY <1>3, <1>6
  <2> QED BY <1>1, <1>6, <2>1 DEF t, ResetSpi, Uploaded
<1>7. CASE c.op \in Uploaded
  <2>1. t = [p EXCEPT !.staged.wip = TRUE, !.data = <<>>, !.cmds = Append(@, c.op)]
    BY <1>3, <1>7 DEF Uploaded
  <2>2. t.staged = [p.staged EXCEPT !.wip = TRUE] BY <1>1, <2>1 DEF ResetSpi
  <2>3. t.staged = [wip |-> TRUE, wel |-> AtEdge(s).wel] BY <1>1, <1>2, <2>2, StatusBits, Zenon
  <2>4. /\ t.on = p.on /\ t.txn = p.txn /\ t.pending = p.pending
        /\ t.committed = p.committed /\ t.sys = p.sys
        /\ t.intr = p.intr /\ t.overflow = p.overflow /\ t.addrs = p.addrs
        /\ t.cmds = Append(p.cmds, c.op)
    BY <1>1, <2>1 DEF ResetSpi
  <2>5. c.op # "WREN" /\ c.op # "READ_STATUS" BY <1>7 DEF Uploaded
  <2> QED BY <1>1, <1>7, <2>3, <2>4, <2>5 DEF t
<1> QED BY <1>4, <1>5, <1>6, <1>7 DEF HostCommands, Uploaded

LEMMA ReleasedIs ==
  ASSUME NEW s \in SpiType, s.txn # None
  PROVE  LET t == Released(s)
             c == s.txn
         IN  /\ t.on = s.on /\ t.txn = None /\ t.pending = s.pending /\ t.seen = s.seen
             /\ t.staged = s.staged /\ t.committed = s.staged /\ t.sys = s.staged
             /\ t.cmds = s.cmds
             /\ c.op \notin Uploaded =>
                  /\ t.addrs = s.addrs /\ t.data = s.data
                  /\ t.intr = s.intr /\ t.overflow = s.overflow
             /\ c.op \in Uploaded =>
                  /\ t.addrs = IF c.at = None THEN s.addrs
                               ELSE Append(s.addrs, [at |-> c.at, aligned |-> c.aligned])
                  /\ t.data = c.data /\ t.intr /\ t.overflow = (s.overflow \/ c.over)
<1>1. CASE s.txn.op \notin Uploaded
  BY <1>1 DEF Released, SpiType
<1>2. CASE s.txn.op \in Uploaded
  BY <1>2 DEF Released, SpiType
<1> QED BY <1>1, <1>2

LEMMA ClearedIs ==
  ASSUME NEW s \in SpiType
  PROVE  LET t == StatusCleared(s)
         IN  /\ t.pending > 0 /\ t.on = s.on /\ t.txn = s.txn /\ t.seen = s.seen
             /\ t.staged = s.staged /\ t.committed = s.committed /\ t.sys = s.sys
             /\ t.intr = s.intr /\ t.overflow = s.overflow
             /\ t.cmds = s.cmds /\ t.addrs = s.addrs /\ t.data = s.data
BY DEF StatusCleared, SpiType

LEMMA ResetSpiIs ==
  ASSUME ChipReset, spi.txn = None PROVE spi' = ResetSpi
<1>1. PICK b \in BOOLEAN :
        spi' = [ResetSpi EXCEPT !.seen = IF spi.txn = None THEN FALSE ELSE b,
                                !.txn = IF spi.txn = None THEN None ELSE Bare("READ_STATUS")]
  BY DEF ChipReset
<1>2. spi' = [ResetSpi EXCEPT !.seen = FALSE, !.txn = None] BY <1>1
<1> QED BY <1>2 DEF ResetSpi
-----------------------------------------------------------------------------
(* What the tool makes of flash *)

LEMMA NoneIsNone == None \notin [Words -> Values] /\ None \notin HostCommands
BY ToolAssumption

LEMMA ErasesAll ==
  ASSUME NEW m, NEW c, c.op = "CHIP_ERASE"
  PROVE  Believed(m, c) = [w \in Words |-> Erased] /\ NorEffect(c, m) = [w \in Words |-> Erased]
BY DEF Believed, NorEffect

\* Once the tool knows flash, and before.
LEMMA BelievedKnown ==
  ASSUME NEW m \in [Words -> Values], NEW c \in HostCommands, c.op \in HasAddress
  PROVE  /\ Believed(m, c) = [w \in Words |-> IF w \in DOMAIN NorEffect(c, m)
                                              THEN NorEffect(c, m)[w] ELSE m[w]]
         /\ Believed(m, c) \in [Words -> Values]
<1> DEFINE e == NorEffect(c, m)
<1>1. Believed(m, c) = [w \in Words |-> IF w \in DOMAIN e THEN e[w] ELSE m[w]]
  BY NoneIsNone DEF Believed, HasAddress
<1>2. ASSUME NEW w \in Words PROVE (IF w \in DOMAIN e THEN e[w] ELSE m[w]) \in Values
  <2>1. CASE w \notin DOMAIN e BY <2>1
  <2>2. CASE w \in DOMAIN e /\ c.op = "SECTOR_ERASE"
    <3>1. e = [v \in SectorOf(c.at) |-> Erased] BY <2>2 DEF NorEffect
    <3> QED BY <2>2, <3>1 DEF Values
  <2>3. CASE w \in DOMAIN e /\ c.op = "PAGE_PROGRAM"
    <3>1. e = [v \in Reached(c.at, c.data) |-> Programmed(m[v], c.data[Index(c.at, v)])]
      BY <2>3 DEF NorEffect, ProgramEffect, Reached, Index
    <3>2. w \in Reached(c.at, c.data) BY <2>3, <3>1
    <3>3. c.data \in Seq(ProgramWords) BY DEF HostCommands, Payloads, ProgramWords
    <3>4. c.data[Index(c.at, w)] \in ProgramWords BY <3>2, <3>3 DEF Reached
    <3> QED BY <2>3, <3>1, <3>2, <3>4, ProgrammedTwice
  <2> QED BY <2>1, <2>2, <2>3 DEF HasAddress
<1> HIDE DEF e
<1>3. [w \in Words |-> IF w \in DOMAIN e THEN e[w] ELSE m[w]] \in [Words -> Values]
  BY <1>2
<1> QED BY <1>1, <1>3 DEF e

LEMMA BelievedSame ==
  ASSUME NEW m, NEW c, c.op # "CHIP_ERASE", m = None \/ c.op \notin HasAddress
  PROVE  Believed(m, c) = m
BY DEF Believed

LEMMA BelievedType ==
  ASSUME NEW m \in [Words -> Values] \cup {None}, NEW c \in HostCommands
  PROVE  Believed(m, c) \in [Words -> Values] \cup {None}
<1>1. CASE c.op = "CHIP_ERASE"
  <2>1. Believed(m, c) = [w \in Words |-> Erased] BY <1>1, ErasesAll
  <2> QED BY <2>1 DEF Values
<1>2. CASE c.op # "CHIP_ERASE" /\ (m = None \/ c.op \notin HasAddress)
  BY <1>2, BelievedSame
<1>3. CASE m # None /\ c.op \in HasAddress BY <1>3, BelievedKnown
<1> QED BY <1>1, <1>2, <1>3

-----------------------------------------------------------------------------
(* The next item *)

LEMMA AtItemIs ==
  ASSUME ToolType, NEW i \in 1 .. Len(tool.script) + 1, tool' = AtItem(i)
  PROVE  /\ tool' \in [pc : {"start", "skip", "wren", "cmd", "poll", "unstrap", "reset", "done"},
                       i : Nat \ {0}, script : Seq(Items), image : Images \cup {None}]
         /\ tool'.i = i /\ tool'.script = tool.script /\ tool'.image = tool.image
         /\ i = Len(tool.script) + 1 => tool'.pc = "unstrap"
         /\ i <= Len(tool.script) =>
              /\ tool'.pc \in {"skip", "wren", "cmd"}
              /\ tool'.pc = "skip" => Skipped(tool.script[i])
              /\ tool'.pc = "wren" => tool.script[i].wren
              /\ tool'.pc = "cmd" => ~tool.script[i].wren
<1> DEFINE pc == IF i > Len(tool.script) THEN "unstrap"
                 ELSE IF Skipped(tool.script[i]) THEN "skip"
                 ELSE IF tool.script[i].wren THEN "wren" ELSE "cmd"
           T == [pc : {"start", "skip", "wren", "cmd", "poll", "unstrap", "reset", "done"},
                 i : Nat \ {0}, script : Seq(Items), image : Images \cup {None}]
<1>1. tool \in T /\ Len(tool.script) \in Nat BY DEF ToolType
<1>2. tool' = [tool EXCEPT !.pc = pc, !.i = i] BY DEF AtItem
<1>3. /\ i = Len(tool.script) + 1 => pc = "unstrap"
      /\ i <= Len(tool.script) =>
              /\ pc \in {"skip", "wren", "cmd"}
              /\ pc = "skip" => Skipped(tool.script[i])
              /\ pc = "wren" => tool.script[i].wren
              /\ pc = "cmd" => ~tool.script[i].wren
  BY <1>1
<1>4. pc \in {"skip", "wren", "cmd", "unstrap"} /\ i \in Nat \ {0} BY <1>1
<1> HIDE DEF pc
<1>5. tool' \in T /\ tool'.pc = pc /\ tool'.i = i /\ tool'.script = tool.script
      /\ tool'.image = tool.image
  BY <1>1, <1>2, <1>4
<1> QED BY <1>3, <1>5

\* ToolType and Place hold at the next item.
LEMMA NextItemPlace ==
  ASSUME ToolType, NEW i \in 1 .. Len(tool.script) + 1, tool' = AtItem(i),
         view' \in [mem : [Words -> Values] \cup {None}, sure : BOOLEAN],
         i = 1 => view'.mem = None
  PROVE  ToolType' /\ Place'
<1>1. /\ tool' \in [pc : {"start", "skip", "wren", "cmd", "poll", "unstrap", "reset", "done"},
                    i : Nat \ {0}, script : Seq(Items), image : Images \cup {None}]
      /\ tool'.i = i /\ tool'.script = tool.script /\ tool'.image = tool.image
      /\ i = Len(tool.script) + 1 => tool'.pc = "unstrap"
      /\ i <= Len(tool.script) =>
           /\ tool'.pc \in {"skip", "wren", "cmd"}
           /\ tool'.pc = "skip" => Skipped(tool.script[i])
           /\ tool'.pc = "wren" => tool.script[i].wren
           /\ tool'.pc = "cmd" => ~tool.script[i].wren
  BY AtItemIs
<1>2. ToolType'
  <2>1. GoodScript(tool.script) /\ (tool.image # None => tool.script = Update(tool.image))
    BY DEF ToolType
  <2> QED BY <1>1, <2>1 DEF ToolType
<1>3. Len(tool.script) \in Nat BY DEF ToolType
<1>4. Current' = tool.script[i] BY <1>1 DEF Current
<1>5. i <= Len(tool.script) \/ i = Len(tool.script) + 1 BY <1>3
<1>6. Skipped(tool.script[i]) => Skipped(Current)' BY <1>4 DEF Skipped
<1>7. CASE i = Len(tool.script) + 1
  BY <1>1, <1>2, <1>7 DEF Place, InSession
<1>8. CASE i <= Len(tool.script)
  BY <1>1, <1>2, <1>4, <1>6, <1>8 DEF Place, InSession
<1> QED BY <1>5, <1>7, <1>8
-----------------------------------------------------------------------------
(* How an image is written *)

\* The item i of an update.
LEMMA UpdateItem ==
  ASSUME ToolType, tool.image # None, NEW i \in 1 .. Len(tool.script)
  PROVE  /\ tool.image \in Seq(ProgramWords)
         /\ ChunkCount(tool.image) \in Nat /\ Len(tool.script) = ChunkCount(tool.image) + 2
         /\ \/ i = 1 /\ tool.script[i] = EraseItem
            \/ /\ i = ChunkCount(tool.image) + 2 /\ i # 1 /\ tool.script[i] = ResetItem
            \/ /\ i \in 2 .. ChunkCount(tool.image) + 1
               /\ (i - 2) * WordsPerProgPage \in Nat
               /\ (i - 2) * WordsPerProgPage < Len(tool.image)
               /\ tool.script[i] = ChunkItem((i - 2) * WordsPerProgPage, tool.image)
<1> DEFINE m == tool.image
           s == tool.script
           K == ChunkCount(tool.image)
<1>1. m \in Images /\ s = Update(m) BY DEF ToolType
<1>2. m \in Seq(ProgramWords) BY <1>1, UpdateIsGood
<1>3. /\ Len(s) = K + 2 /\ s[1] = EraseItem /\ s[K + 2] = ResetItem
      /\ \A k \in 1 .. K : s[k + 1] = ChunkItem((k - 1) * WordsPerProgPage, m)
  BY <1>1, <1>2, UpdateIs
<1>4. K \in Nat /\ \A k \in 1 .. K : (k - 1) * WordsPerProgPage \in Nat
                                   /\ (k - 1) * WordsPerProgPage < Len(m)
  BY <1>2, ChunkCounts
<1> HIDE DEF m, s, K
<1>5. i \in 1 .. K + 2 BY <1>3 DEF s
<1>6. ASSUME i \in 2 .. K + 1
      PROVE  /\ (i - 2) * WordsPerProgPage \in Nat /\ (i - 2) * WordsPerProgPage < Len(m)
             /\ s[i] = ChunkItem((i - 2) * WordsPerProgPage, m)
  <2>1. i - 1 \in 1 .. K /\ (i - 1) + 1 = i /\ (i - 1) - 1 = i - 2 BY <1>4, <1>6
  <2> QED BY <1>3, <1>4, <2>1
<1>7. i = 1 \/ (i = K + 2 /\ i # 1) \/ i \in 2 .. K + 1 BY <1>4, <1>5
<1> QED BY <1>2, <1>3, <1>4, <1>6, <1>7 DEF m, s, K

\* A chunk in its page, of which nothing is written so far.
LEMMA ChunkWritten ==
  ASSUME NEW image \in Seq(ProgramWords), NEW k \in Nat, NEW a \in Nat,
         a = k * WordsPerProgPage, a < Len(image),
         NEW m \in [Words -> Values], \A w \in Words : w >= a => m[w] = Erased
  PROVE  Believed(m, ChunkItem(a, image).cmd)
           = [w \in Words |-> IF a <= w /\ w < a + WordsPerProgPage /\ w < Len(image)
                              THEN image[w + 1] ELSE m[w]]
<1> DEFINE P == WordsPerProgPage
           d == Chunk(a, image)
           c == ChunkItem(a, image).cmd
           e == NorEffect(c, m)
           b == [w \in Words |-> IF w \in DOMAIN e THEN e[w] ELSE m[w]]
           L == Len(image)
<1>1. P \in Nat \ {0} /\ L \in Nat /\ Words \subseteq Nat
  <2>1. P \in Nat \ {0} /\ L \in Nat BY Sizes
  <2>2. MaxAddress \in Nat BY Sizes
  <2> QED BY <2>1, <2>2 DEF Words
<1>2. c = Command("PAGE_PROGRAM", a, TRUE, d, FALSE) /\ c \in HostCommands
  BY ChunkItemIs DEF Items, ToolCommands
<1>3. c.op = "PAGE_PROGRAM" /\ c.at = a /\ c.data = d BY <1>2 DEF Command
<1>4. /\ ChunkEnd(a, image) = IF a + P < L THEN a + P ELSE L
      /\ Len(d) = ChunkEnd(a, image) - a /\ d \in Payloads
      /\ \A j \in 1 .. ChunkEnd(a, image) - a : d[j] = image[a + j]
  BY ChunkIs DEF ChunkEnd
<1>5. Believed(m, c) = b
  <2>1. c.op \in HasAddress BY <1>3 DEF HasAddress
  <2> HIDE DEF c
  <2> QED BY <1>2, <2>1, BelievedKnown DEF e
<1>6. e = [v \in Reached(a, d) |-> Programmed(m[v], d[Index(a, v)])]
  BY <1>3 DEF NorEffect, ProgramEffect, Reached, Index
<1>7. a % P = 0
  <2> HIDE DEF P
  <2>1. P * k <= a /\ a < P * k + P /\ k \in Int /\ a \in Int BY <1>1 DEF P
  <2>2. a % P = a - P * k BY <1>1, <2>1, Quotient
  <2> QED BY <1>1, <2>2 DEF P
<1> HIDE DEF P, L, c, d, e
<1>8. DOMAIN d = 1 .. Len(d) /\ Len(d) \in Nat BY <1>4 DEF Payloads
<1>9. ASSUME NEW w \in Words
      PROVE  (IF w \in DOMAIN e THEN e[w] ELSE m[w])
               = IF a <= w /\ w < a + P /\ w < L THEN image[w + 1] ELSE m[w]
  <2>1. w \in PageOf(a) <=> w \in a .. a + P - 1
    <3>1. w \in Nat BY <1>1
    <3>2. w \div P = a \div P <=> w \in a - (a % P) .. a - (a % P) + P - 1
      BY <1>1, <3>1, BlockOf
    <3> QED BY <1>7, <3>2 DEF PageOf, P
  <2>2. ASSUME w \in a .. a + P - 1 PROVE Index(a, w) = w - a + 1
    <3>1. w - a \in 0 .. P - 1 BY <1>1, <2>2
    <3>2. (w - a) % P = w - a BY <1>1, <3>1, Offset
    <3> QED BY <3>2 DEF Index, P
  <2>3. w \in DOMAIN e <=> a <= w /\ w < a + P /\ w < L
    <3>1. w \in DOMAIN e <=> w \in a .. a + P - 1 /\ Index(a, w) \in 1 .. Len(d)
      BY <1>6, <1>8, <2>1 DEF Reached
    <3> QED BY <1>1, <1>4, <2>2, <3>1
  <2>4. ASSUME w \in DOMAIN e PROVE e[w] = image[w + 1]
    <3>1. e[w] = Programmed(m[w], d[Index(a, w)]) BY <1>6, <2>4
    <3>2. a <= w /\ w < a + P /\ w < L /\ w \in Nat BY <1>1, <2>3, <2>4
    <3>3. Index(a, w) = w - a + 1 BY <1>1, <2>2, <3>2
    <3>4. w - a + 1 \in 1 .. ChunkEnd(a, image) - a /\ a + (w - a + 1) = w + 1
      BY <1>1, <1>4, <3>2
    <3>5. d[w - a + 1] = image[w + 1] BY <1>4, <3>4
    <3>6. m[w] = Erased BY <3>2
    <3> QED BY <3>1, <3>3, <3>5, <3>6 DEF Programmed
  <2> QED BY <2>3, <2>4
<1> QED BY <1>5, <1>9 DEF P, L, c
LEMMA WrittenType ==
  ASSUME ToolType, tool.image # None, NEW i \in Nat \ {0}
  PROVE  WrittenBefore(i) \in [Words -> Values] /\ WrittenBefore(i) # None
<1>1. tool.image \in Seq(ProgramWords)
  BY UpdateIsGood DEF ToolType
<1>2. ASSUME NEW w \in Words, w < Len(tool.image) PROVE tool.image[w + 1] \in Values
  <2>1. w \in Nat /\ w + 1 \in 1 .. Len(tool.image)
    <3>1. MaxAddress \in Nat /\ Len(tool.image) \in Nat BY <1>1, Sizes
    <3> QED BY <1>2, <3>1 DEF Words
  <2>2. tool.image[w + 1] \in ProgramWords BY <1>1, <2>1
  <2> QED BY <2>2 DEF ProgramWords, Values
<1>3. WrittenBefore(i) \in [Words -> Values] BY <1>2 DEF WrittenBefore, Values
<1> QED BY <1>3, NoneIsNone

\* The first item leaves all of flash erased.
LEMMA NothingWritten ==
  ASSUME ToolType, tool.image # None
  PROVE  WrittenBefore(2) = [w \in Words |-> Erased]
<1>1. WordsPerProgPage \in Nat /\ MaxAddress \in Nat BY Sizes
<1>2. (2 - 2) * WordsPerProgPage = 0 BY <1>1
<1>3. \A w \in Words : ~(w < (2 - 2) * WordsPerProgPage) BY <1>1, <1>2 DEF Words
<1> QED BY <1>3 DEF WrittenBefore

\* The words that an item adds are those of its chunk.
LEMMA WrittenNext ==
  ASSUME ToolType, tool.image # None, NEW i \in Nat, i >= 2
  PROVE  LET a == (i - 2) * WordsPerProgPage
         IN  /\ WrittenBefore(i + 1)
                  = [w \in Words |-> IF a <= w /\ w < a + WordsPerProgPage /\ w < Len(tool.image)
                                     THEN tool.image[w + 1] ELSE WrittenBefore(i)[w]]
             /\ \A w \in Words : w >= a => WrittenBefore(i)[w] = Erased
             /\ i = ChunkCount(tool.image) + 2 => WrittenBefore(i + 1) = WrittenBefore(i)
<1> DEFINE P == WordsPerProgPage
           L == Len(tool.image)
           a == (i - 2) * P
           K == ChunkCount(tool.image)
<1>1. tool.image \in Seq(ProgramWords) BY UpdateIsGood DEF ToolType
<1>2. P \in Nat \ {0} /\ L \in Nat BY <1>1, Sizes
<1>3. a \in Nat /\ ((i + 1) - 2) * P = a + P
  <2> HIDE DEF P
  <2>1. i - 2 \in Nat /\ (i + 1) - 2 = (i - 2) + 1 BY <1>2
  <2> QED BY <1>2, <2>1
<1>4. Words \subseteq Nat
  <2>1. MaxAddress \in Nat BY Sizes
  <2> QED BY <2>1 DEF Words
<1>5. /\ WrittenBefore(i) = [w \in Words |-> IF w < L /\ w < a THEN tool.image[w + 1] ELSE Erased]
      /\ WrittenBefore(i + 1)
           = [w \in Words |-> IF w < L /\ w < a + P THEN tool.image[w + 1] ELSE Erased]
  BY <1>3 DEF WrittenBefore
<1>6. ASSUME i = K + 2 PROVE L <= a
  <2>1. L <= K * P /\ K \in Nat BY <1>1, ChunkCounts
  <2>2. i - 2 = K BY <1>6, <2>1
  <2> QED BY <2>1, <2>2
<1> HIDE DEF P, L, a, K
<1>7. ASSUME NEW w \in Words
      PROVE  /\ WrittenBefore(i + 1)[w] = IF a <= w /\ w < a + P /\ w < L
                                          THEN tool.image[w + 1] ELSE WrittenBefore(i)[w]
             /\ w >= a => WrittenBefore(i)[w] = Erased
             /\ i = K + 2 => WrittenBefore(i + 1)[w] = WrittenBefore(i)[w]
  <2>1. w \in Nat BY <1>4
  <2> QED BY <1>2, <1>3, <1>5, <1>6, <2>1
<1>8. WrittenBefore(i + 1)
        = [w \in Words |-> IF a <= w /\ w < a + P /\ w < L
                           THEN tool.image[w + 1] ELSE WrittenBefore(i)[w]]
  BY <1>5, <1>7
<1>9. i = K + 2 => WrittenBefore(i + 1) = WrittenBefore(i)
  BY <1>5, <1>7
<1> QED BY <1>7, <1>8, <1>9 DEF P, L, a, K

\* What the tool believes after an item it saw end.
LEMMA BelievedWritten ==
  ASSUME ToolType, Place, Progress, tool.image # None, InSession, Current.poll
  PROVE  Believed(view.mem, Current.cmd) = WrittenBefore(tool.i + 1)
<1> DEFINE i == tool.i
<1>1. i \in 1 .. Len(tool.script) /\ tool.pc # "start" BY DEF Place, InSession
<1>2. CASE i = 1 /\ Current = EraseItem
  <2>1. Current.cmd.op = "CHIP_ERASE" BY <1>2, EndItems DEF Bare, Command
  <2>2. Believed(view.mem, Current.cmd) = [w \in Words |-> Erased] BY <2>1, ErasesAll
  <2> QED BY <1>2, <2>2, NothingWritten
<1>3. CASE Current = ResetItem BY <1>3, EndItems
<1>4. CASE /\ i \in 2 .. ChunkCount(tool.image) + 1
           /\ (i - 2) * WordsPerProgPage \in Nat
           /\ (i - 2) * WordsPerProgPage < Len(tool.image)
           /\ Current = ChunkItem((i - 2) * WordsPerProgPage, tool.image)
           /\ tool.image \in Seq(ProgramWords)
  <2> DEFINE a == (i - 2) * WordsPerProgPage
             m == WrittenBefore(i)
  <2>1. i \in Nat /\ i >= 2 /\ i - 2 \in Nat BY <1>1, <1>4
  <2>2. view.mem = m BY <1>1, <2>1 DEF Progress
  <2>3. m \in [Words -> Values] BY <2>1, WrittenType
  <2>4. /\ WrittenBefore(i + 1)
             = [w \in Words |-> IF a <= w /\ w < a + WordsPerProgPage /\ w < Len(tool.image)
                                THEN tool.image[w + 1] ELSE m[w]]
        /\ \A w \in Words : w >= a => m[w] = Erased
    BY <2>1, WrittenNext
  <2>5. a \in Nat /\ a < Len(tool.image) /\ a = (i - 2) * WordsPerProgPage
        /\ Current = ChunkItem(a, tool.image)
    BY <1>4
  <2> HIDE DEF a, m
  <2>6. Believed(m, ChunkItem(a, tool.image).cmd)
          = [w \in Words |-> IF a <= w /\ w < a + WordsPerProgPage /\ w < Len(tool.image)
                             THEN tool.image[w + 1] ELSE m[w]]
    BY <1>4, <2>1, <2>3, <2>4, <2>5, ChunkWritten
  <2> QED BY <2>2, <2>4, <2>5, <2>6
<1> QED BY <1>1, <1>2, <1>3, <1>4, UpdateItem DEF Current

\* An item that is skipped or not waited for writes nothing.
LEMMA NothingAdded ==
  ASSUME ToolType, Place, tool.image # None, InSession, Skipped(Current) \/ ~Current.poll
  PROVE  tool.i >= 2 /\ WrittenBefore(tool.i + 1) = WrittenBefore(tool.i)
<1> DEFINE i == tool.i
<1>1. i \in 1 .. Len(tool.script) BY DEF Place
<1>2. CASE i = 1 /\ Current = EraseItem
  BY <1>2, EndItems DEF Skipped, Bare, Command
<1>3. CASE i = ChunkCount(tool.image) + 2 /\ i # 1 /\ Current = ResetItem
  <2>1. i \in Nat /\ i >= 2 BY <1>1, <1>3
  <2> QED BY <1>3, <2>1, WrittenNext
<1>4. CASE /\ i \in 2 .. ChunkCount(tool.image) + 1
           /\ (i - 2) * WordsPerProgPage \in Nat
           /\ (i - 2) * WordsPerProgPage < Len(tool.image)
           /\ Current = ChunkItem((i - 2) * WordsPerProgPage, tool.image)
           /\ tool.image \in Seq(ProgramWords)
  <2> DEFINE a == (i - 2) * WordsPerProgPage
             d == Chunk(a, tool.image)
             P == WordsPerProgPage
             L == Len(tool.image)
  <2>1. a \in Nat /\ a < L /\ Current = ChunkItem(a, tool.image) /\ P \in Nat /\ L \in Nat
        /\ Words \subseteq Nat /\ i \in Nat /\ i >= 2
    <3>1. MaxAddress \in Nat /\ P \in Nat BY Sizes
    <3> QED BY <1>1, <1>4, <3>1 DEF Words
  <2>2. /\ WrittenBefore(i + 1)
             = [w \in Words |-> IF a <= w /\ w < a + P /\ w < L
                                THEN tool.image[w + 1] ELSE WrittenBefore(i)[w]]
        /\ \A w \in Words : w >= a => WrittenBefore(i)[w] = Erased
    BY <2>1, WrittenNext
  <2> HIDE DEF a, P, L
  <2>3. Current.poll /\ Current.cmd = Command("PAGE_PROGRAM", a, TRUE, d, FALSE)
    BY <1>4, <2>1, ChunkItemIs DEF L
  <2>4. IsOnes(d) BY <2>3 DEF Skipped, Command
  <2>5. /\ ChunkEnd(a, tool.image) = IF a + P < L THEN a + P ELSE L
        /\ Len(d) = ChunkEnd(a, tool.image) - a /\ d \in Payloads
        /\ \A j \in 1 .. ChunkEnd(a, tool.image) - a : d[j] = tool.image[a + j]
    BY <1>4, <2>1, ChunkIs DEF ChunkEnd, P, L
  <2>6. DOMAIN d = 1 .. Len(d) BY <2>5 DEF Payloads
  <2>7. ASSUME NEW w \in Words, a <= w, w < a + P, w < L PROVE tool.image[w + 1] = Erased
    <3>1. w - a + 1 \in 1 .. ChunkEnd(a, tool.image) - a /\ a + (w - a + 1) = w + 1
      BY <2>1, <2>5, <2>7
    <3>2. d[w - a + 1] = Erased BY <2>4, <2>5, <2>6, <3>1 DEF IsOnes
    <3> QED BY <2>5, <3>1, <3>2
  <2>8. WrittenBefore(i) = [w \in Words |-> WrittenBefore(i)[w]] BY DEF WrittenBefore
  <2>9. \A w \in Words : (IF a <= w /\ w < a + P /\ w < L
                          THEN tool.image[w + 1] ELSE WrittenBefore(i)[w]) = WrittenBefore(i)[w]
    BY <2>1, <2>2, <2>7
  <2> QED BY <2>1, <2>2, <2>8, <2>9
<1> QED BY <1>1, <1>2, <1>3, <1>4, UpdateItem DEF Current
-----------------------------------------------------------------------------
(* Every step keeps the tool in its place *)

ToolInv == ToolType /\ Place /\ Progress

ViewType == [mem : [Words -> Values] \cup {None}, sure : BOOLEAN]

LEMMA ProgressNext ==
  ASSUME tool'.image = tool.image,
         tool.image # None /\ tool'.i >= 2 => view'.mem = WrittenBefore(tool'.i)
  PROVE  Progress'
BY DEF Progress, WrittenBefore

LEMMA SameItemKeepsTool ==
  ASSUME ToolInv, tool' = tool, view' \in ViewType, view'.mem = view.mem,
         tool.pc = "start" => spi'.txn = None /\ ~view'.sure
  PROVE  ToolInv'
<1>1. ToolType' BY DEF ToolInv, ToolType, ViewType
<1>2. Place' BY DEF ToolInv, Place, InSession, Current, Skipped
<1>3. Progress' BY DEF ToolInv, Progress, WrittenBefore
<1> QED BY <1>1, <1>2, <1>3 DEF ToolInv

LEMMA ChipKeepsTxn ==
  ASSUME spi \in SpiType, spi.txn = None, RomNext \/ LatePop \/ AnyReset
  PROVE  spi'.txn = None
<1>1. CASE spi' = spi BY <1>1
<1>2. CASE EnterBootstrap
  BY <1>2 DEF EnterBootstrap, SpiDeviceInit, StatusCleared, SpiType
<1>3. CASE CmdClear \/ CmdPop
  BY <1>3 DEF CmdClear, CmdPop, SpiType
<1>4. CASE spi' = StatusCleared(spi) BY <1>4, ClearedIs
<1>5. CASE ChipReset BY <1>5, ResetSpiIs DEF ResetSpi
<1>6. CASE RomNext
  <2>1. CASE RomMain \/ CmdWait \/ CmdPayload \/ Ignore \/ FirstErase \/ StartJob \/ BadAddress
             \/ Transaction \/ FailedTransaction
    BY <1>1, <2>1 DEF RomMain, CmdWait, CmdPayload, Ignore, FirstErase, StartJob, BadAddress,
                      Transaction, FailedTransaction
  <2>2. CASE Skip \/ EndJob \/ EraseVerify
    BY <1>1, <1>4, <2>2 DEF Skip, EndJob, EraseVerify
  <2>3. CASE ResetCommand \/ Shutdown BY <1>5, <2>3 DEF ResetCommand, Shutdown
  <2> QED BY <1>2, <1>3, <1>6, <2>1, <2>2, <2>3 DEF RomNext
<1> QED BY <1>5, <1>6 DEF LatePop, AnyReset

\* What a step of the chip tells the tool.
LEMMA ChipView ==
  ASSUME ToolType, ChipNext(RomNext \/ LatePop \/ AnyReset)
  PROVE  /\ tool' = tool /\ view' \in ViewType /\ view'.mem = view.mem
         /\ view'.sure => view.sure /\ ~(InSession /\ rom' = IdleRom)
BY DEF ToolType, ViewType, ChipNext

LEMMA ReleaseKeepsTool ==
  ASSUME ToolInv, ToolRelease PROVE ToolInv'
<1>1. InSession /\ tool.pc # "start" /\ tool.pc # "skip" BY DEF ToolRelease, InSession
<1>2. view \in ViewType /\ view.mem \in [Words -> Values] \cup {None}
      /\ Len(tool.script) \in Nat /\ ToolType /\ Place /\ Progress
  BY DEF ToolInv, ToolType, ViewType
<1>3. tool.i \in 1 .. Len(tool.script) /\ Current.cmd \in HostCommands /\ Current.poll \in BOOLEAN
  BY <1>1, <1>2, CurrentIs
<1>4. tool.i + 1 \in 1 .. Len(tool.script) + 1 /\ tool.i \in Nat /\ tool.i + 1 # 1
      /\ tool.i + 1 >= 2
  BY <1>2, <1>3
<1>5. CASE tool.pc = "wren" /\ tool' = [tool EXCEPT !.pc = "cmd"] /\ view' = view
  <2>1. tool'.i = tool.i /\ tool'.script = tool.script /\ tool'.image = tool.image
        /\ tool'.pc = "cmd"
    BY <1>2, <1>5 DEF ToolType
  <2>2. ToolType'
    BY <1>2, <1>5 DEF ToolType
  <2>3. Place' BY <1>1, <1>2, <1>3, <1>5, <2>1 DEF Place, InSession
  <2>4. Progress' BY <1>2, <1>1, <1>5, <2>1, ProgressNext DEF Progress
  <2> QED BY <2>2, <2>3, <2>4 DEF ToolInv
<1>6. CASE tool.pc = "cmd" /\ Current.poll /\ tool' = [tool EXCEPT !.pc = "poll"] /\ view' = view
  <2>1. tool'.i = tool.i /\ tool'.script = tool.script /\ tool'.image = tool.image
        /\ tool'.pc = "poll"
    BY <1>2, <1>6 DEF ToolType
  <2>2. ToolType'
    BY <1>2, <1>6 DEF ToolType
  <2>3. Current' = Current BY <2>1 DEF Current
  <2>4. Place' BY <1>1, <1>2, <1>3, <1>6, <2>1, <2>3 DEF Place, InSession
  <2>5. Progress' BY <1>2, <1>1, <1>6, <2>1, ProgressNext DEF Progress
  <2> QED BY <2>2, <2>4, <2>5 DEF ToolInv
<1>7. CASE tool.pc = "cmd" /\ ~Current.poll /\ tool' = AtItem(tool.i + 1) /\ view' = view
  <2>1. ToolType' /\ Place' BY <1>2, <1>4, <1>7, NextItemPlace DEF ViewType
  <2>2. tool'.i = tool.i + 1 /\ tool'.image = tool.image BY <1>2, <1>4, <1>7, AtItemIs
  <2>3. tool.image # None => tool.i >= 2 /\ WrittenBefore(tool.i + 1) = WrittenBefore(tool.i)
    BY <1>1, <1>2, <1>7, NothingAdded
  <2>4. tool.image # None => view'.mem = WrittenBefore(tool'.i)
    BY <1>1, <1>2, <1>7, <2>2, <2>3 DEF Progress
  <2>5. Progress' BY <2>2, <2>4, ProgressNext
  <2> QED BY <2>1, <2>5 DEF ToolInv
<1>8. CASE tool.pc = "poll" /\ UNCHANGED <<tool, view>>
  BY <1>2, <1>8, SameItemKeepsTool
<1>9. CASE /\ tool.pc = "poll" /\ tool' = AtItem(tool.i + 1)
           /\ view' = [view EXCEPT !.mem = Believed(@, Current.cmd)]
  <2> DEFINE b == Believed(view.mem, Current.cmd)
  <2>1. b \in [Words -> Values] \cup {None} BY <1>2, <1>3, BelievedType
  <2>2. view' = [view EXCEPT !.mem = b] BY <1>9
  <2> HIDE DEF b
  <2>3. view' \in ViewType /\ view'.mem = b BY <1>2, <2>1, <2>2 DEF ViewType
  <2>4. ToolType' /\ Place' BY <1>2, <1>4, <1>9, <2>3, NextItemPlace DEF ViewType
  <2>5. tool'.i = tool.i + 1 /\ tool'.image = tool.image BY <1>2, <1>4, <1>9, AtItemIs
  <2>6. Current.poll BY <1>2, <1>9 DEF Place
  <2>7. tool.image # None => b = WrittenBefore(tool.i + 1)
    BY <1>1, <1>2, <2>6, BelievedWritten DEF b
  <2>8. Progress' BY <2>3, <2>5, <2>7, ProgressNext
  <2> QED BY <2>4, <2>8 DEF ToolInv
<1> QED BY <1>3, <1>5, <1>6, <1>7, <1>8, <1>9 DEF ToolRelease

LEMMA StepKeepsTool ==
  ASSUME spi \in SpiType, ToolInv, [UpdateNext]_toolVars PROVE ToolInv'
<1>1. view \in ViewType /\ Len(tool.script) \in Nat /\ ToolType /\ Place /\ Progress
  BY DEF ToolInv, ToolType, ViewType
<1>2. CASE ChipNext(RomNext \/ LatePop \/ AnyReset)
  <2>1. /\ tool' = tool /\ view' \in ViewType /\ view'.mem = view.mem
        /\ view'.sure => view.sure
    BY <1>1, <1>2, ChipView
  <2>2. spi.txn = None => spi'.txn = None BY <1>2, ChipKeepsTxn DEF ChipNext
  <2> QED BY <1>1, <2>1, <2>2, SameItemKeepsTool DEF Place
<1>3. CASE ToolStart
  <2>1. tool' = AtItem(1) /\ view' = [mem |-> None, sure |-> TRUE] BY <1>3 DEF ToolStart
  <2>2. view' \in ViewType /\ view'.mem = None BY <2>1 DEF ViewType
  <2>3. 1 \in 1 .. Len(tool.script) + 1 BY <1>1
  <2>4. ToolType' /\ Place' BY <1>1, <2>1, <2>2, <2>3, NextItemPlace DEF ViewType
  <2>5. tool'.i = 1 /\ tool'.image = tool.image BY <1>1, <2>1, <2>3, AtItemIs
  <2>6. Progress' BY <2>5, ProgressNext
  <2> QED BY <2>4, <2>6 DEF ToolInv
<1>4. CASE ToolSkip
  <2>1. tool' = AtItem(tool.i + 1) /\ view' = view /\ tool.pc = "skip" /\ InSession
    BY <1>4 DEF ToolSkip, InSession
  <2>2. tool.i + 1 \in 1 .. Len(tool.script) + 1 /\ tool.i + 1 # 1 /\ Skipped(Current)
    BY <1>1, <2>1 DEF Place
  <2>3. ToolType' /\ Place' BY <1>1, <2>1, <2>2, NextItemPlace DEF ViewType
  <2>4. tool'.i = tool.i + 1 /\ tool'.image = tool.image BY <1>1, <2>1, <2>2, AtItemIs
  <2>5. tool.image # None => tool.i >= 2 /\ WrittenBefore(tool.i + 1) = WrittenBefore(tool.i)
    BY <1>1, <2>1, <2>2, NothingAdded
  <2>6. tool.image # None => view'.mem = WrittenBefore(tool'.i)
    BY <1>1, <2>1, <2>4, <2>5 DEF Progress
  <2>7. Progress' BY <2>4, <2>6, ProgressNext
  <2> QED BY <2>3, <2>7 DEF ToolInv
<1>5. CASE ToolShift \/ UNCHANGED toolVars
  <2>1. tool' = tool /\ view' = view /\ (tool.pc = "start" => spi' = spi)
    BY <1>5 DEF ToolShift, toolVars, vars
  <2> QED BY <1>1, <2>1, SameItemKeepsTool DEF Place
<1>6. CASE ToolUnstrap \/ ToolReset
  <2>1. PICK pc \in {"reset", "done"} : tool' = [tool EXCEPT !.pc = pc]
    BY <1>6 DEF ToolUnstrap, ToolReset
  <2>2. view' = view /\ tool.pc \in {"unstrap", "reset"}
    BY <1>6 DEF ToolUnstrap, ToolReset
  <2>3. tool'.i = tool.i /\ tool'.script = tool.script /\ tool'.image = tool.image
        /\ tool'.pc = pc
    BY <1>1, <2>1 DEF ToolType
  <2>4. ToolType' BY <1>1, <2>1, <2>2 DEF ToolType
  <2>5. Place' BY <1>1, <2>2, <2>3 DEF Place, InSession
  <2>6. Progress' BY <1>1, <2>2, <2>3, ProgressNext DEF Progress
  <2> QED BY <2>4, <2>5, <2>6 DEF ToolInv
<1> QED BY <1>2, <1>3, <1>4, <1>5, <1>6, ReleaseKeepsTool DEF UpdateNext, ToolNext
-----------------------------------------------------------------------------
(* Every step of the tool keeps the phase *)

LEMMA NextItemPhase ==
  ASSUME ToolType, NEW i \in 1 .. Len(tool.script) + 1, tool' = AtItem(i),
         Quiet', spi'.txn = None, spi'.staged = NoStatus,
         view'.mem # None => rom'.state = "Program" /\ (~WeakErase => flash' = view'.mem)
  PROVE  AtRest' \/ Ending'
<1>1. /\ tool'.i = i /\ tool'.script = tool.script
      /\ i = Len(tool.script) + 1 => tool'.pc = "unstrap"
      /\ i <= Len(tool.script) =>
           /\ tool'.pc \in {"skip", "wren", "cmd"}
           /\ tool'.pc = "cmd" => ~tool.script[i].wren
  BY AtItemIs
<1>2. Current' = tool.script[i] BY <1>1 DEF Current
<1>3. i = Len(tool.script) + 1 \/ i <= Len(tool.script) BY DEF ToolType
<1>4. CASE i = Len(tool.script) + 1
  <2>1. <<>> \in Seq({"RESET"}) OBVIOUS
  <2>2. Ending' BY <1>1, <1>4, <2>1 DEF Ending, Quiet, NoneWaits
  <2> QED BY <2>2
<1>5. CASE i <= Len(tool.script)
  BY <1>1, <1>2, <1>5 DEF AtRest, Known
<1> QED BY <1>3, <1>4, <1>5

LEMMA StartPhase ==
  ASSUME ToolInv, ToolStart PROVE Setup' \/ Ending'
<1>1. /\ spi.txn = None /\ ToolType /\ Len(tool.script) \in Nat /\ strap' /\ rom' = IdleRom
      /\ tool' = AtItem(1) /\ view'.mem = None
  BY DEF ToolInv, Place, ToolStart, ToolType, ChipReset
<1>2. spi' = ResetSpi BY <1>1, ResetSpiIs DEF ToolStart
<1>3. 1 \in 1 .. Len(tool.script) + 1 BY <1>1
<1>4. /\ tool'.i = 1 /\ tool'.script = tool.script
      /\ 1 = Len(tool.script) + 1 => tool'.pc = "unstrap"
      /\ 1 <= Len(tool.script) => tool'.pc \in {"skip", "wren", "cmd"}
  BY <1>1, <1>3, AtItemIs
<1>5. CASE Len(tool.script) = 0
  <2>1. <<>> \in Seq({"RESET"}) OBVIOUS
  <2>2. Ending' BY <1>1, <1>2, <1>4, <1>5, <2>1 DEF Ending, ResetSpi, IdleRom
  <2> QED BY <2>2
<1>6. CASE Len(tool.script) >= 1
  <2>1. InSession' BY <1>4, <1>6 DEF InSession
  <2>2. tool' = AtItem(1)' BY <1>1, <1>4 DEF AtItem, ToolType
  <2> QED BY <1>1, <1>2, <2>1, <2>2 DEF Setup, IdleRom
<1> QED BY <1>1, <1>5, <1>6

LEMMA SkipPhase ==
  ASSUME ToolInv, Phase, view.sure, ToolSkip PROVE AtRest' \/ Ending'
<1>1. /\ ToolType /\ Place /\ Len(tool.script) \in Nat /\ tool.pc = "skip" /\ InSession
      /\ tool' = AtItem(tool.i + 1) /\ UNCHANGED <<vars, view>> /\ HasSfdp
  BY DEF ToolInv, ToolType, ToolSkip, InSession
<1>2. tool.i + 1 \in 1 .. Len(tool.script) + 1 BY <1>1 DEF Place
<1>3. ~Setup BY <1>1 DEF Setup, HasSfdp, ResetSpi
<1>4. AtRest BY <1>1, <1>3 DEF Phase, AtRest, Enabling, Enabled, Sending, Flight, Ended, Ending
<1>5. Quiet' /\ spi'.txn = None /\ spi'.staged = NoStatus
  BY <1>1, <1>4 DEF AtRest, vars, Quiet, NoneWaits
<1>6. view'.mem # None => rom'.state = "Program" /\ (~WeakErase => flash' = view'.mem)
  BY <1>1, <1>4 DEF AtRest, Known, vars
<1> QED BY <1>1, <1>2, <1>5, <1>6, NextItemPhase

LEMMA ShiftPhase ==
  ASSUME TypeInv, ToolInv, Phase, view.sure, ToolShift
  PROVE  Enabling' \/ Sending' \/ Flight' \/ Ended'
<1>1. /\ ToolType /\ Place /\ tool.pc \in {"wren", "cmd", "poll"} /\ InSession /\ HasSfdp
      /\ spi.txn = None /\ spi \in SpiType
      /\ flash' = flash /\ rom' = rom /\ tool' = tool /\ view' = view
  BY DEF ToolInv, TypeInv, ToolShift, InSession, Shift
<1>2. ~Setup BY <1>1 DEF Setup, HasSfdp, ResetSpi
<1>3. Current' = Current BY <1>1 DEF Current
<1>4. Current.cmd \in HostCommands /\ Current.cmd.op \in Uploaded /\ Current.wren \in BOOLEAN
  BY <1>1, CurrentIs
<1>5. Known(view.mem)' <=> Known(view.mem) BY <1>1 DEF Known
<1>6. CASE tool.pc = "wren"
  <2> DEFINE c == Bare("WREN")
  <2>1. c \in HostCommands /\ c.op = "WREN" BY BareType DEF Ops
  <2>2. c # None BY <2>1, NoneIsNone
  <2>3. AtRest
    BY <1>1, <1>2, <1>6, <2>2 DEF Phase, AtRest, Enabling, Enabled, Sending, Flight, Ended, Ending
  <2>4. spi.on /\ Shift(c) BY <1>6, <2>3 DEF ToolShift, AtRest, Quiet
  <2>5. spi' = Shifted(spi, c) BY <2>4 DEF Shift
  <2>6. "WREN" \notin Uploaded /\ "WREN" # "READ_STATUS" BY DEF Uploaded
  <2>7. AtEdge(spi) = NoStatus BY <2>3 DEF AtRest, AtEdge
  <2> HIDE DEF c
  <2>8. /\ spi'.on = spi.on /\ spi'.txn = c /\ spi'.pending = 0
        /\ spi'.intr = spi.intr /\ spi'.overflow = spi.overflow /\ spi'.addrs = spi.addrs
        /\ spi'.cmds = spi.cmds /\ spi'.staged = [wip |-> AtEdge(spi).wip, wel |-> TRUE]
    BY <1>1, <2>1, <2>5, ShiftedIs
  <2>9. spi'.staged = Enable BY <2>7, <2>8 DEF NoStatus, Enable
  <2>10. Quiet' BY <1>1, <2>3, <2>8 DEF AtRest, Quiet, NoneWaits
  <2>11. Enabling' BY <1>1, <1>5, <1>6, <2>3, <2>8, <2>9, <2>10 DEF AtRest, Enabling, c
  <2> QED BY <2>11
<1>7. CASE tool.pc = "cmd"
  <2> DEFINE c == Current.cmd
  <2>1. c # None BY <1>4, NoneIsNone
  <2>2. AtRest \/ Enabled
    BY <1>1, <1>2, <1>7, <2>1 DEF Phase, AtRest, Enabling, Enabled, Sending, Flight, Ended, Ending
  <2>3. Quiet /\ Known(view.mem) BY <2>2 DEF AtRest, Enabled
  <2>4. spi.on /\ Shift(c) BY <1>7, <2>3 DEF ToolShift, Quiet
  <2>5. spi' = Shifted(spi, c) BY <2>4 DEF Shift
  <2>6. AtEdge(spi).wel = Current.wren
    <3>1. CASE AtRest
      <4>1. AtEdge(spi) = NoStatus BY <3>1 DEF AtRest, AtEdge
      <4>2. Current.wren = FALSE BY <1>4, <1>7, <3>1 DEF AtRest
      <4>3. NoStatus.wel = FALSE BY DEF NoStatus
      <4> QED BY <4>1, <4>2, <4>3, Zenon
    <3>2. CASE Enabled
      <4>1. AtEdge(spi) = Enable BY <3>2 DEF Enabled, AtEdge
      <4>2. Current.wren = TRUE BY <1>4, <3>2 DEF Enabled
      <4>3. Enable.wel = TRUE BY DEF Enable
      <4> QED BY <4>1, <4>2, <4>3, Zenon
    <3> QED BY <2>2, <3>1, <3>2
  <2> HIDE DEF c
  <2>7. /\ spi'.on = spi.on /\ spi'.txn = c /\ spi'.pending = 0
        /\ spi'.intr = spi.intr /\ spi'.overflow = spi.overflow /\ spi'.addrs = spi.addrs
        /\ spi'.cmds = Append(spi.cmds, c.op)
        /\ spi'.staged = [wip |-> TRUE, wel |-> AtEdge(spi).wel]
    BY <1>1, <1>4, <2>5, ShiftedIs DEF c
  <2>8. spi'.staged = Busy' BY <1>3, <2>6, <2>7 DEF Busy
  <2>9. spi'.cmds = <<c.op>> BY <2>3, <2>7 DEF Quiet, NoneWaits
  <2>10. Sending'
    BY <1>1, <1>3, <1>5, <1>7, <2>3, <2>7, <2>8, <2>9 DEF Quiet, NoneWaits, Sending, c
  <2> QED BY <2>10
<1>8. CASE tool.pc = "poll"
  <2> DEFINE c == Bare("READ_STATUS")
  <2>1. c \in HostCommands /\ c.op = "READ_STATUS" BY BareType DEF Ops
  <2>2. Flight \/ Ended
    BY <1>1, <1>2, <1>8 DEF Phase, AtRest, Enabling, Enabled, Sending, Flight, Ended, Ending
  <2>3. spi.on /\ Shift(c) BY <1>8, <2>2 DEF ToolShift, Flight, Ended, Quiet
  <2>4. spi' = Shifted(spi, c) BY <2>3 DEF Shift
  <2> HIDE DEF c
  <2>5. /\ spi'.on = spi.on /\ spi'.txn = c /\ spi'.pending = 0
        /\ spi'.committed = spi.committed /\ spi'.sys = spi.sys
        /\ spi'.intr = spi.intr /\ spi'.overflow = spi.overflow /\ spi'.addrs = spi.addrs
        /\ spi'.cmds = spi.cmds /\ spi'.data = spi.data
        /\ spi'.seen = spi.committed.wip /\ spi'.staged = AtEdge(spi)
    BY <1>1, <2>1, <2>4, ShiftedIs
  <2>6. CASE Flight
    <3>1. spi'.staged = Busy /\ Busy.wip BY <2>5, <2>6 DEF Flight, AtEdge, Busy
    <3>2. Busy' = Busy BY <1>3 DEF Busy
    <3>3. InRom(Current.cmd)'
      BY <1>1, <1>3, <1>5, <2>5, <2>6
         DEF Flight, InRom, Waits, NoneWaits, Doing, Effect, NorEffect, ProgramEffect
    <3>4. Flight' BY <1>1, <1>8, <2>5, <2>6, <3>1, <3>2, <3>3 DEF Flight, c
    <3> QED BY <3>4
  <2>7. CASE Ended
    <3>1. Cleared' BY <2>5, <2>7 DEF Ended, Cleared, AtEdge
    <3>2. Quiet' BY <1>1, <2>5, <2>7 DEF Ended, Quiet, NoneWaits
    <3>3. Known(Believed(view.mem, Current.cmd))'
      BY <1>1, <1>3, <2>7 DEF Ended, Known, Believed, NorEffect, ProgramEffect
    <3>4. Ended' BY <1>8, <1>1, <2>5, <3>1, <3>2, <3>3 DEF Ended, c
    <3> QED BY <3>4
  <2> QED BY <2>2, <2>6, <2>7
<1> QED BY <1>1, <1>6, <1>7, <1>8
LEMMA ReleasePhase ==
  ASSUME TypeInv, ToolInv, ToolInv', Phase, view.sure, ToolRelease
  PROVE  Enabled' \/ Flight' \/ Ended' \/ AtRest' \/ Ending'
<1>1. /\ ToolType /\ Place /\ tool.pc \in {"wren", "cmd", "poll"} /\ InSession
      /\ spi.txn # None /\ spi \in SpiType /\ spi' = Released(spi) /\ Len(tool.script) \in Nat
      /\ flash' = flash /\ rom' = rom
  BY DEF ToolInv, TypeInv, ToolType, ToolRelease, InSession
<1>2. /\ spi'.on = spi.on /\ spi'.txn = None /\ spi'.pending = spi.pending
      /\ spi'.seen = spi.seen /\ spi'.cmds = spi.cmds
      /\ spi'.staged = spi.staged /\ spi'.committed = spi.staged /\ spi'.sys = spi.staged
      /\ spi.txn.op \notin Uploaded =>
           /\ spi'.addrs = spi.addrs /\ spi'.data = spi.data
           /\ spi'.intr = spi.intr /\ spi'.overflow = spi.overflow
      /\ spi.txn.op \in Uploaded =>
           /\ spi'.addrs = IF spi.txn.at = None THEN spi.addrs
                           ELSE Append(spi.addrs, [at |-> spi.txn.at, aligned |-> spi.txn.aligned])
           /\ spi'.data = spi.txn.data /\ spi'.intr
           /\ spi'.overflow = (spi.overflow \/ spi.txn.over)
  BY <1>1, ReleasedIs
<1>3. /\ Current.cmd \in HostCommands /\ Current.cmd.op \in Uploaded /\ Current.wren \in BOOLEAN
      /\ Current.poll \/ (tool.i = Len(tool.script) /\ Current.cmd.op = "RESET")
      /\ tool.i \in 1 .. Len(tool.script)
  BY <1>1, CurrentIs
<1>4. tool.i + 1 \in 1 .. Len(tool.script) + 1 BY <1>1, <1>3
<1>5. ~Setup /\ ~AtRest /\ ~Enabled /\ ~Ending
  BY <1>1 DEF Setup, ResetSpi, AtRest, Enabled, Ending
<1>6. CASE tool.pc = "wren"
  <2>1. Enabling BY <1>5, <1>6 DEF Phase, Sending, Flight, Ended
  <2>2. tool' = [tool EXCEPT !.pc = "cmd"] /\ view' = view BY <1>6 DEF ToolRelease
  <2>3. tool'.i = tool.i /\ tool'.script = tool.script /\ tool'.pc = "cmd"
    BY <1>1, <2>2 DEF ToolType
  <2>4. Current' = Current /\ Current.wren BY <1>1, <1>6, <2>3 DEF Current, Place
  <2>5. spi.txn.op \notin Uploaded BY <2>1 DEF Enabling, Bare, Command, Uploaded
  <2>6. Quiet' BY <1>1, <1>2, <2>1, <2>5 DEF Enabling, Quiet, NoneWaits
  <2>7. Enabled'
    BY <1>1, <1>2, <2>1, <2>2, <2>3, <2>4, <2>6 DEF Enabling, Enabled, Known, Enable
  <2> QED BY <2>7
<1>7. CASE tool.pc = "cmd"
  <2> DEFINE c == Current.cmd
  <2>1. Sending BY <1>5, <1>7 DEF Phase, Enabling, Flight, Ended
  <2>2. /\ view' = view
        /\ tool' = IF Current.poll THEN [tool EXCEPT !.pc = "poll"] ELSE AtItem(tool.i + 1)
    BY <1>7 DEF ToolRelease
  <2>3. c.op \in Uploaded /\ spi.txn = c /\ spi.staged = Busy /\ spi.cmds = <<c.op>>
        /\ spi.addrs = <<>> /\ spi.pending = 0 /\ spi.on /\ ~spi.overflow
        /\ rom.pc = "poll" /\ Known(view.mem)
    BY <1>3, <2>1 DEF Sending
  <2>4. CASE Current.poll
    <3>1. tool' = [tool EXCEPT !.pc = "poll"] BY <2>2, <2>4
    <3>2. tool'.i = tool.i /\ tool'.script = tool.script /\ tool'.pc = "poll"
      BY <1>1, <3>1 DEF ToolType
    <3>3. Current' = Current BY <3>2 DEF Current
    <3>4. Busy' = Busy BY <3>3 DEF Busy
    <3>5. spi'.overflow = c.over
      BY <1>2, <1>3, <2>3 DEF HostCommands
    <3>6. spi'.addrs = IF c.at = None THEN <<>> ELSE <<[at |-> c.at, aligned |-> c.aligned]>>
      BY <1>2, <2>3
    <3> HIDE DEF c
    <3>7. Waits(c)' BY <1>2, <2>3, <3>3, <3>6 DEF Waits, c
    <3>8. Known(view.mem)' BY <1>1, <2>2, <2>3 DEF Known
    <3>9. spi'.intr BY <1>2, <2>3
    <3>10. InRom(Current.cmd)' BY <1>1, <2>3, <3>3, <3>5, <3>7, <3>8, <3>9 DEF InRom, c
    <3>11. Flight' BY <1>2, <2>3, <3>2, <3>4, <3>10 DEF Flight
    <3> QED BY <3>11
  <2>5. CASE ~Current.poll
    <3>1. tool' = AtItem(tool.i + 1) BY <2>2, <2>5
    <3>2. tool.i = Len(tool.script) /\ c.op = "RESET" BY <1>3, <2>5
    <3>3. tool'.pc = "unstrap" BY <1>1, <1>4, <3>1, <3>2, AtItemIs
    <3>4. spi'.cmds \in Seq({"RESET"})
      <4>1. <<"RESET">> \in Seq({"RESET"}) OBVIOUS
      <4> QED BY <1>2, <2>3, <3>2, <4>1
    <3>5. Ending' BY <1>1, <1>2, <2>2, <2>3, <3>3, <3>4 DEF Ending, Known
    <3> QED BY <3>5
  <2> QED BY <2>4, <2>5
<1>8. CASE tool.pc = "poll"
  <2>1. Flight \/ Ended BY <1>5, <1>8 DEF Phase, Enabling, Sending
  <2>2. spi.txn = Bare("READ_STATUS") /\ spi.txn.op \notin Uploaded
    BY <1>1, <2>1 DEF Flight, Ended, Bare, Command, Uploaded
  <2>3. /\ spi'.addrs = spi.addrs /\ spi'.data = spi.data
        /\ spi'.intr = spi.intr /\ spi'.overflow = spi.overflow
    BY <1>2, <2>2
  <2>4. CASE spi.seen
    <3>1. tool' = tool /\ view' = view BY <1>8, <2>4 DEF ToolRelease, PollsAgain
    <3>2. Current' = Current BY <3>1 DEF Current
    <3>3. CASE Flight
      <4>1. Busy' = Busy BY <3>2 DEF Busy
      <4>2. InRom(Current.cmd)'
        BY <1>1, <1>2, <2>3, <3>1, <3>2, <3>3
           DEF Flight, InRom, Waits, NoneWaits, Doing, Known, Effect, NorEffect, ProgramEffect
      <4>3. Flight' BY <1>1, <1>2, <1>8, <3>1, <3>3, <4>1, <4>2 DEF Flight
      <4> QED BY <4>3
    <3>4. CASE Ended
      <4>1. Cleared => Cleared' BY <1>2 DEF Cleared
      <4>2. Quiet' BY <1>1, <1>2, <2>3, <3>4 DEF Ended, Quiet, NoneWaits
      <4>3. Known(Believed(view.mem, Current.cmd))'
        BY <1>1, <3>1, <3>2, <3>4 DEF Ended, Known, Believed, NorEffect, ProgramEffect
      <4>4. Ended' BY <1>2, <1>8, <3>1, <3>4, <4>1, <4>2, <4>3 DEF Ended
      <4> QED BY <4>4
    <3> QED BY <2>1, <3>3, <3>4
  <2>5. CASE ~spi.seen
    <3>1. /\ tool' = AtItem(tool.i + 1)
          /\ view' = [view EXCEPT !.mem = Believed(@, Current.cmd)]
      BY <1>8, <2>5 DEF ToolRelease, PollsAgain
    <3>2. Ended /\ Cleared BY <1>1, <2>1, <2>5 DEF Flight, Ended
    <3>3. view'.mem = Believed(view.mem, Current.cmd) BY <1>1, <3>1 DEF ToolType
    <3>4. Quiet' BY <1>1, <1>2, <2>3, <3>2 DEF Ended, Quiet, NoneWaits
    <3>5. view'.mem # None => rom'.state = "Program" /\ (~WeakErase => flash' = view'.mem)
      BY <1>1, <3>2, <3>3 DEF Ended, Known
    <3>6. spi'.staged = NoStatus BY <1>2, <3>2 DEF Cleared
    <3> QED BY <1>1, <1>2, <1>4, <3>1, <3>4, <3>5, <3>6, NextItemPhase
  <2> QED BY <2>4, <2>5
<1> QED BY <1>1, <1>6, <1>7, <1>8

LEMMA LeavePhase ==
  ASSUME ToolInv, Phase, view.sure, ToolUnstrap \/ ToolReset PROVE Ending'
<1>1. ToolType /\ tool.pc \in {"unstrap", "reset"} /\ view' = view
  BY DEF ToolInv, ToolUnstrap, ToolReset
<1>2. Ending
  BY <1>1 DEF Phase, Setup, InSession, AtRest, Enabling, Enabled, Sending, Flight, Ended
<1>3. tool'.pc \in {"reset", "done"} BY <1>1 DEF ToolUnstrap, ToolReset, ToolType
<1>4. CASE ToolUnstrap BY <1>1, <1>2, <1>3, <1>4 DEF ToolUnstrap, Ending
<1>5. CASE ToolReset
  <2>1. ChipReset /\ rom.pc # "work" /\ spi.txn = None BY <1>2, <1>5 DEF ToolReset, Ending
  <2>2. spi' = ResetSpi /\ rom' = IdleRom /\ flash' = flash
    BY <2>1, ResetSpiIs DEF ChipReset
  <2>3. <<>> \in Seq({"RESET"}) OBVIOUS
  <2> QED BY <1>1, <1>2, <1>3, <2>2, <2>3 DEF Ending, ResetSpi, IdleRom
<1> QED BY <1>4, <1>5
-----------------------------------------------------------------------------
(* Every step of the chip keeps the phase *)

\* A status that software cleared waits in no transaction of a command.
LEMMA NoLatePop ==
  ASSUME TypeInv, ToolInv, Phase, view.sure PROVE ~LatePop
<1>1. CASE Sending \/ Flight \/ Ended \/ Enabling
  <2>1. spi.pending = 0 \/ spi.txn \in {None, Bare("READ_STATUS"), Bare("WREN")}
    BY <1>1 DEF Sending, Flight, Ended, Enabling
  <2>2. CASE spi.pending = 0 BY <2>2 DEF LatePop
  <2>3. CASE spi.txn \in {None, Bare("READ_STATUS"), Bare("WREN")}
    BY <2>3 DEF LatePop, Bare, Command, HasAddress
  <2> QED BY <2>1, <2>2, <2>3
<1>2. CASE Setup \/ AtRest \/ Enabled \/ Ending
  BY <1>2 DEF Setup, ResetSpi, AtRest, Enabled, Ending, LatePop
<1> QED BY <1>1, <1>2 DEF Phase

\* While it waits, the ROM does nothing.
LEMMA RomWaits ==
  ASSUME rom.pc = "poll", ~spi.intr PROVE ~RomNext
BY DEF RomNext, RomMain, EnterBootstrap, CmdWait, CmdClear, CmdPop, CmdPayload, Ignore, Skip,
       FirstErase, StartJob, BadAddress, ResetCommand, Transaction, FailedTransaction, EndJob,
       EraseVerify, Shutdown

LEMMA SetupPhase ==
  ASSUME ToolInv, Setup, RomNext, tool' = tool, view'.mem = view.mem, rom' # IdleRom,
         TypeInv
  PROVE  Setup' \/ AtRest'
<1>1. /\ rom.pc \in {"main", "bootstrap"} /\ strap /\ spi = ResetSpi /\ InSession
      /\ tool = AtItem(1) /\ rom \in RomType /\ ToolType /\ Place
  BY DEF Setup, ToolInv, TypeInv
<1>2. RomMain \/ EnterBootstrap
  BY <1>1 DEF RomNext, RomMain, EnterBootstrap, CmdWait, CmdClear, CmdPop, CmdPayload, Ignore,
       Skip, FirstErase, StartJob, BadAddress, ResetCommand, Transaction, FailedTransaction,
       EndJob, EraseVerify, Shutdown
<1>3. CASE RomMain
  <2>1. rom'.pc = "bootstrap" /\ strap' = strap /\ spi' = spi
    BY <1>1, <1>3 DEF RomMain, RomType
  <2>2. InSession' /\ tool' = AtItem(1)' BY <1>1 DEF InSession, AtItem
  <2> QED BY <1>1, <2>1, <2>2 DEF Setup
<1>4. CASE EnterBootstrap
  <2>1. rom'.pc = "poll" /\ spi' = SpiDeviceInit(ResetSpi)
    BY <1>1, <1>4 DEF EnterBootstrap, RomType
  <2>2. /\ spi'.on /\ spi'.txn = None /\ spi'.staged = NoStatus
        /\ spi'.cmds = <<>> /\ spi'.addrs = <<>> /\ ~spi'.intr /\ ~spi'.overflow
    BY <2>1 DEF SpiDeviceInit, StatusCleared, ResetSpi
  <2>3. 1 \in 1 .. Len(tool.script) + 1 /\ Len(tool.script) \in Nat BY <1>1 DEF ToolType
  <2>4. tool.i = 1 /\ 1 <= Len(tool.script)
        /\ tool.pc \in {"skip", "wren", "cmd"} /\ (tool.pc = "cmd" => ~Current.wren)
    <3>1. tool' = AtItem(1) /\ tool.i = tool'.i /\ tool.pc = tool'.pc BY <1>1
    <3>2. tool.i = 1 BY <2>3, <3>1, <1>1, AtItemIs
    <3>3. 1 <= Len(tool.script) BY <1>1, <3>2, <2>3 DEF Place
    <3> QED BY <1>1, <2>3, <3>1, <3>2, <3>3, AtItemIs DEF Current
  <2>5. view.mem = None BY <1>1, <2>4 DEF Place
  <2>6. Current' = Current BY DEF Current
  <2> QED BY <2>1, <2>2, <2>4, <2>5, <2>6 DEF AtRest, Quiet, NoneWaits, Known
<1> QED BY <1>2, <1>3, <1>4

LEMMA EndingPhase ==
  ASSUME TypeInv, Ending, RomNext \/ AnyReset, tool' = tool, view'.mem = view.mem
  PROVE  Ending'
<1>1. /\ rom \in RomType /\ spi \in SpiType /\ spi.txn = None /\ spi.cmds \in Seq({"RESET"})
      /\ rom.pc \notin {"work", "verify"}
      /\ rom.pc \in {"payload", "dispatch"} => rom.cmd.op \in {"RESET", "OTHER"}
      /\ view.mem # None /\ ~WeakErase => flash = view.mem
      /\ tool.pc \in {"unstrap", "reset", "done"}
  BY DEF Ending, TypeInv
<1>2. ASSUME flash' = flash, spi'.txn = None, spi'.cmds \in Seq({"RESET"}),
             rom'.pc \notin {"work", "verify"},
             rom'.pc \in {"payload", "dispatch"} => rom'.cmd.op \in {"RESET", "OTHER"}
      PROVE  Ending'
  BY <1>1, <1>2 DEF Ending
<1>3. CASE ChipReset
  <2>1. spi' = ResetSpi /\ rom' = IdleRom /\ flash' = flash
    BY <1>1, <1>3, ResetSpiIs DEF ChipReset
  <2>2. <<>> \in Seq({"RESET"}) OBVIOUS
  <2> QED BY <1>2, <2>1, <2>2 DEF ResetSpi, IdleRom
<1>4. CASE RomMain \/ EnterBootstrap
  <2>1. rom'.pc \in {"boot", "bootstrap", "poll", "shutdown"} /\ flash' = flash
    BY <1>1, <1>4 DEF RomMain, EnterBootstrap, RomType
  <2>2. spi'.txn = None /\ spi'.cmds = spi.cmds
    BY <1>1, <1>4 DEF RomMain, EnterBootstrap, SpiDeviceInit, StatusCleared, SpiType
  <2> QED BY <1>1, <1>2, <2>1, <2>2
<1>5. CASE CmdWait \/ CmdClear
  <2>1. rom'.pc \in {"clear", "pop", "shutdown"} /\ flash' = flash
    BY <1>1, <1>5 DEF CmdWait, CmdClear, RomType
  <2>2. spi'.txn = None /\ spi'.cmds = spi.cmds
    BY <1>1, <1>5 DEF CmdWait, CmdClear, SpiType
  <2> QED BY <1>1, <1>2, <2>1, <2>2
<1>6. CASE CmdPop
  <2> DEFINE op == IF spi.cmds = <<>> THEN "OTHER" ELSE Head(spi.cmds)
             a  == IF spi.addrs = <<>> THEN [at |-> None, aligned |-> TRUE] ELSE Head(spi.addrs)
             q  == IF spi.cmds = <<>> THEN spi.cmds ELSE Tail(spi.cmds)
  <2>1. op \in {"RESET", "OTHER"} BY <1>1
  <2>2. q \in Seq({"RESET"}) BY <1>1
  <2>3. rom' = [rom EXCEPT !.pc = "payload", !.cmd = Command(op, a.at, a.aligned, <<>>, FALSE)]
    BY <1>6 DEF CmdPop
  <2>4. spi'.txn = None /\ spi'.cmds = q /\ flash' = flash BY <1>1, <1>6 DEF CmdPop, SpiType
  <2> HIDE DEF op, a, q
  <2>5. rom'.pc = "payload" /\ rom'.cmd.op = op BY <1>1, <2>3 DEF RomType, Command
  <2> QED BY <1>2, <2>1, <2>2, <2>4, <2>5
<1>7. CASE CmdPayload
  <2>1. rom'.pc = "dispatch" /\ rom'.cmd.op = rom.cmd.op /\ flash' = flash /\ spi' = spi
    BY <1>1, <1>7 DEF CmdPayload, RomType, HostCommands
  <2> QED BY <1>1, <1>2, <1>7, <2>1 DEF CmdPayload
<1>8. CASE Ignore \/ Skip
  <2>1. rom'.pc = "poll" /\ flash' = flash BY <1>1, <1>8 DEF Ignore, Skip, EndCommand, RomType
  <2>2. spi' \in {spi, StatusCleared(spi)} BY <1>8 DEF Ignore, Skip
  <2>3. spi'.txn = None /\ spi'.cmds = spi.cmds BY <1>1, <2>2, ClearedIs
  <2> QED BY <1>1, <1>2, <2>1, <2>3
<1>9. ~FirstErase /\ ~StartJob /\ ~BadAddress /\ ~Transaction /\ ~FailedTransaction
      /\ ~EndJob /\ ~EraseVerify
  BY <1>1 DEF FirstErase, StartJob, BadAddress, Transaction, FailedTransaction, EndJob,
              EraseVerify, GoodCommand, HasAddress
<1> QED BY <1>3, <1>4, <1>5, <1>6, <1>7, <1>8, <1>9
        DEF RomNext, AnyReset, ResetCommand, Shutdown
(* A command in the ROM *)

LEMMA FlightStays ==
  ASSUME Flight, tool' = tool,
         spi'.on = spi.on, spi'.txn = spi.txn, spi'.seen = spi.seen, spi'.pending = spi.pending,
         spi'.staged = spi.staged, spi'.committed = spi.committed, spi'.sys = spi.sys,
         InRom(Current.cmd)'
  PROVE  Flight'
BY DEF Flight, Busy, Current

\* What the tool will believe when it sees the command end.
LEMMA FlightEnds ==
  ASSUME TypeInv, Flight, tool' = tool, view'.mem = view.mem, spi' = StatusCleared(spi),
         NoneWaits, rom'.pc = "poll",
         Believed(view.mem, Current.cmd) # None =>
           /\ rom'.state = "Program"
           /\ ~WeakErase => flash' = Believed(view.mem, Current.cmd)
  PROVE  Ended'
<1>1. spi \in SpiType BY DEF TypeInv
<1>2. /\ spi'.pending > 0 /\ spi'.on = spi.on /\ spi'.txn = spi.txn /\ spi'.seen = spi.seen
      /\ spi'.staged = spi.staged /\ spi'.committed = spi.committed
      /\ spi'.intr = spi.intr /\ spi'.overflow = spi.overflow
      /\ spi'.cmds = spi.cmds /\ spi'.addrs = spi.addrs
  BY <1>1, ClearedIs
<1>3. Current' = Current BY DEF Current
<1>4. Quiet' BY <1>2 DEF Flight, Quiet, NoneWaits
<1>5. spi'.staged.wip /\ spi'.committed.wip BY <1>2 DEF Flight, Busy
<1>6. Believed(view.mem, Current.cmd)' = Believed(view.mem, Current.cmd)
  BY <1>3 DEF Believed, NorEffect, ProgramEffect
<1>7. Known(Believed(view.mem, Current.cmd))' BY <1>6 DEF Known
<1>8. spi'.txn = None \/ (spi'.txn = Bare("READ_STATUS") /\ spi'.seen)
  BY <1>2 DEF Flight
<1>9. tool'.pc = "poll" BY DEF Flight
<1> QED BY <1>2, <1>4, <1>5, <1>7, <1>8, <1>9 DEF Ended

LEMMA WithPayload ==
  ASSUME NEW c \in HostCommands, NEW d \in Payloads
  PROVE  [c EXCEPT !.data = d] = Command(c.op, c.at, c.aligned, d, c.over)
BY DEF Command, HostCommands

LEMMA TakePhase ==
  ASSUME TypeInv, ToolInv, Flight, CmdWait \/ CmdClear \/ CmdPop \/ CmdPayload,
         tool' = tool, view'.mem = view.mem
  PROVE  Flight'
<1> DEFINE c == Current.cmd
<1>1. /\ rom \in RomType /\ spi \in SpiType /\ tool.pc = "poll" /\ InSession
      /\ ToolType /\ Place /\ InRom(c)
  BY DEF TypeInv, ToolInv, Flight, InSession
<1>2. c \in HostCommands /\ c.op \in Uploaded /\ (c.at = None => c.aligned)
  BY <1>1, CurrentIs
<1>3. Current' = Current BY DEF Current
<1> HIDE DEF c
<1>4. c' = c BY <1>3 DEF c
<1>5. CASE CmdWait
  <2>1. rom'.pc = "clear" /\ rom'.overflow = spi.overflow /\ rom'.state = rom.state
        /\ spi' = spi /\ flash' = flash /\ rom.pc = "poll" /\ spi.intr
    BY <1>1, <1>5 DEF CmdWait, RomType
  <2>2. Waits(c) /\ spi.overflow = c.over /\ Known(view.mem)
    BY <1>1, <2>1 DEF InRom, NoneWaits
  <2>3. Waits(c)' /\ Known(view.mem)' BY <1>4, <2>1, <2>2 DEF Waits, Known
  <2>4. InRom(c)' BY <1>4, <2>1, <2>2, <2>3 DEF InRom
  <2> QED BY <2>1, <2>4, FlightStays DEF c
<1>6. CASE CmdClear
  <2>1. rom.pc = "clear" /\ rom'.pc = (IF rom.overflow THEN "shutdown" ELSE "pop")
        /\ rom'.state = rom.state /\ flash' = flash
    BY <1>1, <1>6 DEF CmdClear, RomType
  <2>2. /\ spi'.on = spi.on /\ spi'.txn = spi.txn /\ spi'.seen = spi.seen
        /\ spi'.pending = spi.pending /\ spi'.staged = spi.staged
        /\ spi'.committed = spi.committed /\ spi'.sys = spi.sys
        /\ spi'.cmds = spi.cmds /\ spi'.addrs = spi.addrs /\ spi'.data = spi.data
        /\ ~spi'.intr /\ ~spi'.overflow
    BY <1>1, <1>6 DEF CmdClear, SpiType
  <2>3. Waits(c) /\ rom.overflow = c.over /\ Known(view.mem) BY <1>1, <2>1 DEF InRom
  <2>4. Waits(c)' /\ Known(view.mem)' BY <1>4, <2>1, <2>2, <2>3 DEF Waits, Known
  <2>5. InRom(c)'
    <3>1. CASE c.over BY <2>1, <2>3, <3>1 DEF InRom
    <3>2. CASE ~c.over BY <1>4, <2>1, <2>2, <2>3, <2>4, <3>2 DEF InRom
    <3> QED BY <3>1, <3>2
  <2> QED BY <2>2, <2>5, FlightStays DEF c
<1>7. CASE CmdPop
  <2>1. rom.pc = "pop" BY <1>7 DEF CmdPop
  <2>2. Waits(c) /\ ~spi.intr /\ ~spi.overflow /\ ~c.over /\ Known(view.mem)
    BY <1>1, <2>1 DEF InRom
  <2> DEFINE op == IF spi.cmds = <<>> THEN "OTHER" ELSE Head(spi.cmds)
             a  == IF spi.addrs = <<>> THEN [at |-> None, aligned |-> TRUE] ELSE Head(spi.addrs)
             q  == IF spi.cmds = <<>> THEN spi.cmds ELSE Tail(spi.cmds)
             r  == IF spi.addrs = <<>> THEN spi.addrs ELSE Tail(spi.addrs)
  <2>3. spi.cmds = <<c.op>> BY <2>2 DEF Waits
  <2>4. op = c.op /\ q = <<>> BY <2>3
  <2>5. spi.addrs = IF c.at = None THEN <<>> ELSE <<[at |-> c.at, aligned |-> c.aligned]>>
    BY <2>2 DEF Waits
  <2>6. r = <<>> BY <2>5
  <2>7. a.at = c.at /\ a.aligned = c.aligned
    <3>1. CASE c.at = None
      <4>1. c.aligned = TRUE BY <1>2, <3>1 DEF HostCommands
      <4>2. a = [at |-> None, aligned |-> TRUE] BY <2>5, <3>1
      <4> HIDE DEF a
      <4> QED BY <3>1, <4>1, <4>2
    <3>2. CASE c.at # None
      <4>1. a = [at |-> c.at, aligned |-> c.aligned] BY <2>5, <3>2
      <4> HIDE DEF a
      <4> QED BY <4>1
    <3> QED BY <3>1, <3>2
  <2>8. rom' = [rom EXCEPT !.pc = "payload", !.cmd = Command(op, a.at, a.aligned, <<>>, FALSE)]
        /\ spi' = [spi EXCEPT !.cmds = q, !.addrs = r] /\ flash' = flash
    BY <1>7 DEF CmdPop
  <2> HIDE DEF op, a, q, r
  <2>9. rom'.pc = "payload" /\ rom'.state = rom.state
        /\ rom'.cmd = Command(c.op, c.at, c.aligned, <<>>, FALSE)
    BY <1>1, <2>4, <2>7, <2>8 DEF RomType
  <2>10. Command(c.op, c.at, c.aligned, <<>>, FALSE) = [c EXCEPT !.data = <<>>]
    <3>1. <<>> \in Payloads BY Sizes DEF Payloads
    <3>2. c.over = FALSE BY <1>2, <2>2 DEF HostCommands
    <3> QED BY <1>2, <3>1, <3>2, WithPayload
  <2>11. /\ spi'.on = spi.on /\ spi'.txn = spi.txn /\ spi'.seen = spi.seen
        /\ spi'.pending = spi.pending /\ spi'.staged = spi.staged
        /\ spi'.committed = spi.committed /\ spi'.sys = spi.sys
        /\ spi'.cmds = <<>> /\ spi'.addrs = <<>> /\ spi'.data = spi.data
        /\ ~spi'.intr /\ ~spi'.overflow
    BY <1>1, <2>2, <2>4, <2>6, <2>8 DEF SpiType
  <2>12. NoneWaits' /\ spi'.data = c.data /\ Known(view.mem)'
    BY <2>2, <2>8, <2>9, <2>11 DEF NoneWaits, Waits, Known
  <2>13. InRom(c)' BY <1>4, <2>2, <2>9, <2>10, <2>12 DEF InRom
  <2> QED BY <2>11, <2>13, FlightStays DEF c
<1>8. CASE CmdPayload
  <2>1. rom.pc = "payload" /\ rom' = [rom EXCEPT !.pc = "dispatch", !.cmd.data = spi.data]
        /\ spi' = spi /\ flash' = flash
    BY <1>8 DEF CmdPayload
  <2>2. /\ NoneWaits /\ spi.data = c.data /\ rom.cmd = [c EXCEPT !.data = <<>>]
        /\ Known(view.mem)
    BY <1>1, <2>1 DEF InRom
  <2>3. [rom.cmd EXCEPT !.data = c.data] = c BY <1>2, <2>2 DEF HostCommands
  <2>4. rom'.pc = "dispatch" /\ rom'.state = rom.state /\ rom'.cmd = [rom.cmd EXCEPT !.data = spi.data]
    BY <1>1, <2>1 DEF RomType
  <2>5. NoneWaits' /\ Known(view.mem)' BY <2>1, <2>2, <2>4 DEF NoneWaits, Known
  <2>6. InRom(c)' BY <1>4, <2>2, <2>3, <2>4, <2>5 DEF InRom
  <2> QED BY <2>1, <2>6, FlightStays DEF c
<1> QED BY <1>5, <1>6, <1>7, <1>8
LEMMA DispatchPhase ==
  ASSUME TypeInv, ToolInv, Flight, rom.pc = "dispatch",
         Ignore \/ Skip \/ FirstErase \/ StartJob \/ BadAddress,
         tool' = tool, view'.mem = view.mem
  PROVE  Flight' \/ Ended'
<1> DEFINE c == Current.cmd
<1>1. /\ rom \in RomType /\ spi \in SpiType /\ tool.pc = "poll" /\ InSession
      /\ ToolType /\ Place /\ InRom(c)
      /\ view.mem \in [Words -> Values] \cup {None}
  BY DEF TypeInv, ToolInv, ToolType, Flight, InSession
<1>2. Current' = Current BY DEF Current
<1>3. rom.cmd = c /\ NoneWaits /\ Known(view.mem) BY <1>1 DEF InRom
<1>4. spi.sys.wel = Current.wren BY DEF Flight, Busy
<1> HIDE DEF c
<1>5. c' = c BY <1>2 DEF c
<1>6. flash' = flash
  BY DEF Ignore, Skip, FirstErase, StartJob, BadAddress
<1>7. CASE Ignore
  <2>1. rom'.pc = "poll" /\ spi' = spi BY <1>1, <1>7 DEF Ignore, EndCommand, RomType
  <2>2. ~Current.wren BY <1>4, <1>7 DEF Ignore, MayIgnore, Wel
  <2>3. NoneWaits' BY <1>3, <2>1 DEF NoneWaits
  <2>4. InRom(c)' BY <1>2, <2>1, <2>2, <2>3 DEF InRom
  <2> QED BY <2>1, <2>4, FlightStays DEF c
<1>8. CASE Skip
  <2>1. rom'.pc = "poll" /\ rom'.state = rom.state /\ spi' = StatusCleared(spi)
    BY <1>1, <1>8 DEF Skip, EndCommand, RomType
  <2>2. \/ rom.state = "Erase" /\ c.op # "CHIP_ERASE"
        \/ rom.state = "Program" /\ c.op = "OTHER"
    BY <1>3, <1>8 DEF Skip
  <2>3. c.op # "CHIP_ERASE" /\ (view.mem = None \/ c.op \notin HasAddress)
    BY <1>3, <2>2 DEF Known, HasAddress
  <2>4. Believed(view.mem, c) = view.mem BY <2>3, BelievedSame
  <2>5. view.mem # None => rom'.state = "Program" /\ (~WeakErase => flash' = view.mem)
    BY <1>3, <1>6, <2>1 DEF Known
  <2>6. Ended' BY <1>3, <2>1, <2>4, <2>5, FlightEnds DEF c
  <2> QED BY <2>6
<1>9. CASE FirstErase
  <2>1. rom.state = "Erase" /\ rom' = WithJob(ChipErase) /\ spi' = spi
    BY <1>9 DEF FirstErase
  <2>2. rom'.pc = "work" /\ rom'.state = "Erase" /\ rom'.cmd = rom.cmd
    BY <1>1, <2>1 DEF WithJob, RomType
  <2>3. view.mem = None BY <1>3, <2>1 DEF Known
  <2>4. Doing' BY <2>2, <2>3 DEF Doing
  <2>5. NoneWaits' BY <1>3, <2>1 DEF NoneWaits
  <2>6. InRom(c)' BY <1>3, <1>5, <2>2, <2>4, <2>5 DEF InRom
  <2> QED BY <2>1, <2>6, FlightStays DEF c
<1>10. CASE StartJob
  <2>1. rom.state = "Program" /\ spi' = spi /\ \E t : rom' = WithJob(t) BY <1>10 DEF StartJob
  <2>2. rom'.pc = "work" /\ rom'.state = "Program" /\ rom'.cmd = rom.cmd
    BY <1>1, <2>1 DEF WithJob, RomType
  <2>3. Effect' = NorEffect(rom.cmd, flash)
    BY <1>6, <2>2 DEF Effect, NorEffect, ProgramEffect
  <2>4. view.mem # None /\ ~WeakErase => flash = view.mem BY <1>3 DEF Known
  <2>5. NorEffect(rom'.cmd, view'.mem) = NorEffect(rom.cmd, view.mem) BY <2>2
  <2>6. Doing'
    <3>1. view'.mem # None /\ ~WeakErase => Effect' = NorEffect(rom'.cmd, view'.mem)
      BY <2>3, <2>4, <2>5
    <3>2. NorEffect(rom.cmd, view.mem)' = NorEffect(rom'.cmd, view'.mem)
      BY DEF NorEffect, ProgramEffect
    <3>3. view'.mem # None /\ ~WeakErase => \A w \in Words : flash'[w] = view'.mem[w]
      BY <1>6, <2>4
    <3> QED BY <2>2, <3>1, <3>2, <3>3 DEF Doing
  <2>7. NoneWaits' BY <1>3, <2>1 DEF NoneWaits
  <2>8. InRom(c)' BY <1>3, <1>5, <2>2, <2>6, <2>7 DEF InRom
  <2> QED BY <2>1, <2>8, FlightStays DEF c
<1>11. CASE BadAddress
  <2>1. rom'.pc = "shutdown" /\ spi' = spi BY <1>1, <1>11 DEF BadAddress, RomType
  <2>2. InRom(c)' BY <2>1 DEF InRom
  <2> QED BY <2>1, <2>2, FlightStays DEF c
<1> QED BY <1>7, <1>8, <1>9, <1>10, <1>11

LEMMA WorkPhase ==
  ASSUME RefInv, RefInv', ToolInv, Flight, Transaction \/ FailedTransaction,
         tool' = tool, view'.mem = view.mem
  PROVE  Flight'
<1> DEFINE c == Current.cmd
           k == Head(rom.todo)
<1>1. /\ rom.pc = "work" /\ rom'.pc = "work" /\ rom'.state = rom.state /\ rom'.cmd = rom.cmd
      /\ Fits(k) /\ flash' \in [Words -> Values]
      /\ \A w \in Words : flash'[w] # flash[w] => w \in Span(k)
  BY TransactionDoes
<1>2. spi' = spi BY DEF Transaction, FailedTransaction
<1>3. NoneWaits /\ rom.cmd = c /\ Doing BY <1>1 DEF Flight, InRom
<1>4. Current' = Current BY DEF Current
<1> HIDE DEF c
<1>5. c' = c BY <1>4 DEF c
<1>6. rom \in RomType BY DEF RefInv, TypeInv
<1>7. NorEffect(rom.cmd, view.mem)' = NorEffect(rom.cmd, view.mem)
  BY <1>1 DEF NorEffect, ProgramEffect
<1>8. CASE FailedTransaction
  <2>1. rom'.failed BY <1>6, <1>8 DEF FailedTransaction, AfterError, RomType
  <2> QED BY <1>1, <1>2, <1>3, <1>5, <2>1, FlightStays DEF Doing, InRom, NoneWaits, c
<1>9. CASE Transaction
  <2>1. rom'.failed = rom.failed BY <1>6, <1>9 DEF Transaction, RomType
  <2>2. Effect = [w \in Target |-> Final(w)] BY <1>1, EffectIs DEF RefInv, PermInv
  <2>3. Effect' = Effect
    <3>1. Effect' = ([w \in Target |-> Final(w)])'
      BY <1>1, EffectIsNext DEF RefInv, PermInv
    <3>2. Target' = Target /\ \A w \in Target : Final(w)' = Final(w)
      BY <1>1, <1>9, SameCommand, TransactionWords
    <3> QED BY <2>2, <3>1, <3>2
  <2>4. DOMAIN Effect = Target BY <2>2
  <2>5. \A w \in Words \ DOMAIN Effect : flash'[w] = flash[w]
    BY <1>1, <2>4 DEF Fits
  <2>6. Doing' BY <1>1, <1>3, <1>7, <2>1, <2>3, <2>5 DEF Doing
  <2> QED BY <1>1, <1>2, <1>3, <1>5, <2>6, FlightStays DEF InRom, NoneWaits, c
<1> QED BY <1>8, <1>9

\* Flash after the calls of a command.
LEMMA WorkDone ==
  ASSUME RefInv, ToolInv, Flight, rom.pc = "work", rom.todo = <<>>, ~rom.failed, ~WeakErase,
         Believed(view.mem, Current.cmd) # None, rom.state = "Program"
  PROVE  flash = Believed(view.mem, Current.cmd)
<1> DEFINE c == Current.cmd
           m == view.mem
<1>1. rom.cmd = c /\ Doing BY DEF Flight, InRom
<1>2. Effect = [w \in Target |-> Final(w)] BY EffectIs DEF RefInv, PermInv
<1>3. \A w \in Target : flash[w] = Final(w)
  <2>1. Len(rom.todo) = 0 OBVIOUS
  <2> QED BY <2>1 DEF RefInv, JobInv, Finished, Waiting
<1>4. \A w \in DOMAIN Effect : flash[w] = Effect[w] BY <1>2, <1>3
<1>5. Effect = NorEffect(c, flash) BY <1>1 DEF Effect
<1>6. /\ flash \in [Words -> Values] /\ m \in [Words -> Values] \cup {None}
      /\ c \in HostCommands /\ c.op \in {"CHIP_ERASE", "SECTOR_ERASE", "PAGE_PROGRAM"}
  BY <1>1 DEF RefInv, TypeInv, PermInv, WorkMatches, RomType, ToolInv, ToolType
<1>7. CASE c.op = "CHIP_ERASE"
  <2>1. Effect = [w \in Words |-> Erased] /\ Believed(m, c) = [w \in Words |-> Erased]
    BY <1>5, <1>7, ErasesAll
  <2> QED BY <1>4, <1>6, <2>1
<1>8. CASE c.op \in HasAddress
  <2>1. c.op # "CHIP_ERASE" BY <1>8 DEF HasAddress
  <2>2. m # None BY <2>1, BelievedSame
  <2>3. Effect = NorEffect(c, m) /\ \A w \in Words \ DOMAIN Effect : flash[w] = m[w]
    BY <1>1, <2>2 DEF Doing
  <2>4. Believed(m, c) = [w \in Words |-> IF w \in DOMAIN NorEffect(c, m)
                                          THEN NorEffect(c, m)[w] ELSE m[w]]
    BY <1>6, <1>8, <2>2, BelievedKnown
  <2> HIDE DEF c, m
  <2>5. \A w \in Words : flash[w] = Believed(m, c)[w] BY <1>4, <2>3, <2>4
  <2> QED BY <1>6, <2>4, <2>5 DEF c, m
<1> QED BY <1>6, <1>7, <1>8 DEF HasAddress

LEMMA EndPhase ==
  ASSUME RefInv, ToolInv, Flight, EndJob \/ EraseVerify, tool' = tool, view'.mem = view.mem
  PROVE  Flight' \/ Ended'
<1> DEFINE c == Current.cmd
<1>1. /\ rom \in RomType /\ TypeInv /\ flash' = flash /\ rom.pc \in {"work", "verify"}
      /\ flash \in [Words -> Values]
  BY DEF RefInv, TypeInv, EndJob, EraseVerify
<1>2. NoneWaits /\ rom.cmd = c BY <1>1 DEF Flight, InRom
<1>3. Current' = Current BY DEF Current
<1> HIDE DEF c
<1>4. c' = c BY <1>3 DEF c
<1>5. CASE rom'.pc = "shutdown" /\ spi' = spi
  <2>1. InRom(c)' BY <1>5 DEF InRom
  <2> QED BY <1>5, <2>1, FlightStays DEF c
<1>6. CASE EndJob
  <2>1. rom.pc = "work" /\ rom.todo = <<>> /\ Doing BY <1>6 DEF EndJob, Flight, InRom
  <2>2. CASE rom.failed
    <3>1. rom'.pc = "shutdown" /\ spi' = spi BY <1>1, <1>6, <2>2 DEF EndJob, RomType
    <3> QED BY <1>5, <3>1
  <2>3. CASE ~rom.failed /\ rom.state = "Erase"
    <3>1. rom'.pc = "verify" /\ rom'.cmd = rom.cmd /\ spi' = spi
      BY <1>1, <1>6, <2>3 DEF EndJob, RomType
    <3>2. view.mem = None BY <2>1, <2>3 DEF Doing
    <3>3. NoneWaits' BY <1>2, <3>1 DEF NoneWaits
    <3>4. InRom(c)' BY <1>2, <1>4, <3>1, <3>2, <3>3 DEF InRom
    <3> QED BY <3>1, <3>4, FlightStays DEF c
  <2>4. CASE ~rom.failed /\ rom.state = "Program"
    <3>1. rom'.pc = "poll" /\ rom'.state = "Program" /\ spi' = StatusCleared(spi)
      BY <1>1, <1>6, <2>4 DEF EndJob, EndCommand, RomType
    <3>2. Believed(view.mem, Current.cmd) # None /\ ~WeakErase =>
            flash' = Believed(view.mem, Current.cmd)
      BY <1>1, <2>1, <2>4, WorkDone
    <3>3. Ended' BY <1>1, <1>2, <3>1, <3>2, FlightEnds
    <3> QED BY <3>3
  <2> QED BY <1>6, <2>2, <2>3, <2>4 DEF EndJob
<1>7. CASE EraseVerify
  <2>1. rom.pc = "verify" BY <1>7 DEF EraseVerify
  <2>2. view.mem = None BY <2>1 DEF Flight, InRom
  <2>3. CASE ~Verified
    <3>1. rom'.pc = "shutdown" /\ spi' = spi BY <1>1, <1>7, <2>3 DEF EraseVerify, RomType
    <3> QED BY <1>5, <3>1
  <2>4. CASE Verified
    <3>1. rom'.pc = "poll" /\ rom'.state = "Program" /\ spi' = StatusCleared(spi)
      BY <1>1, <1>7, <2>4 DEF EraseVerify, RomType
    <3>2. flash = [w \in Words |-> Erased] BY <1>1, <2>4 DEF Verified
    <3>3. Believed(view.mem, c) # None => Believed(view.mem, c) = [w \in Words |-> Erased]
      BY <2>2, ErasesAll, BelievedSame
    <3>4. Ended' BY <1>1, <1>2, <3>1, <3>2, <3>3, FlightEnds DEF c
    <3> QED BY <3>4
  <2> QED BY <2>3, <2>4
<1> QED BY <1>6, <1>7
LEMMA ChipPhase ==
  ASSUME RefInv, RefInv', ToolInv, Phase, ChipNext(RomNext \/ LatePop \/ AnyReset)
  PROVE  Phase'
<1> SUFFICES ASSUME view'.sure
             PROVE  Setup' \/ AtRest' \/ Enabling' \/ Enabled' \/ Sending' \/ Flight' \/ Ended'
                    \/ Ending'
  BY DEF Phase
<1>1. /\ tool' = tool /\ view'.mem = view.mem /\ view.sure /\ ~(InSession /\ rom' = IdleRom)
      /\ TypeInv
  BY ChipView DEF ToolInv, RefInv, TypeInv
<1>2. RomNext \/ AnyReset BY <1>1, NoLatePop DEF ChipNext
<1>3. CASE Ending BY <1>1, <1>2, <1>3, EndingPhase
<1>4. CASE ~Ending
  <2>1. InSession
    BY <1>1, <1>4 DEF Phase, InSession, Setup, AtRest, Enabling, Enabled, Sending, Flight, Ended
  <2>2. RomNext /\ rom' # IdleRom /\ ~ResetCommand /\ ~Shutdown
    BY <1>1, <1>2, <2>1 DEF AnyReset, ChipReset, ResetCommand, Shutdown
  <2>3. CASE Setup BY <1>1, <2>2, <2>3, SetupPhase
  <2>4. CASE AtRest \/ Enabling \/ Enabled \/ Sending \/ Ended
    <3>1. rom.pc = "poll" /\ ~spi.intr
      BY <2>4 DEF AtRest, Enabling, Enabled, Sending, Ended, Quiet, NoneWaits
    <3> QED BY <2>2, <3>1, RomWaits
  <2>5. CASE Flight
    <3>1. rom.pc \notin {"main", "bootstrap"} BY <2>5 DEF Flight, InRom
    <3>2. CASE CmdWait \/ CmdClear \/ CmdPop \/ CmdPayload
      BY <1>1, <2>5, <3>2, TakePhase
    <3>3. CASE Ignore \/ Skip \/ FirstErase \/ StartJob \/ BadAddress
      <4>1. rom.pc = "dispatch" BY <3>3 DEF Ignore, Skip, FirstErase, StartJob, BadAddress
      <4> QED BY <1>1, <2>5, <3>3, <4>1, DispatchPhase
    <3>4. CASE Transaction \/ FailedTransaction BY <1>1, <2>5, <3>4, WorkPhase
    <3>5. CASE EndJob \/ EraseVerify BY <1>1, <2>5, <3>5, EndPhase
    <3> QED BY <2>2, <3>1, <3>2, <3>3, <3>4, <3>5 DEF RomNext, RomMain, EnterBootstrap
  <2> QED BY <1>1, <1>4, <2>3, <2>4, <2>5 DEF Phase
<1> QED BY <1>3, <1>4

LEMMA StepKeepsPhase ==
  ASSUME RefInv, RefInv', ToolInv, ToolInv', Phase, [UpdateNext]_toolVars PROVE Phase'
<1>1. TypeInv BY DEF RefInv
<1>2. CASE ChipNext(RomNext \/ LatePop \/ AnyReset) BY <1>2, ChipPhase
<1>3. CASE ToolStart BY <1>3, StartPhase DEF Phase
<1>4. CASE ToolSkip \/ ToolShift \/ ToolUnstrap \/ ToolReset
  <2> SUFFICES ASSUME view'.sure PROVE Phase' BY DEF Phase
  <2>1. view.sure BY <1>4 DEF ToolSkip, ToolShift, ToolUnstrap, ToolReset
  <2> QED BY <1>1, <1>4, <2>1, SkipPhase, ShiftPhase, LeavePhase DEF Phase
<1>5. CASE ToolRelease
  <2> SUFFICES ASSUME view'.sure PROVE Phase' BY DEF Phase
  <2>1. view.sure BY <1>5 DEF ToolRelease, ToolInv, ToolType
  <2> QED BY <1>1, <1>5, <2>1, ReleasePhase DEF Phase
<1>6. CASE UNCHANGED toolVars
  <2> USE <1>6 DEF toolVars, vars
  <2>1. Current' = Current /\ view' = view /\ tool' = tool /\ spi' = spi /\ rom' = rom
        /\ flash' = flash /\ strap' = strap
    BY DEF Current
  <2>2. InRom(Current.cmd)' <=> InRom(Current.cmd)
    BY <2>1 DEF InRom, Waits, NoneWaits, Known, Doing, Effect, NorEffect, ProgramEffect
  <2>3. Known(Believed(view.mem, Current.cmd))' <=> Known(Believed(view.mem, Current.cmd))
    BY <2>1 DEF Known, Believed, NorEffect, ProgramEffect
  <2>4. (Quiet' <=> Quiet) /\ (Cleared' <=> Cleared) /\ (Known(view.mem)' <=> Known(view.mem))
        /\ Busy' = Busy
    BY <2>1 DEF Quiet, NoneWaits, Cleared, Known, Busy
  <2>5. (Setup' <=> Setup) /\ (Ending' <=> Ending)
    BY <2>1 DEF Setup, InSession, AtItem, Ending
  <2>6. (AtRest' <=> AtRest) /\ (Enabling' <=> Enabling) /\ (Enabled' <=> Enabled)
        /\ (Sending' <=> Sending)
    BY <2>1, <2>4 DEF AtRest, Enabling, Enabled, Sending
  <2>7. (Flight' <=> Flight) /\ (Ended' <=> Ended)
    BY <2>1, <2>2, <2>3, <2>4 DEF Flight, Ended
  <2> QED BY <2>1, <2>5, <2>6, <2>7 DEF Phase
<1> QED BY <1>2, <1>3, <1>4, <1>5, <1>6 DEF UpdateNext, ToolNext

-----------------------------------------------------------------------------
(* The invariant and what follows *)

UpdateInv == RefInv /\ ToolInv /\ Phase

LEMMA InitUpdate == UpdateInit => UpdateInv
<1> SUFFICES ASSUME UpdateInit PROVE UpdateInv OBVIOUS
<1>1. RefInv BY InitRefInv DEF UpdateInit
<1>2. spi.txn = None BY DEF UpdateInit, Init, ResetSpi
<1>3. /\ view.mem = None /\ ~view.sure /\ view \in ViewType
  BY DEF UpdateInit, ViewType
<1>4. \/ \E s \in Scripts : tool = [pc |-> "start", i |-> 1, script |-> s, image |-> None]
      \/ \E m \in Images : tool = [pc |-> "start", i |-> 1, script |-> Update(m), image |-> m]
  BY DEF UpdateInit
<1>5. tool.pc = "start" /\ tool.i = 1 BY <1>4
<1>6. ToolType
  <2>1. ASSUME NEW s, GoodScript(s), NEW m \in Images \cup {None}, m # None => s = Update(m),
               tool = [pc |-> "start", i |-> 1, script |-> s, image |-> m]
        PROVE  ToolType
    <3>1. s \in Seq(Items) BY <2>1 DEF GoodScript
    <3> QED BY <1>3, <2>1, <3>1 DEF ToolType, ViewType
  <2>2. \A s \in Scripts : GoodScript(s) BY ToolAssumption
  <2>3. \A m \in Images : GoodScript(Update(m)) BY UpdateIsGood
  <2>4. CASE \E s \in Scripts : tool = [pc |-> "start", i |-> 1, script |-> s, image |-> None]
    BY <2>1, <2>2, <2>4
  <2>5. CASE \E m \in Images : tool = [pc |-> "start", i |-> 1, script |-> Update(m), image |-> m]
    BY <2>1, <2>3, <2>5
  <2> QED BY <1>4, <2>4, <2>5
<1>7. Place BY <1>2, <1>3, <1>5 DEF Place, InSession
<1>8. Progress BY <1>5 DEF Progress
<1> QED BY <1>1, <1>3, <1>6, <1>7, <1>8 DEF UpdateInv, ToolInv, Phase

LEMMA UpdateInvHolds == UpdateSpec => []UpdateInv
<1>1. ASSUME UpdateInv, [UpdateNext]_toolVars PROVE UpdateInv'
  <2>1. RefInv' BY <1>1, ToolKeepsRefInv DEF UpdateInv, ToolInv
  <2>2. ToolInv' BY <1>1, StepKeepsTool DEF UpdateInv, RefInv, TypeInv
  <2>3. Phase' BY <1>1, <2>1, <2>2, StepKeepsPhase DEF UpdateInv
  <2> QED BY <2>1, <2>2, <2>3 DEF UpdateInv
<1> QED BY <1>1, InitUpdate, PTL DEF UpdateSpec

\* Where the tool is and how far it is with an image, and what is on its way
\* between the tool and the ROM in a session in which the chip is not reset.
THEOREM ToolInvariant == UpdateSpec => []IInv
BY UpdateInvHolds, PTL DEF UpdateInv, ToolInv, IInv

\* The ROM never executes another command than the one the tool waits for, and
\* write enable is still set when it looks at it: whatever images and scripts a
\* tool sends that polls after each command, in every interleaving of the tool,
\* the ROM and the late pops of the status FIFO, unless the chip is reset in the
\* session.
THEOREM InStepTheorem == UpdateSpec => []InStep
<1>1. UpdateInv => InStep
  <2> SUFFICES ASSUME UpdateInv, view.sure, rom.pc \in {"dispatch", "work", "verify"},
                      tool.pc = "poll"
               PROVE  /\ rom.cmd = Current.cmd
                      /\ rom.pc = "dispatch" /\ Current.wren => Wel
                      /\ spi.sys.wip
    BY DEF InStep
  <2>1. Flight
    <3>1. ~Ended /\ ~Setup /\ ~AtRest /\ ~Enabling /\ ~Enabled /\ ~Sending /\ ~Ending
      BY DEF Ended, Quiet, Setup, AtRest, Enabling, Enabled, Sending, Ending
    <3> QED BY <3>1 DEF UpdateInv, Phase
  <2>2. rom.cmd = Current.cmd BY <2>1 DEF Flight, InRom
  <2>3. spi.sys.wip /\ spi.sys.wel = Current.wren BY <2>1 DEF Flight, Busy
  <2> QED BY <2>2, <2>3 DEF Wel
<1> QED BY <1>1, UpdateInvHolds, PTL

\* Flash when the tool does not wait for a command.
LEMMA AfterTheCall ==
  ASSUME UpdateInv, view.sure, view.mem # None, tool.pc # "poll", ~WeakErase
  PROVE  flash = view.mem
<1>1. ToolType /\ Place BY DEF UpdateInv, ToolInv
<1>2. ~Setup
  <2>1. tool = AtItem(1) => tool.i = 1 BY <1>1 DEF AtItem, ToolType
  <2> QED BY <1>1, <2>1 DEF Setup, Place
<1>3. ~Flight /\ ~Ended BY DEF Flight, Ended
<1>4. CASE AtRest \/ Enabling \/ Enabled \/ Sending
  BY <1>4 DEF AtRest, Enabling, Enabled, Sending, Known
<1>5. CASE Ending BY <1>5 DEF Ending
<1> QED BY <1>2, <1>3, <1>4, <1>5 DEF UpdateInv, Phase

\* What the tool was told is done is done: while it waits for no command, flash
\* is what the commands it saw end make of it, although a poll reads the status
\* that was committed, software's clearing of it waits in a FIFO, and an error
\* of flash is known to the ROM alone; where an erase does what it reports and
\* the chip is not reset in the session.
THEOREM DoneIsDoneTheorem == UpdateSpec => [](~WeakErase => DoneIsDone)
<1>1. UpdateInv => (~WeakErase => DoneIsDone)
  BY AfterTheCall DEF DoneIsDone
<1> QED BY <1>1, UpdateInvHolds, PTL

\* When the tool is done with an update, every word of the image is in flash and
\* the rest of flash is erased, for every image, however its last page, its
\* skipped pages and the pages of flash fall together; where an erase does what
\* it reports and the chip is not reset in the session.
THEOREM ImageWrittenTheorem == UpdateSpec => [](~WeakErase => ImageWritten)
<1>1. UpdateInv => (~WeakErase => ImageWritten)
  <2> SUFFICES ASSUME UpdateInv, ~WeakErase, tool.pc = "done", view.sure, tool.image # None,
                      NEW w \in Words
               PROVE  flash[w] = IF w < Len(tool.image) THEN tool.image[w + 1] ELSE Erased
    BY DEF ImageWritten
  <2> DEFINE P == WordsPerProgPage
             L == Len(tool.image)
             K == ChunkCount(tool.image)
  <2>1. ToolType /\ Place /\ Progress BY DEF UpdateInv, ToolInv
  <2>2. tool.image \in Images /\ tool.script = Update(tool.image) BY <2>1 DEF ToolType
  <2>3. tool.image \in Seq(ProgramWords) BY <2>2, UpdateIsGood
  <2>4. K \in Nat /\ L \in Nat /\ L <= K * P /\ (\A k \in Nat : k >= K => L <= k * P)
    BY <2>3, ChunkCounts
  <2>5. Len(tool.script) = K + 2 BY <2>2, <2>3, UpdateIs
  <2> HIDE DEF K, L
  <2>6. tool.i = K + 3 BY <2>1, <2>4, <2>5 DEF Place
  <2>7. view.mem = WrittenBefore(tool.i) BY <2>1, <2>4, <2>6 DEF Progress
  <2>8. flash = view.mem
    <3>1. view.mem # None BY <2>1, <2>4, <2>6, <2>7, WrittenType
    <3> QED BY <3>1, AfterTheCall
  <2>9. L <= (tool.i - 2) * P
    <3>1. tool.i - 2 \in Nat /\ tool.i - 2 >= K BY <2>4, <2>6
    <3> QED BY <2>4, <3>1
  <2>10. w < L => w < (tool.i - 2) * P
    <3>1. w \in Nat
      <4>1. MaxAddress \in Nat BY Sizes
      <4> QED BY <4>1 DEF Words
    <3>2. P \in Nat /\ tool.i - 2 \in Nat BY <2>4, <2>6, Sizes
    <3>3. (tool.i - 2) * P \in Nat BY <3>2
    <3> HIDE DEF P
    <3> QED BY <2>4, <2>9, <3>1, <3>3
  <2> QED BY <2>7, <2>8, <2>10 DEF WrittenBefore, L
<1> QED BY <1>1, UpdateInvHolds, PTL

\* Bootstrap is the flash memory of BootstrapSpec for this tool too, although the
\* tool resets the chip and moves the strap when it likes: the steps of the ROM
\* are those of Bootstrap, a reset fails the command under way, and the tool
\* itself touches neither flash nor what the ROM makes of it.
THEOREM ToolRefinement == UpdateSpec => NorFlash
<1>1. ASSUME UpdateInv, UpdateInv', [UpdateNext]_toolVars PROVE [B!Next]_(B!vars)
  <2>1. RefInv /\ RefInv' BY <1>1 DEF UpdateInv
  <2>2. CASE ChipNext(RomNext \/ LatePop \/ AnyReset)
    <3>1. [Next]_vars BY <2>2 DEF ChipNext, Next, AnyNext
    <3> QED BY <2>1, <3>1, StepRefines
  <2>3. CASE ToolStart \/ ToolReset
    <3>1. ChipReset BY <2>3 DEF ToolStart, ToolReset
    <3> QED BY <2>1, <3>1, ResetRefines DEF B!Next
  <2>4. CASE ToolSkip \/ ToolShift \/ ToolRelease \/ ToolUnstrap \/ UNCHANGED toolVars
    <3>1. rom' = rom /\ flash' = flash
      BY <2>4 DEF ToolSkip, ToolShift, ToolRelease, ToolUnstrap, toolVars, vars
    <3> QED BY <3>1, SameStutters
  <2> QED BY <1>1, <2>2, <2>3, <2>4 DEF UpdateNext, ToolNext
<1>2. UpdateInit => B!Init BY InitRefines DEF UpdateInit
<1> QED BY <1>1, <1>2, UpdateInvHolds, PTL DEF NorFlash, B!Spec, UpdateSpec
=============================================================================
