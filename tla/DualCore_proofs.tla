-------------------------- MODULE DualCore_proofs --------------------------
(***************************************************************************)
(* Proofs about DualCore, for every set of registers and words, boot       *)
(* section, and values of the mstatus bits.                                *)
(***************************************************************************)
EXTENDS DualCore, TLAPS

\* While the comparator had its chance, damage is confined to registers.
Confined ==
  ~blind => ~Exposed /\ main.pc = ref.pc /\ main.id = ref.id

\* What holds between cycles.
Inv ==
  /\ TypeOK
  /\ mismatch \in Settled
  /\ status.pulse => main.id.op # "csrw"
  /\ Confined

-----------------------------------------------------------------------------
(* Cores *)

\* An instruction has the operands that its kind uses.
LEMMA Operands ==
  ASSUME NEW i \in Instrs
  PROVE  /\ i.op = "set" => i.rd \in Regs /\ i.word \in Words
         /\ i.op = "move" => i.rd \in Regs /\ i.rs \in Regs
         /\ i.op = "jump" => i.rd \in Regs /\ i.rs \in Regs
         /\ i.op = "store" => i.rs \in Regs
         /\ i.op = "csrw" => i.rs \in Regs
BY DEF Instrs

\* A core fetches at an address and leaves words in its registers.
LEMMA CoreTypes ==
  ASSUME NEW c \in Core
  PROVE  /\ Outputs(c).addr \in Words
         /\ Written(c) \in [Regs -> Words]
<1>1. /\ c.pc \in Words /\ c.id \in Instrs /\ c.regs \in [Regs -> Words]
  BY DEF Core
<1>2. \A w \in Words : Succ[w] \in Words
  BY DualCoreAssumption
<1>3. Outputs(c).addr \in Words
  BY <1>1, <1>2, Operands DEF Outputs
<1>4. Written(c) \in [Regs -> Words]
  BY <1>1, <1>2, Operands DEF Written
<1> QED
  BY <1>3, <1>4

\* A clock edge makes a core of a core.
LEMMA ClockedType ==
  ASSUME NEW c \in Core, NEW i \in Instrs, NEW regs \in [Regs -> Words]
  PROVE  Clocked(c, i, regs) \in Core
<1>1. Bubble \in Instrs
  BY DEF Bubble, Instrs
<1>2. Outputs(c).addr \in Words
  BY CoreTypes
<1> QED
  BY <1>1, <1>2 DEF Clocked, Core

\* A core's fields determine it.
LEMMA CoreFields ==
  ASSUME NEW c \in Core, NEW d \in Core, c.pc = d.pc, c.id = d.id, c.regs = d.regs
  PROVE  c = d
BY DEF Core

-----------------------------------------------------------------------------
(* The comparator *)

\* If nothing is compared the main core has the bus.
LEMMA NotCompared ==
  ASSUME mismatch \in Settled, ~status.comp \/ Outputs(shadow) = Outputs(main)
  PROVE  mismatch = FALSE
<1>1. \A m \in BOOLEAN : Compared(Bus(m).addr) = FALSE
  BY DEF Compared
<1>2. {m \in BOOLEAN : m = Compared(Bus(m).addr)} = {FALSE}
  BY <1>1
<1> QED
  BY <1>2 DEF Settled

\* If both cores fetch in the boot section the comparison settles.
LEMMA Compares ==
  ASSUME mismatch \in Settled, status.comp = TRUE,
         Outputs(main).addr \in Window, Outputs(shadow).addr \in Window
  PROVE  mismatch = (Outputs(shadow) # Outputs(main))
<1>1. \A m \in BOOLEAN : Bus(m).addr \in Window
  BY DEF Bus
<1>2. \A m \in BOOLEAN : Compared(Bus(m).addr) = (Outputs(shadow) # Outputs(main))
  BY <1>1 DEF Compared
<1>3. {m \in BOOLEAN : m = Compared(Bus(m).addr)} = {Outputs(shadow) # Outputs(main)}
  BY <1>2
<1> QED
  BY <1>3 DEF Settled

\* Registers that decide where the main core goes on are undamaged.
LEMMA SameAddress ==
  ASSUME Inv, ~blind
  PROVE  Outputs(main).addr = Outputs(ref).addr
<1>1. main.pc = ref.pc /\ main.id = ref.id /\ ~Exposed
  BY DEF Inv, Confined
<1>2. main.id.op = "jump" => main.regs[main.id.rs] = ref.regs[main.id.rs]
  BY <1>1 DEF Exposed
<1> QED
  BY <1>1, <1>2 DEF Outputs

\* A damaged main core is compared with an undamaged shadow core.
LEMMA Guarded ==
  ASSUME Inv, ~blind, main # ref
  PROVE  /\ shadow = ref
         /\ status.comp = TRUE
         /\ mismatch = (Outputs(shadow) # Outputs(main))
<1>1. /\ status.comp = TRUE /\ Outputs(ref).addr \in Window
      /\ shadow = ref
  BY DEF Inv, Confined, Exposed, TypeOK
<1>2. Outputs(main).addr = Outputs(ref).addr
  BY SameAddress
<1>3. mismatch \in Settled
  BY DEF Inv
<1> QED
  BY <1>1, <1>2, <1>3, Compares

-----------------------------------------------------------------------------
(* The invariant *)

\* At reset the cores agree.
LEMMA InitInv == Init => Inv
<1> SUFFICES ASSUME Init PROVE Inv
  OBVIOUS
<1>1. main \in Core
  BY DualCoreAssumption DEF Init, Core, Bubble, Instrs
<1>2. shadow = main /\ ref = main /\ mismatch = FALSE /\ status.comp = FALSE /\ blind = FALSE
  BY DEF Init
<1>3. TypeOK
  BY <1>1, <1>2 DEF Init, TypeOK
<1>4. mismatch \in Settled
  <2>1. \A m \in BOOLEAN : Compared(Bus(m).addr) = FALSE
    BY <1>2 DEF Compared
  <2>2. {m \in BOOLEAN : m = Compared(Bus(m).addr)} = {FALSE}
    BY <2>1
  <2> QED
    BY <1>2, <2>2 DEF Settled
<1>5. main.id.op = "bubble"
  BY DEF Init, Bubble
<1>6. Confined
  BY <1>2, <1>5 DEF Confined, Exposed
<1> QED
  BY <1>3, <1>4, <1>5, <1>6 DEF Inv

\* A cycle keeps the types.
LEMMA CycleType ==
  ASSUME Inv, NEW i \in Instrs, Cycle(i)
  PROVE  TypeOK'
<1>1. main \in Core /\ shadow \in Core /\ ref \in Core
  BY DEF Inv, TypeOK
<1>2. AfterRegs \in [Regs -> Words]
  <2>1. CASE ctc.active
    BY <2>1, <1>1, DualCoreAssumption DEF AfterRegs, Core
  <2>2. CASE ~ctc.active /\ mismatch
    BY <2>2, <1>1 DEF AfterRegs, Core
  <2>3. CASE ~ctc.active /\ ~mismatch
    BY <2>3, <1>1, CoreTypes DEF AfterRegs
  <2> QED
    BY <2>1, <2>2, <2>3
<1>3. main' \in Core
  BY <1>1, <1>2, ClockedType DEF Cycle
<1>4. shadow' \in Core /\ ref' \in Core
  BY <1>1, CoreTypes, ClockedType DEF Cycle
<1>5. /\ status' \in [comp : BOOLEAN, ctc : BOOLEAN, pulse : BOOLEAN]
      /\ status'.ctc => status'.pulse
  <2>1. /\ status \in [comp : BOOLEAN, ctc : BOOLEAN, pulse : BOOLEAN]
        /\ status.ctc => status.pulse
    BY DEF Inv, TypeOK
  <2>2. ASSUME NEW word
        PROVE  LET s == AfterStatus(TRUE, word)
               IN  /\ s \in [comp : BOOLEAN, ctc : BOOLEAN, pulse : BOOLEAN]
                   /\ s.ctc => s.pulse
    BY <2>1 DEF AfterStatus
  <2>3. ASSUME NEW word
        PROVE  LET s == AfterStatus(FALSE, word)
               IN  /\ s \in [comp : BOOLEAN, ctc : BOOLEAN, pulse : BOOLEAN]
                   /\ s.ctc => s.pulse
    BY <2>1 DEF AfterStatus
  <2> QED
    BY <2>2, <2>3 DEF Cycle
<1>6. ctc' \in [last : BOOLEAN, active : BOOLEAN]
  BY DEF Inv, TypeOK, Cycle, AfterCtc
<1>7. mismatch' \in BOOLEAN
  BY DEF Cycle, Settled
<1>8. blind' \in BOOLEAN
  BY DEF Inv, TypeOK, Cycle
<1> QED
  BY <1>3, <1>4, <1>5, <1>6, <1>7, <1>8 DEF TypeOK

\* A cycle keeps the invariant.
LEMMA CycleInv ==
  ASSUME Inv, NEW i \in Instrs, Cycle(i)
  PROVE  Inv'
<1>1. TypeOK'
  BY CycleType
<1>2. mismatch' \in Settled'
  BY DEF Cycle
<1>3. status'.pulse => main'.id.op # "csrw"
  <2>1. CASE main.id.op = "csrw"
    BY <2>1 DEF Cycle, Clocked, Bubble
  <2>2. CASE main.id.op # "csrw"
    BY <2>2 DEF Cycle, AfterStatus, Inv, TypeOK
  <2> QED
    BY <2>1, <2>2
<1>4. Confined'
  <2> SUFFICES ASSUME ~blind' PROVE ~Exposed' /\ main'.pc = ref'.pc /\ main'.id = ref'.id
    BY DEF Confined
  <2>1. ~blind /\ ~Exposed'
    BY DEF Cycle
  <2>2. Outputs(main).addr = Outputs(ref).addr /\ main.id = ref.id
    BY <2>1, SameAddress DEF Inv, Confined
  <2> QED
    BY <2>1, <2>2 DEF Cycle, Clocked
<1> QED
  BY <1>1, <1>2, <1>3, <1>4 DEF Inv

\* A step that changes nothing keeps the invariant.
LEMMA StutterInv == Inv /\ UNCHANGED vars => Inv'
BY DEF Inv, TypeOK, Confined, Exposed, Settled, Compared, Bus, Outputs, vars

\* The invariant holds in every cycle.
THEOREM Invariant == Spec => []Inv
<1>1. Inv /\ [Next]_vars => Inv'
  BY CycleInv, StutterInv DEF Next
<1> QED
  BY <1>1, InitInv, PTL DEF Spec

\* The types of the two cores, the reference and the flops, and that the CTC
\* bit is only set in the cycle before ibex_csr clears it.
THEOREM TypeCorrect == Spec => []TypeOK
<1>1. Inv => TypeOK
  BY DEF Inv
<1> QED
  BY <1>1, Invariant, PTL

-----------------------------------------------------------------------------
(* The properties *)

\* The multiplexer of the outputs hides damage to the main core's registers,
\* for every program and boot section.
THEOREM DamageIsMasked == Spec => []Masked
<1>1. Inv => Masked
  <2> SUFFICES ASSUME Inv, ~blind PROVE Bus(mismatch) = Outputs(ref)
    BY DEF Masked
  <2>1. CASE main # ref
    BY <2>1, Guarded DEF Bus
  <2>2. CASE main = ref /\ status.comp
    <3>1. shadow = ref
      BY <2>2 DEF Inv, Confined, Exposed
    <3> QED
      BY <2>2, <3>1 DEF Bus
  <2>3. CASE main = ref /\ ~status.comp
    <3>1. mismatch = FALSE
      BY <2>3, NotCompared DEF Inv
    <3> QED
      BY <2>3, <3>1 DEF Bus
  <2> QED
    BY <2>1, <2>2, <2>3
<1> QED
  BY <1>1, Invariant, PTL

\* The roll back of ibex_register_file_ff leaves the main core undamaged.
THEOREM DamageIsRepaired == Spec => Repaired
<1>1. ASSUME Inv, NEW i \in Instrs, Cycle(i), mismatch, ~blind, ~ctc.active
      PROVE  main' = ref'
  <2>1. main # ref
    <3>1. CASE status.comp /\ main = ref
      <4>1. shadow = ref
        BY <1>1, <3>1 DEF Inv, Confined, Exposed
      <4> QED
        BY <1>1, <3>1, <4>1, NotCompared DEF Inv
    <3>2. CASE ~status.comp
      BY <1>1, <3>2, NotCompared DEF Inv
    <3> QED
      BY <3>1, <3>2
  <2>2. shadow = ref /\ Outputs(ref) # Outputs(main)
    BY <1>1, <2>1, Guarded
  <2>3. /\ Outputs(main).addr = Outputs(ref).addr
        /\ main.id = ref.id
    BY <1>1, SameAddress DEF Inv, Confined
  <2>4. ref.id.op = "store"
    <3>1. Outputs(ref).data # Outputs(main).data
      BY <2>2, <2>3 DEF Outputs
    <3> QED
      BY <2>3, <3>1 DEF Outputs
  <2>5. Written(ref) = ref.regs
    BY <2>4 DEF Written
  <2>6. AfterRegs = ref.regs
    BY <1>1, <2>2 DEF AfterRegs
  <2> QED
    BY <1>1, <2>3, <2>5, <2>6 DEF Cycle, Clocked
<1>2. Inv /\ [Next]_vars => [mismatch /\ ~blind /\ ~ctc.active => main' = ref']_vars
  BY <1>1 DEF Next
<1> QED
  BY <1>2, Invariant, PTL DEF Spec, Repaired

\* No CTC command is lost in ibex_csr or in the edge detector of the register
\* file.
THEOREM CommandsFlip == Spec => EachCommandFlips
<1>1. ASSUME Inv, NEW i \in Instrs, Cycle(i),
             main.id.op = "csrw", main.regs[main.id.rs] \in Ctc
      PROVE  status'.ctc /\ ~ctc'.last
  <2>1. ~status.pulse /\ ~status.ctc
    BY <1>1 DEF Inv, TypeOK
  <2> QED
    BY <1>1, <2>1 DEF Cycle, AfterStatus, AfterCtc
<1>2. Inv /\ [Next]_vars =>
        [main.id.op = "csrw" /\ main.regs[main.id.rs] \in Ctc
           => status'.ctc /\ ~ctc'.last]_vars
  BY <1>1 DEF Next
<1> QED
  BY <1>2, Invariant, PTL DEF Spec, EachCommandFlips
=============================================================================
