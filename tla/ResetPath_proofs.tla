-------------------------- MODULE ResetPath_proofs --------------------------
(***************************************************************************)
(* Theorems about ResetPath for all thresholds, sizes of the counter and   *)
(* sets of chips.                                                          *)
(***************************************************************************)
EXTENDS ResetPathInv, TLAPS

\* Counts and thresholds are words.
LEMMA Words ==
  /\ 0 \in Word
  /\ 1 \in Word
  /\ \A n \in Word : Counted(n) \in Word
  /\ \A t \in Word : Bark(t) \in Word
<1>1. /\ 0 \in Word /\ 1 \in Word
  BY SizeAssumption DEF Word
<1>2. \A n \in Word : Counted(n) \in Word
  BY SizeAssumption DEF Word, Counted
<1>3. ASSUME NEW t \in Word PROVE Bark(t) \in Word
  <2>1. (9 * t) % Size \in 0 .. Size - 1
    BY SizeAssumption DEF Word
  <2>2. \A x \in 0 .. Size - 1 : x \div 8 \in 0 .. Size - 1
    BY SizeAssumption
  <2> QED BY <2>1, <2>2 DEF Bark, Word
<1> QED BY <1>1, <1>2, <1>3

\* The bark follows the bite unless 9/8 of it overflows (watchdog.c, 66).
LEMMA BarkFollows ==
  \A t \in Word : 9 * t < Size => Bark(t) >= t
<1>1. SUFFICES ASSUME NEW t \in Word, 9 * t < Size PROVE Bark(t) >= t
  OBVIOUS
<1>2. (9 * t) % Size = 9 * t
  BY <1>1, SizeAssumption DEF Word
<1>3. (9 * t) \div 8 >= t
  BY <1>1, SizeAssumption DEF Word
<1> QED BY <1>2, <1>3 DEF Bark

\* The configuration, instruction by instruction.
LEMMA Program ==
  /\ pc \in {1, 6} => Instr = Enable
  /\ pc \in {2, 7, 16} => Instr = Sync
  /\ pc = 3 => Instr = Write("bark", AsmBark)
  /\ pc = 4 => Instr = Write("bite", AsmBite)
  /\ pc = 5 => Instr = Write("ctrl", 1)
  /\ pc = 8 => Instr = Write("ctrl", 0)
  /\ pc = 9 => Instr = Read("ctrl")
  /\ pc = 10 => Instr = Write("count", 0)
  /\ pc = 11 => Instr = Write("bark", Bark(chip.threshold))
  /\ pc = 12 => Instr = Write("bite", chip.threshold)
  /\ pc = 13 => Instr = Read("bite")
  /\ pc = 14 => Instr = Write("ctrl", EnableBit)
  /\ pc = 15 => Instr = Read("ctrl")
BY DEF Instr, RomStart, Configure, StartEnd

\* Where the configuration is, by what it executes.
LEMMA Position ==
  ASSUME pc \in 1 .. End
  PROVE  /\ Instr.op = "enable" => pc \in {1, 6}
         /\ Instr.op = "sync" => pc \in {2, 7, 16}
         /\ Instr.op = "read" => \/ pc \in {9, 15} /\ Instr.reg = "ctrl"
                                 \/ pc = 13 /\ Instr.reg = "bite"
         /\ Instr.op = "write" =>
              \/ pc = 3 /\ Instr.reg = "bark" /\ Instr.val = AsmBark
              \/ pc = 4 /\ Instr.reg = "bite" /\ Instr.val = AsmBite
              \/ pc = 5 /\ Instr.reg = "ctrl" /\ Instr.val = 1
              \/ pc = 8 /\ Instr.reg = "ctrl" /\ Instr.val = 0
              \/ pc = 10 /\ Instr.reg = "count" /\ Instr.val = 0
              \/ pc = 11 /\ Instr.reg = "bark" /\ Instr.val = Bark(chip.threshold)
              \/ pc = 12 /\ Instr.reg = "bite" /\ Instr.val = chip.threshold
              \/ pc = 14 /\ Instr.reg = "ctrl" /\ Instr.val = EnableBit
<1>1. pc \in {1, 2, 3, 4, 5, 6, 7, 8, 9, 10, 11, 12, 13, 14, 15, 16}
  BY DEF End
<1> QED BY <1>1, Program DEF Enable, Sync, Write, Read, I

\* A chip has a threshold that fits the counter.
LEMMA ChipTypes ==
  ASSUME chip \in Chips
  PROVE  /\ chip.threshold \in Word
         /\ chip.signals \in 0 .. 4
         /\ EnableBit \in {0, 1}
<1>1. chip \in ChipType
  BY ResetPathAssumption
<1> QED BY <1>1 DEF ChipType, EnableBit

\* The type invariant in parts, for steps that leave most of it alone.
SoftwareTypes ==
  /\ chip \in Chips
  /\ mode \in {"config", "alerts", "run", "poll", "bootstrap"} \cup ShuttingDown
  /\ pc \in 1 .. End + 1
  /\ mode = "config" => pc <= End
  /\ mode \in {"alerts", "run", "poll", "bootstrap"} => pc = End + 1
  /\ stage \in {"rom", "flash"}
  /\ nmi \in BOOLEAN
  /\ flashOff \in BOOLEAN

AlertTypes ==
  /\ classes \in BOOLEAN
  /\ phase \in 0 .. 4
  /\ halted \in BOOLEAN
  /\ request \in SUBSET {"esc", "sw"}

SyncTypes ==
  /\ resetEn \in BOOLEAN
  /\ toggle \in BOOLEAN
  /\ sync \in BOOLEAN \X BOOLEAN \X BOOLEAN
  /\ slowEn \in BOOLEAN

PowerTypes ==
  /\ reqs \in (SUBSET Causes) \X (SUBSET Causes)
  /\ fsm \in {"active", "stopping", "reset", "init"}
  /\ edges \in 0 .. InitEdges
  /\ info \in SUBSET Causes

LEMMA TypeParts ==
  TypeOK <=> TimerTypeOK /\ SoftwareTypes /\ AlertTypes /\ SyncTypes /\ PowerTypes
BY Zenon DEF TypeOK, SoftwareTypes, AlertTypes, SyncTypes, PowerTypes

\* A step changes no type but those of timer and power manager.
LEMMA SoftwareStays ==
  ASSUME TypeOK, UNCHANGED <<chip, cpuVars, flashOff, alertVars, request>>
  PROVE  SoftwareTypes' /\ AlertTypes'
<1>1. SoftwareTypes /\ AlertTypes
  BY TypeParts
<1>2. /\ chip' = chip /\ mode' = mode /\ pc' = pc /\ stage' = stage /\ nmi' = nmi
      /\ flashOff' = flashOff
  BY DEF cpuVars
<1>3. classes' = classes /\ phase' = phase /\ halted' = halted /\ request' = request
  BY DEF alertVars
<1>4. SoftwareTypes'
  BY <1>1, <1>2, Zenon DEF SoftwareTypes
<1>5. AlertTypes'
  BY <1>1, <1>3, Zenon DEF AlertTypes
<1> QED BY <1>4, <1>5

LEMMA SyncStays ==
  ASSUME TypeOK, UNCHANGED syncVars
  PROVE  SyncTypes'
<1>1. SyncTypes
  BY TypeParts
<1>2. resetEn' = resetEn /\ toggle' = toggle /\ sync' = sync /\ slowEn' = slowEn
  BY DEF syncVars
<1> QED BY <1>1, <1>2, Zenon DEF SyncTypes

-----------------------------------------------------------------------------
(* The initial states *)

LEMMA InitIInv == Init => IInv
<1> SUFFICES ASSUME Init PROVE IInv
  OBVIOUS
<1>1. TypeOK
  <2>1. reg \in [Regs -> Word] /\ new \in [Regs -> Word] /\ age \in [Regs -> 0 .. HeldUntil]
    BY Words DEF Init, TimerReset, HeldUntil
  <2>2. reg["ctrl"] = 0 /\ new["ctrl"] = 0 /\ \A r \in Regs : age[r] <= LandsAt
    BY DEF Init, TimerReset, Regs, LandsAt
  <2>3. esc \in BOOLEAN \X BOOLEAN /\ sync \in BOOLEAN \X BOOLEAN \X BOOLEAN
    BY DEF Init, TimerReset
  <2>4. reqs \in (SUBSET Causes) \X (SUBSET Causes)
    BY DEF Init
  <2>5. edges \in 0 .. InitEdges
    BY ResetPathAssumption DEF Init
  <2>6. TimerTypeOK
    BY <2>1, <2>2, <2>3 DEF Init, TimerReset, TimerTypeOK
  <2>7. /\ chip \in Chips /\ mode = "config" /\ pc = 1 /\ stage = "rom" /\ phase = 0
        /\ fsm = "init" /\ request = {} /\ info = {}
        /\ nmi = FALSE /\ flashOff = FALSE /\ classes = FALSE /\ halted = FALSE
        /\ resetEn = FALSE /\ toggle = FALSE /\ slowEn = FALSE
    BY DEF Init
  <2>8. pc \in 1 .. End + 1 /\ pc <= End /\ phase \in 0 .. 4
    BY <2>7 DEF End
  <2>9. request \in SUBSET {"esc", "sw"} /\ info \in SUBSET Causes
    BY <2>7
  <2> QED BY <2>3, <2>4, <2>5, <2>6, <2>7, <2>8, <2>9, Zenon DEF TypeOK
<1>2. Still /\ StartTimer /\ ConfigTimer
  BY DEF Init, TimerReset, Still, StartTimer, ConfigTimer, Free, Holds, Regs
<1>3. Ended /\ Requests /\ Overtaken /\ EnableSet
  BY DEF Init, TimerReset, Ended, Requests, Overtaken, EnableSet
<1>4. NotYet /\ BarkBehind
  BY DEF Init, TimerReset, NotYet, BarkBehind, End
<1> QED BY <1>1, <1>2, <1>3, <1>4 DEF IInv

-----------------------------------------------------------------------------
(* The configuration *)

\* Steps that leave timer and configuration alone.
LEMMA TimerAlone ==
  ASSUME StartTimer, ConfigTimer, BarkBehind, UNCHANGED <<timerVars, chip, pc>>
  PROVE  StartTimer' /\ ConfigTimer' /\ BarkBehind'
BY DEF StartTimer, ConfigTimer, BarkBehind, timerVars, Holds, Before, Free, Bark

\* A write starts on its way.
LEMMA WriteTimer ==
  ASSUME IInv, WriteReg
  PROVE  TimerTypeOK' /\ StartTimer' /\ ConfigTimer' /\ BarkBehind'
<1> DEFINE r == Instr.reg
           v == Instr.val
<1>1. /\ mode = "config" /\ pc \in 1 .. End /\ pc' = pc + 1 /\ chip' = chip
      /\ Instr.op = "write" /\ TimerTypeOK /\ chip \in Chips
  BY DEF WriteReg, Advance, IInv, TypeOK
<1>2. /\ age[r] = 0 /\ age' = [age EXCEPT ![r] = 1] /\ new' = [new EXCEPT ![r] = v]
      /\ reg' = reg /\ intr' = intr /\ bitten' = bitten /\ esc' = esc
  BY DEF WriteReg, Put, Free
<1>3. r \in Regs /\ v \in Word /\ (r = "ctrl" => v \in {0, 1})
  BY <1>1, Position, Words, ChipTypes, ResetPathAssumption DEF Regs
<1>4. /\ age \in [Regs -> 0 .. HeldUntil] /\ new \in [Regs -> Word] /\ reg \in [Regs -> Word]
  BY <1>1 DEF TimerTypeOK
<1>5. /\ age'[r] = 1 /\ new'[r] = v
      /\ \A s \in Regs \ {r} : age'[s] = age[s] /\ new'[s] = new[s]
  BY <1>2, <1>3, <1>4
<1>6. TimerTypeOK'
  BY <1>1, <1>2, <1>3, <1>4, <1>5 DEF TimerTypeOK, HeldUntil, LandsAt, Regs
<1>7. StartTimer'
  BY <1>1, <1>2, <1>3, <1>4, <1>5, Position DEF IInv, StartTimer, ConfigTimer, Holds, Before, Free, Regs, End, HeldUntil
<1>8. ConfigTimer'
  BY <1>1, <1>2, <1>3, <1>4, <1>5, Position DEF IInv, StartTimer, ConfigTimer, Holds, Before, Free, Regs, End, HeldUntil, LandsAt, Bark
<1>9. BarkBehind'
  BY <1>1, <1>2 DEF IInv, BarkBehind
<1> QED BY <1>6, <1>7, <1>8, <1>9
\* An edge of the always-on clock, with the writes that arrive with it.
LEMMA EdgeTimer ==
  ASSUME IInv, SlowEdge
  PROVE  TimerTypeOK' /\ StartTimer' /\ ConfigTimer' /\ BarkBehind'
<1>1. /\ pc' = pc /\ chip' = chip /\ pc \in 1 .. End + 1
      /\ TimerTypeOK /\ chip \in Chips /\ halted \in BOOLEAN
  BY DEF SlowEdge, IInv, TypeOK, cpuVars
<1>2. PICK late \in BOOLEAN :
        LET L == Landing(late) IN
        /\ reg' = [r \in Regs |-> IF r \in L THEN new[r]
                                  ELSE IF r = "count" /\ Counts THEN Counted(reg[r])
                                  ELSE reg[r]]
        /\ new' = [r \in Regs |-> IF r \in L THEN 0 ELSE new[r]]
        /\ age' = [r \in Regs |-> IF r \in L \/ Free(r) THEN 0 ELSE age[r] + 1]
        /\ intr' = (intr \/ (Counts /\ reg["count"] >= reg["bark"]))
        /\ bitten' = (bitten \/ (Counts /\ reg["count"] >= reg["bite"]))
        /\ esc' = <<halted, esc[1]>>
  BY DEF SlowEdge, TimerEdge
<1> DEFINE L == Landing(late)
<1>3. L \subseteq Regs /\ \A r \in L : age[r] >= LandsAt
  BY DEF Landing
<1>4. /\ age \in [Regs -> 0 .. HeldUntil] /\ new \in [Regs -> Word] /\ reg \in [Regs -> Word]
      /\ \A r \in Regs \ {"count"} : age[r] <= LandsAt
  BY <1>1 DEF TimerTypeOK
<1>5. \A r \in Regs \ L : age[r] < LandsAt \/ (r = "count" /\ age[r] < HeldUntil)
  BY <1>4 DEF Landing, LandsAt, HeldUntil
<1>6. /\ \A r \in L : age'[r] = 0 /\ reg'[r] = new[r] /\ new'[r] = 0
      /\ \A r \in Regs \ L : /\ age'[r] = IF age[r] = 0 THEN 0 ELSE age[r] + 1
                             /\ new'[r] = new[r]
                             /\ r # "count" \/ reg["ctrl"] = 0 => reg'[r] = reg[r]
  BY <1>2, <1>3 DEF Free, Counts
<1>7. TimerTypeOK'
  <2>1. reg' \in [Regs -> Word] /\ new' \in [Regs -> Word]
    BY <1>2, <1>3, <1>4, Words
  <2>2. reg'["ctrl"] \in {0, 1} /\ new'["ctrl"] \in {0, 1}
    BY <1>1, <1>6 DEF TimerTypeOK, Regs
  <2>3. \A r \in Regs : age'[r] \in 0 .. HeldUntil /\ (r # "count" => age'[r] <= LandsAt)
    BY <1>4, <1>5, <1>6 DEF HeldUntil, LandsAt
  <2>4. age' \in [Regs -> 0 .. HeldUntil]
    BY <1>2, <2>3
  <2>5. intr' \in BOOLEAN /\ bitten' \in BOOLEAN /\ esc' \in BOOLEAN \X BOOLEAN
    BY <1>1, <1>2 DEF TimerTypeOK
  <2> QED BY <2>1, <2>2, <2>3, <2>4, <2>5 DEF TimerTypeOK
<1> HIDE DEF L
<1>8. \A r \in Regs : \/ r \in L
                     \/ r \notin L
  OBVIOUS
<1>9. StartTimer'
  BY <1>1, <1>3, <1>4, <1>5, <1>6 DEF IInv, StartTimer, ConfigTimer, Holds, Before, Free, Regs, End, LandsAt, HeldUntil
<1>10. ConfigTimer'
  BY <1>1, <1>3, <1>4, <1>5, <1>6 DEF IInv, StartTimer, ConfigTimer, Holds, Before, Free, Regs, End, LandsAt, HeldUntil, Bark
<1>11. BarkBehind'
  <2>1. CASE ~Counts
    BY <1>1, <1>2, <2>1 DEF IInv, BarkBehind
  <2>2. CASE Counts
    <3>1. pc \in 6 .. 9 \/ pc >= 15
      BY <1>1, <2>2 DEF IInv, StartTimer, ConfigTimer, Counts, Holds, Free, Regs, End
    <3>2. reg["bark"] \in Int /\ reg["bite"] \in Int /\ reg["count"] \in Int
      BY <1>4, SizeAssumption DEF Regs, Word
    <3>3. ASSUME 9 * chip.threshold < Size PROVE reg["bark"] >= reg["bite"]
      BY <1>1, <2>2, <3>1, <3>3, BarkFollows, ChipTypes, ResetPathAssumption
      DEF IInv, StartTimer, ConfigTimer, Counts, Holds, Free, Regs, End
    <3> QED BY <1>1, <1>2, <3>2, <3>3 DEF IInv, BarkBehind
  <2> QED BY <2>1, <2>2
<1> QED BY <1>7, <1>9, <1>10, <1>11
-----------------------------------------------------------------------------
(* Steps of software and alerts after the configuration *)

\* What the processor and the escalation timer may change while the chip is
\* up.
LEMMA UpStep ==
  ASSUME IInv,
         UNCHANGED <<timerVars, chip, pc, syncVars, pwrVars>>,
         fsm \in {"active", "stopping"},
         mode' \in {"config", "alerts", "run", "poll", "bootstrap"} \cup ShuttingDown,
         mode' = "config" => mode = "config",
         mode' \in {"alerts", "run", "poll", "bootstrap"} => pc = End + 1,
         stage' \in {"rom", "flash"}, nmi' \in BOOLEAN, flashOff' \in BOOLEAN,
         classes' \in BOOLEAN, phase' \in 0 .. 4, halted' \in BOOLEAN,
         request \subseteq request', request' \in SUBSET {"esc", "sw"},
         Ended'
  PROVE  IInv'
<1>1. /\ pc' = pc /\ chip' = chip /\ fsm' = fsm /\ edges' = edges /\ info' = info
      /\ reqs' = reqs /\ resetEn' = resetEn /\ toggle' = toggle /\ sync' = sync
      /\ slowEn' = slowEn /\ reg' = reg /\ new' = new /\ age' = age /\ intr' = intr
      /\ bitten' = bitten /\ esc' = esc
  BY DEF timerVars, syncVars, pwrVars
<1>2. TimerTypeOK'
  BY <1>1 DEF IInv, TypeOK, TimerTypeOK
<1>3. TypeOK'
  BY <1>1, <1>2, Zenon DEF IInv, TypeOK
<1>4. StartTimer' /\ ConfigTimer' /\ BarkBehind'
  BY TimerAlone DEF IInv
<1>5. Still'
  BY <1>1 DEF Still
<1>6. Requests'
  BY <1>1 DEF IInv, Requests, Raw
<1>7. Overtaken' /\ EnableSet' /\ NotYet'
  BY <1>1 DEF IInv, Overtaken, EnableSet, NotYet
<1> QED BY <1>3, <1>4, <1>5, <1>6, <1>7 DEF IInv

\* The boot flow and the beginning of shutdown.
LEMMA BootSteps ==
  ASSUME IInv, ConfigureAlerts \/ StartPoll \/ EndPoll \/ EnterFlash \/ Fail \/ Nmi
  PROVE  IInv'
<1>1. /\ UNCHANGED <<timerVars, chip, pc, syncVars, pwrVars, phase, halted, request>>
      /\ fsm \in {"active", "stopping"}
      /\ stage' \in {"rom", "flash"} /\ nmi' \in BOOLEAN /\ flashOff' \in BOOLEAN
      /\ classes' \in BOOLEAN
  BY DEF ConfigureAlerts, StartPoll, EndPoll, EnterFlash, Fail, Nmi, Goto, CanRun,
         IInv, TypeOK, alertVars
<1>2. /\ mode' \in {"run", "poll", "report", "reset"}
      /\ mode \in ShuttingDown => mode' \in ShuttingDown
      /\ mode' \in {"run", "poll"} => pc = End + 1
  BY DEF ConfigureAlerts, StartPoll, EndPoll, EnterFlash, Fail, Nmi, Goto, IInv, TypeOK,
         ShuttingDown
<1>3. Ended'
  BY <1>1, <1>2 DEF IInv, Ended
<1>4. phase' \in 0 .. 4 /\ halted' \in BOOLEAN /\ request' \in SUBSET {"esc", "sw"}
  BY <1>1 DEF IInv, TypeOK
<1> QED BY <1>1, <1>2, <1>3, <1>4, UpStep DEF ShuttingDown

\* shutdown_finalize()
LEMMA ShutdownSteps ==
  ASSUME IInv, ShutdownStep
  PROVE  IInv'
<1>1. /\ UNCHANGED <<timerVars, chip, pc, syncVars, pwrVars, stage, nmi, classes, halted>>
      /\ fsm \in {"active", "stopping"} /\ ~halted
      /\ mode \in ShuttingDown /\ mode' \in ShuttingDown
  BY DEF ShutdownStep, CanRun, Following, ShuttingDown
<1>2. request \subseteq request' /\ request' \in SUBSET {"esc", "sw"}
      /\ request' \subseteq request \cup {"sw"}
  BY DEF ShutdownStep, IInv, TypeOK
<1>3. phase' \in 0 .. 4 /\ (phase' = phase \/ phase' = 1) /\ flashOff' \in BOOLEAN
  BY DEF ShutdownStep, Alarm, IInv, TypeOK
<1>4. Ended'
  BY <1>1, <1>2, <1>3 DEF IInv, Ended
<1>5. stage' \in {"rom", "flash"} /\ nmi' \in BOOLEAN /\ classes' \in BOOLEAN /\ halted' \in BOOLEAN
  BY <1>1 DEF IInv, TypeOK
<1> QED BY <1>1, <1>2, <1>3, <1>4, <1>5, UpStep DEF ShuttingDown

\* Alerts escalate only while the chip is up, since a reset ends them.
LEMMA AlertSteps ==
  ASSUME IInv, RaiseAlert \/ Escalate
  PROVE  IInv'
<1>1. /\ UNCHANGED <<timerVars, chip, pc, mode, stage, nmi, flashOff, classes, syncVars, pwrVars>>
      /\ classes \/ phase # 0
  BY DEF RaiseAlert, Escalate, cpuVars
<1>2. fsm \in {"active", "stopping"}
  BY <1>1 DEF IInv, Still, TypeOK
<1>3. /\ phase' \in 0 .. 4 /\ halted' \in BOOLEAN /\ (halted => halted')
      /\ request \subseteq request' /\ request' \in SUBSET {"esc", "sw"}
  <2>1. CASE RaiseAlert
    BY <2>1 DEF RaiseAlert, Alarm, IInv, TypeOK
  <2>2. CASE Escalate
    <3>1. phase' = phase + 1 /\ phase \in 1 .. 3
      BY <2>2 DEF Escalate
    <3>2. /\ request' \in {request, request \cup {"esc"}}
          /\ halted' \in BOOLEAN /\ (halted => halted')
      BY <2>2 DEF Escalate, IInv, TypeOK
    <3> QED BY <3>1, <3>2 DEF IInv, TypeOK
  <2> QED BY <2>1, <2>2
<1>4. Ended'
  <2>1. CASE RaiseAlert
    BY <2>1, <1>1 DEF RaiseAlert, Alarm, IInv, Ended
  <2>2. CASE Escalate
    <3>1. phase \in 1 .. 3 /\ phase' = phase + 1 /\ chip' = chip /\ mode' = mode
      BY <2>2 DEF Escalate, cpuVars
    <3>2. chip.signals \in 0 .. 4
      BY ChipTypes DEF IInv, TypeOK
    <3>3. phase = 1 /\ 1 < chip.signals => halted'
      BY <2>2 DEF Escalate, Signal
    <3>4. "esc" \in request' => "esc" \in request \/ (phase = 3 /\ 3 < chip.signals)
      BY <2>2 DEF Escalate, Signal
    <3>5. "sw" \in request' => "sw" \in request
      BY <2>2 DEF Escalate
    <3> QED BY <1>3, <3>1, <3>2, <3>3, <3>4, <3>5 DEF IInv, Ended
  <2> QED BY <2>1, <2>2
<1>5. /\ mode' \in {"config", "alerts", "run", "poll", "bootstrap"} \cup ShuttingDown
      /\ mode' \in {"alerts", "run", "poll", "bootstrap"} => pc = End + 1
      /\ stage' \in {"rom", "flash"} /\ nmi' \in BOOLEAN /\ flashOff' \in BOOLEAN
      /\ classes' \in BOOLEAN
  BY <1>1 DEF IInv, TypeOK
<1> QED BY <1>1, <1>2, <1>3, <1>4, <1>5, UpStep
\* watchdog_disable() before bootstrap.
LEMMA BootstrapStep ==
  ASSUME IInv, EnterBootstrap
  PROVE  IInv'
<1>1. /\ UNCHANGED <<chip, pc, stage, nmi, flashOff, classes, phase, halted, request, syncVars, pwrVars>>
      /\ fsm \in {"active", "stopping"} /\ pc = End + 1 /\ mode' = "bootstrap" /\ mode = "run"
  BY DEF EnterBootstrap, Goto, CanRun, IInv, TypeOK, alertVars
<1>2. /\ age["ctrl"] = 0 /\ age' = [age EXCEPT !["ctrl"] = 1] /\ new' = [new EXCEPT !["ctrl"] = 0]
      /\ reg' = reg /\ intr' = intr /\ bitten' = bitten /\ esc' = esc
  BY DEF EnterBootstrap, Put, Free
<1>3. /\ age \in [Regs -> 0 .. HeldUntil] /\ new \in [Regs -> Word] /\ reg \in [Regs -> Word]
  BY DEF IInv, TypeOK, TimerTypeOK
<1>4. /\ age'["ctrl"] = 1 /\ new'["ctrl"] = 0
      /\ \A s \in Regs \ {"ctrl"} : age'[s] = age[s] /\ new'[s] = new[s]
  BY <1>2, <1>3 DEF Regs
<1>5. TimerTypeOK'
  BY <1>2, <1>3, <1>4, Words DEF IInv, TypeOK, TimerTypeOK, HeldUntil, LandsAt, Regs
<1>6. TypeOK'
  <2>1. /\ pc' = pc /\ chip' = chip /\ fsm' = fsm /\ edges' = edges /\ info' = info
        /\ reqs' = reqs /\ resetEn' = resetEn /\ toggle' = toggle /\ sync' = sync
        /\ slowEn' = slowEn
    BY <1>1 DEF syncVars, pwrVars
  <2>2. SoftwareTypes' /\ AlertTypes'
    BY <1>1 DEF SoftwareTypes, AlertTypes, IInv, TypeOK, End
  <2>3. SyncTypes' /\ PowerTypes'
    BY <2>1 DEF SyncTypes, PowerTypes, IInv, TypeOK
  <2>4. (TypeOK <=> TimerTypeOK /\ SoftwareTypes /\ AlertTypes /\ SyncTypes /\ PowerTypes)'
    BY TypeParts, PTL
  <2> QED BY <1>5, <2>2, <2>3, <2>4
<1>7. StartTimer' /\ ConfigTimer' /\ BarkBehind'
  BY <1>1, <1>2, <1>3, <1>4
  DEF IInv, StartTimer, ConfigTimer, BarkBehind, Holds, Before, Free, Regs, End, Bark
<1>8. Still' /\ Ended' /\ Requests'
  BY <1>1, <1>2 DEF IInv, Still, Ended, Requests, Raw, pwrVars, ShuttingDown
<1>9. Overtaken' /\ EnableSet' /\ NotYet'
  BY <1>1 DEF IInv, Overtaken, EnableSet, NotYet, syncVars, pwrVars
<1> QED BY <1>6, <1>7, <1>8, <1>9 DEF IInv

-----------------------------------------------------------------------------
(* Steps of the configuration *)

\* What an instruction of the configuration leaves alone.
LEMMA AdvanceTypes ==
  ASSUME IInv, NEW op, Advance(op), TimerTypeOK', resetEn' \in BOOLEAN, toggle' \in BOOLEAN
  PROVE  TypeOK'
<1>1. /\ pc \in 1 .. End /\ pc' = pc + 1 /\ mode = "config"
      /\ mode' = IF pc = End THEN "alerts" ELSE mode
  BY DEF Advance, IInv, TypeOK
<1>2. /\ UNCHANGED <<chip, stage, nmi, flashOff, classes, phase, halted, request, sync, slowEn>>
      /\ UNCHANGED <<reqs, fsm, edges, info>>
  BY DEF Advance, alertVars, pwrVars
<1>3. /\ pc' \in 1 .. End + 1
      /\ mode' \in {"config", "alerts"}
      /\ mode' = "config" => pc' <= End
      /\ mode' = "alerts" => pc' = End + 1
  BY <1>1 DEF End
<1>4. (mode \in {"alerts", "run", "poll", "bootstrap"})' => pc' = End + 1
  BY <1>3
<1>5. SoftwareTypes'
  BY <1>2, <1>3, <1>4 DEF SoftwareTypes, IInv, TypeOK
<1>6. AlertTypes' /\ PowerTypes'
  BY <1>2 DEF AlertTypes, PowerTypes, IInv, TypeOK
<1>7. SyncTypes'
  BY <1>2 DEF SyncTypes, IInv, TypeOK
<1>8. (TypeOK <=> TimerTypeOK /\ SoftwareTypes /\ AlertTypes /\ SyncTypes /\ PowerTypes)'
  BY TypeParts, PTL
<1> QED BY <1>5, <1>6, <1>7, <1>8

\* The power manager while software configures it.
LEMMA AdvanceOthers ==
  ASSUME IInv, NEW op, Advance(op), bitten' = bitten
  PROVE  /\ Still' /\ Ended' /\ Requests'
         /\ "sw" \notin reqs[1] \cup reqs[2]
         /\ "esc" \notin reqs[1] \cup reqs[2]
<1>1. /\ fsm \in {"active", "stopping"} /\ mode = "config" /\ ~halted
      /\ UNCHANGED <<chip, classes, phase, halted, request, reqs, fsm, edges>>
  BY DEF Advance, CanRun, alertVars, pwrVars
<1>2. "sw" \notin request /\ "esc" \notin request
  BY <1>1 DEF IInv, Ended, ShuttingDown
<1>3. Still' /\ Ended'
  BY <1>1, <1>2 DEF IInv, Still, Ended
<1>4. Requests'
  BY <1>1 DEF IInv, Requests, Raw
<1> QED BY <1>1, <1>2, <1>3, <1>4 DEF IInv, Requests, Raw
LEMMA EnableStep ==
  ASSUME IInv, EnableReset
  PROVE  IInv'
<1>1. /\ Advance("enable") /\ resetEn' = TRUE /\ UNCHANGED <<timerVars, toggle>>
      /\ pc \in {1, 6} /\ pc' = pc + 1 /\ chip' = chip /\ sync' = sync /\ slowEn' = slowEn
      /\ fsm \in {"active", "stopping"} /\ UNCHANGED <<reqs, fsm, edges>>
  BY Position DEF EnableReset, Advance, CanRun, IInv, TypeOK, pwrVars
<1>2. /\ reg' = reg /\ new' = new /\ age' = age /\ intr' = intr /\ bitten' = bitten /\ esc' = esc
  BY <1>1 DEF timerVars
<1>3. TimerTypeOK' /\ toggle' \in BOOLEAN
  BY <1>1, <1>2 DEF IInv, TypeOK, TimerTypeOK
<1>4. TypeOK'
  BY <1>1, <1>3, AdvanceTypes
<1>5. StartTimer' /\ ConfigTimer' /\ BarkBehind'
  BY <1>1, <1>2 DEF IInv, StartTimer, ConfigTimer, BarkBehind, Holds, Before, Free, Regs
<1>6. Still' /\ Ended' /\ Requests'
  BY <1>1, <1>2, AdvanceOthers
<1>7. Overtaken' /\ EnableSet' /\ NotYet'
  BY <1>1 DEF IInv, Overtaken, EnableSet, NotYet, End
<1> QED BY <1>4, <1>5, <1>6, <1>7 DEF IInv

\* No request is on its way that the new one could overtake.
LEMMA SynchroniseStep ==
  ASSUME IInv, Synchronise
  PROVE  IInv'
<1>1. /\ Advance("sync") /\ toggle' = ~toggle /\ UNCHANGED <<timerVars, resetEn>>
      /\ pc \in {2, 7, 16} /\ pc' = pc + 1 /\ chip' = chip /\ sync' = sync /\ slowEn' = slowEn
      /\ fsm \in {"active", "stopping"} /\ UNCHANGED <<reqs, fsm, edges>>
  BY Position DEF Synchronise, Advance, CanRun, IInv, TypeOK, pwrVars
<1>2. /\ reg' = reg /\ new' = new /\ age' = age /\ intr' = intr /\ bitten' = bitten /\ esc' = esc
  BY <1>1 DEF timerVars
<1>3. TimerTypeOK' /\ resetEn' \in BOOLEAN /\ toggle' \in BOOLEAN
  BY <1>1, <1>2 DEF IInv, TypeOK, TimerTypeOK
<1>4. TypeOK'
  BY <1>1, <1>3, AdvanceTypes
<1>5. StartTimer' /\ ConfigTimer' /\ BarkBehind'
  BY <1>1, <1>2 DEF IInv, StartTimer, ConfigTimer, BarkBehind, Holds, Before, Free, Regs
<1>6. /\ Still' /\ Ended' /\ Requests'
      /\ "sw" \notin reqs[1] \cup reqs[2] /\ "esc" \notin reqs[1] \cup reqs[2]
  BY <1>1, <1>2, AdvanceOthers
<1>7. Overtaken'
  BY <1>1, <1>6 DEF Overtaken
<1>8. EnableSet'
  BY <1>1 DEF IInv, EnableSet
<1>9. NotYet'
  <2>1. SUFFICES ASSUME ~slowEn PROVE NotYet'
    BY <1>1 DEF NotYet
  <2>2. ~sync'[3]
    BY <1>1, <2>1 DEF IInv, NotYet
  <2>3. CASE pc = 2
    <3>1. ~toggle
      BY <1>1, <2>1, <2>3 DEF IInv, NotYet
    <3>2. pc' = 3
      BY <1>1, <2>3
    <3>3. toggle'
      BY <1>1, <3>1, Zenon
    <3> QED BY <2>2, <3>2, <3>3 DEF NotYet, End
  <2>4. CASE pc = 7
    <3>1. toggle
      BY <2>1, <2>4 DEF IInv, NotYet
    <3>2. pc' = 8
      BY <1>1, <2>4
    <3>3. ~toggle'
      BY <1>1, <3>1, Zenon
    <3> QED BY <2>2, <3>2, <3>3 DEF NotYet, End
  <2>5. CASE pc = 16
    <3>1. ~toggle
      BY <2>1, <2>5 DEF IInv, NotYet, End
    <3>2. pc' = 17
      BY <1>1, <2>5
    <3>3. toggle'
      BY <1>1, <3>1, Zenon
    <3> QED BY <2>2, <3>2, <3>3 DEF NotYet, End
  <2> QED BY <1>1, <2>3, <2>4, <2>5
<1> QED BY <1>4, <1>5, <1>6, <1>7, <1>8, <1>9 DEF IInv

LEMMA WriteStep ==
  ASSUME IInv, WriteReg
  PROVE  IInv'
<1>1. /\ Advance("write") /\ bitten' = bitten /\ UNCHANGED <<resetEn, toggle>>
      /\ pc \in {3, 4, 5, 8, 10, 11, 12, 14} /\ pc' = pc + 1 /\ sync' = sync /\ slowEn' = slowEn
      /\ UNCHANGED <<reqs, fsm, edges>>
  BY Position DEF WriteReg, Put, Advance, IInv, TypeOK, pwrVars
<1>2. TimerTypeOK' /\ StartTimer' /\ ConfigTimer' /\ BarkBehind'
  BY WriteTimer
<1>3. resetEn' \in BOOLEAN /\ toggle' \in BOOLEAN
  BY <1>1 DEF IInv, TypeOK
<1>4. TypeOK'
  BY <1>1, <1>2, <1>3, AdvanceTypes
<1>5. Still' /\ Ended' /\ Requests'
  BY <1>1, AdvanceOthers
<1>6. Overtaken' /\ EnableSet' /\ NotYet'
  BY <1>1 DEF IInv, Overtaken, EnableSet, NotYet, End
<1> QED BY <1>2, <1>4, <1>5, <1>6 DEF IInv

\* A read waits for the write before it.
LEMMA ReadStep ==
  ASSUME IInv, ReadBack
  PROVE  IInv'
<1>1. /\ Advance("read") /\ UNCHANGED <<timerVars, resetEn, toggle>>
      /\ \/ pc \in {9, 15} /\ age["ctrl"] = 0
         \/ pc = 13 /\ age["bite"] = 0
      /\ pc' = pc + 1 /\ chip' = chip /\ sync' = sync /\ slowEn' = slowEn
      /\ UNCHANGED <<reqs, fsm, edges>>
  BY Position DEF ReadBack, Free, Advance, IInv, TypeOK, pwrVars
<1>2. /\ reg' = reg /\ new' = new /\ age' = age /\ intr' = intr /\ bitten' = bitten /\ esc' = esc
  BY <1>1 DEF timerVars
<1>3. TimerTypeOK' /\ resetEn' \in BOOLEAN /\ toggle' \in BOOLEAN
  BY <1>1, <1>2 DEF IInv, TypeOK, TimerTypeOK
<1>4. TypeOK'
  BY <1>1, <1>3, AdvanceTypes
<1>5. StartTimer' /\ ConfigTimer' /\ BarkBehind'
  BY <1>1, <1>2 DEF IInv, StartTimer, ConfigTimer, BarkBehind, Holds, Before, Free, Regs, Bark, End
<1>6. Still' /\ Ended' /\ Requests'
  BY <1>1, <1>2, AdvanceOthers
<1>7. Overtaken' /\ EnableSet' /\ NotYet'
  BY <1>1 DEF IInv, Overtaken, EnableSet, NotYet, End
<1> QED BY <1>4, <1>5, <1>6, <1>7 DEF IInv

-----------------------------------------------------------------------------
(* Power manager and clock *)

LEMMA EdgeStep ==
  ASSUME IInv, SlowEdge
  PROVE  IInv'
<1>1. /\ UNCHANGED <<chip, pc, mode, stage, nmi, flashOff, classes, phase, halted, request>>
      /\ UNCHANGED <<resetEn, toggle, fsm>>
      /\ sync' = <<toggle, sync[1], sync[2]>>
      /\ slowEn' = IF sync[2] # sync[3] THEN resetEn ELSE slowEn
      /\ reqs' = <<Raw, reqs[1]>>
      /\ edges' = IF fsm = "init" /\ edges < InitEdges THEN edges + 1 ELSE edges
  BY DEF SlowEdge, cpuVars, alertVars
<1>2. TimerTypeOK' /\ StartTimer' /\ ConfigTimer' /\ BarkBehind'
  BY EdgeTimer
<1>3. /\ Raw \subseteq Causes
      /\ sync[1] \in BOOLEAN /\ sync[2] \in BOOLEAN /\ sync[3] \in BOOLEAN
      /\ reqs[1] \subseteq Causes /\ reqs[2] \subseteq Causes
      /\ toggle \in BOOLEAN /\ slowEn \in BOOLEAN /\ resetEn \in BOOLEAN
      /\ fsm \in {"active", "stopping", "reset", "init"}
      /\ edges \in 0 .. InitEdges
  BY DEF IInv, TypeOK, Raw, Causes
<1>4. TypeOK'
  <2>1. edges' \in 0 .. InitEdges
    BY <1>1, <1>3, ResetPathAssumption
  <2>2. sync' \in BOOLEAN \X BOOLEAN \X BOOLEAN /\ slowEn' \in BOOLEAN
    BY <1>1, <1>3
  <2>3. reqs' \in (SUBSET Causes) \X (SUBSET Causes)
    BY <1>1, <1>3
  <2>4. info' \in SUBSET Causes
    BY <1>3 DEF SlowEdge, Mask, IInv, TypeOK
  <2>5. SoftwareTypes' /\ AlertTypes'
    BY SoftwareStays DEF SlowEdge, IInv
  <2>6. SyncTypes'
    BY <1>1, <1>3, <2>2 DEF SyncTypes
  <2>7. PowerTypes'
    BY <1>1, <1>3, <2>1, <2>3, <2>4 DEF PowerTypes
  <2>8. (TypeOK <=> TimerTypeOK /\ SoftwareTypes /\ AlertTypes /\ SyncTypes /\ PowerTypes)'
    BY TypeParts, PTL
  <2> QED BY <1>2, <2>5, <2>6, <2>7, <2>8
<1>5. Ended'
  BY <1>1 DEF IInv, Ended
<1>6. Still'
  <2>1. SUFFICES ASSUME fsm \in {"reset", "init"} PROVE ~bitten'
    BY <1>1 DEF IInv, Still
  <2>2. pc = 1 /\ ~bitten
    BY <2>1 DEF IInv, Still
  <2>3. reg["ctrl"] = 0
    BY <2>2 DEF IInv, StartTimer, Regs
  <2>4. bitten' = (bitten \/ (Counts /\ reg["count"] >= reg["bite"]))
    BY DEF SlowEdge, TimerEdge
  <2>5. ~Counts
    BY <2>3 DEF Counts
  <2> QED BY <2>2, <2>4, <2>5
<1>7. Requests'
  <2>1. fsm \in {"active", "stopping"} => Raw \subseteq Raw'
    BY <1>1 DEF SlowEdge, TimerEdge, Raw
  <2>2. fsm = "init" => Raw = {}
    BY DEF IInv, Still, Raw
  <2>3. fsm = "init" /\ edges' >= 2 => edges >= 1
    BY <1>1, <1>3
  <2> QED BY <1>1, <2>1, <2>2, <2>3 DEF IInv, Requests
<1>8. Overtaken'
  BY <1>1 DEF IInv, Overtaken
<1>9. EnableSet'
  BY <1>1, <1>3 DEF IInv, EnableSet
<1>10. NotYet'
  <2>1. SUFFICES ASSUME ~slowEn' PROVE NotYet'
    BY DEF NotYet
  <2>2. ~slowEn /\ ~sync[3] /\ ~sync[2]
    BY <1>1, <1>3, <2>1 DEF IInv, EnableSet, NotYet
  <2>3. ~sync'[3]
    BY <1>1, <2>2
  <2>4. pc <= 2 => ~toggle
    BY <2>2 DEF IInv, NotYet
  <2> QED BY <1>1, <2>2, <2>3, <2>4 DEF IInv, NotYet
<1> QED BY <1>2, <1>4, <1>5, <1>6, <1>7, <1>8, <1>9, <1>10 DEF IInv

\* Stopping the clocks, and starting them.
LEMMA ClockSteps ==
  ASSUME IInv, StopClocks \/ ReleaseReset \/ Activate
  PROVE  IInv'
<1>1. /\ UNCHANGED <<timerVars, chip, cpuVars, flashOff, alertVars, request, syncVars, reqs>>
      /\ \/ fsm = "active" /\ fsm' = "stopping" /\ edges' = edges /\ info' = info
         \/ fsm = "reset" /\ fsm' = "init" /\ edges' = 0 /\ info' = {}
         \/ fsm = "init" /\ fsm' = "active" /\ edges = InitEdges /\ edges' = edges /\ info' = info
  BY DEF StopClocks, ReleaseReset, Activate, Ready
<1>2. /\ pc' = pc /\ chip' = chip /\ reqs' = reqs /\ resetEn' = resetEn /\ toggle' = toggle
      /\ sync' = sync /\ slowEn' = slowEn /\ reg' = reg /\ new' = new /\ age' = age
      /\ intr' = intr /\ bitten' = bitten /\ esc' = esc /\ mode' = mode /\ stage' = stage
      /\ nmi' = nmi /\ flashOff' = flashOff /\ classes' = classes /\ phase' = phase
      /\ halted' = halted /\ request' = request
  BY <1>1 DEF timerVars, syncVars, cpuVars, alertVars
<1>3. TypeOK'
  <2>1. edges' \in 0 .. InitEdges /\ info' \in SUBSET Causes
    BY <1>1, ResetPathAssumption DEF IInv, TypeOK
  <2>2. fsm' \in {"active", "stopping", "reset", "init"}
    BY <1>1
  <2>3. TimerTypeOK'
    BY <1>2 DEF IInv, TypeOK, TimerTypeOK
  <2>4. SoftwareTypes' /\ AlertTypes' /\ SyncTypes'
    BY <1>1, SoftwareStays, SyncStays DEF IInv
  <2>5. PowerTypes'
    BY <1>2, <2>1, <2>2 DEF PowerTypes, IInv, TypeOK
  <2>6. (TypeOK <=> TimerTypeOK /\ SoftwareTypes /\ AlertTypes /\ SyncTypes /\ PowerTypes)'
    BY TypeParts, PTL
  <2> QED BY <2>3, <2>4, <2>5, <2>6
<1>4. StartTimer' /\ ConfigTimer' /\ BarkBehind'
  BY <1>1, <1>2, TimerAlone DEF IInv
<1>5. Still' /\ Ended'
  BY <1>1, <1>2 DEF IInv, Still, Ended
<1>6. Requests'
  BY <1>1, <1>2, ResetPathAssumption DEF IInv, Requests, Raw
<1>7. Overtaken' /\ EnableSet'
  BY <1>2 DEF IInv, Overtaken, EnableSet
<1>8. NotYet'
  BY <1>1, <1>2, ResetPathAssumption DEF IInv, NotYet
<1> QED BY <1>3, <1>4, <1>5, <1>6, <1>7, <1>8 DEF IInv

\* A reset.  If RESET_EN has not come through, software or an alert asked for
\* it, after the last request to synchronise.
LEMMA ResetStep ==
  ASSUME IInv, EnterReset
  PROVE  IInv'
<1>1. /\ reg' = [r \in Regs |-> 0] /\ new' = [r \in Regs |-> 0] /\ age' = [r \in Regs |-> 0]
      /\ intr' = FALSE /\ bitten' = FALSE /\ esc' = <<FALSE, FALSE>>
      /\ mode' = "config" /\ pc' = 1 /\ stage' = "rom" /\ nmi' = FALSE /\ flashOff' = FALSE
      /\ classes' = FALSE /\ phase' = 0 /\ halted' = FALSE /\ request' = {} /\ fsm' = "reset"
      /\ chip' = chip /\ resetEn' = resetEn /\ toggle' = toggle /\ sync' = sync
      /\ slowEn' = slowEn /\ reqs' = reqs /\ edges' = edges
      /\ Seen # {}
  BY DEF EnterReset, ResetTimer, syncVars
<1>2. TypeOK'
  <2>1. reg' \in [Regs -> Word] /\ new' \in [Regs -> Word] /\ age' \in [Regs -> 0 .. HeldUntil]
    BY <1>1, Words DEF HeldUntil
  <2>2. reg'["ctrl"] = 0 /\ new'["ctrl"] = 0 /\ \A r \in Regs : age'[r] <= LandsAt
    BY <1>1 DEF Regs, LandsAt
  <2>3. TimerTypeOK'
    BY <1>1, <2>1, <2>2 DEF TimerTypeOK
  <2>4. info' \in SUBSET Causes
    BY DEF EnterReset, Seen, Mask, Causes, IInv, TypeOK
  <2>5. pc' \in 1 .. End + 1 /\ pc' <= End /\ phase' \in 0 .. 4
    BY <1>1 DEF End
  <2>6. request' \in SUBSET {"esc", "sw"}
    BY <1>1
  <2> QED BY <1>1, <2>3, <2>4, <2>5, <2>6, Zenon DEF IInv, TypeOK
<1>3. StartTimer' /\ ConfigTimer'
  BY <1>1 DEF StartTimer, ConfigTimer, Free, Holds, Regs
<1>4. Still' /\ Ended' /\ Requests' /\ BarkBehind'
  BY <1>1 DEF Still, Ended, Requests, BarkBehind
<1>5. Overtaken' /\ EnableSet'
  BY <1>1 DEF IInv, Overtaken, EnableSet
<1>6. NotYet'
  <2>1. SUFFICES ASSUME ~slowEn PROVE NotYet'
    BY <1>1 DEF NotYet
  <2>2. PICK q \in {"sw", "esc"} : q \in reqs[2]
    BY <1>1, <2>1 DEF Seen, Mask, IInv, TypeOK, Causes
  <2>3. sync[2] = toggle
    BY <2>2 DEF IInv, Overtaken
  <2>4. ~sync'[3] /\ (~toggle' \/ sync'[2])
    BY <1>1, <2>1, <2>3 DEF IInv, NotYet
  <2> QED BY <1>1, <2>4 DEF NotYet, End
<1> QED BY <1>2, <1>3, <1>4, <1>5, <1>6 DEF IInv

LEMMA StutterStep ==
  ASSUME IInv, UNCHANGED vars
  PROVE  IInv'
<1>1. /\ pc' = pc /\ chip' = chip /\ reqs' = reqs /\ resetEn' = resetEn /\ toggle' = toggle
      /\ sync' = sync /\ slowEn' = slowEn /\ reg' = reg /\ new' = new /\ age' = age
      /\ intr' = intr /\ bitten' = bitten /\ esc' = esc /\ mode' = mode /\ stage' = stage
      /\ nmi' = nmi /\ flashOff' = flashOff /\ classes' = classes /\ phase' = phase
      /\ halted' = halted /\ request' = request /\ fsm' = fsm /\ edges' = edges
      /\ info' = info
  BY DEF vars, timerVars, syncVars, cpuVars, alertVars, pwrVars
<1>2. TimerTypeOK'
  BY <1>1 DEF IInv, TypeOK, TimerTypeOK
<1>3. TypeOK'
  <2>1. SoftwareTypes' /\ AlertTypes' /\ SyncTypes'
    BY SoftwareStays, SyncStays DEF IInv, vars
  <2>2. PowerTypes'
    BY <1>1 DEF PowerTypes, IInv, TypeOK
  <2>3. (TypeOK <=> TimerTypeOK /\ SoftwareTypes /\ AlertTypes /\ SyncTypes /\ PowerTypes)'
    BY TypeParts, PTL
  <2> QED BY <1>2, <2>1, <2>2, <2>3
<1>4. StartTimer' /\ ConfigTimer' /\ BarkBehind'
  BY <1>1, TimerAlone DEF IInv, timerVars
<1>5. Still' /\ Ended' /\ Requests'
  BY <1>1 DEF IInv, Still, Ended, Requests, Raw
<1>6. Overtaken' /\ EnableSet' /\ NotYet'
  BY <1>1 DEF IInv, Overtaken, EnableSet, NotYet
<1> QED BY <1>3, <1>4, <1>5, <1>6 DEF IInv

LEMMA StepIInv == IInv /\ [Next]_vars => IInv'
<1> SUFFICES ASSUME IInv, [Next]_vars PROVE IInv'
  OBVIOUS
<1>1. CASE Config
  BY <1>1, EnableStep, SynchroniseStep, WriteStep, ReadStep, BootSteps DEF Config
<1>2. CASE StartPoll \/ EndPoll \/ EnterFlash \/ Fail \/ Nmi
  BY <1>2, BootSteps
<1>3. CASE EnterBootstrap
  BY <1>3, BootstrapStep
<1>4. CASE ShutdownStep
  BY <1>4, ShutdownSteps
<1>5. CASE RaiseAlert \/ Escalate
  BY <1>5, AlertSteps
<1>6. CASE SlowEdge
  BY <1>6, EdgeStep
<1>7. CASE Pwrmgr
  BY <1>7, ClockSteps, ResetStep DEF Pwrmgr
<1>8. CASE UNCHANGED vars
  BY <1>8, StutterStep
<1> QED BY <1>1, <1>2, <1>3, <1>4, <1>5, <1>6, <1>7, <1>8 DEF Next

-----------------------------------------------------------------------------
(* Theorems *)

\* In every reachable state the parts of IInv hold: what the position of the
\* configuration says of writes and requests that are on their way.
THEOREM Invariant == Spec => []IInv
<1>1. Init => IInv
  BY InitIInv
<1>2. IInv /\ [Next]_vars => IInv'
  BY StepIInv
<1> QED BY <1>1, <1>2, PTL DEF Spec

\* Registers hold words, no write of the watchdog is on its way for longer
\* than its synchroniser and arbiter take, and boot goes on only at the end
\* of the configuration.
THEOREM TypeCorrect == Spec => []TypeOK
<1>1. IInv => TypeOK
  BY DEF IInv
<1> QED BY <1>1, Invariant, PTL

\* The watchdog barks not before it is too late to bite, unless 9/8 of the
\* threshold of OTP overflows (watchdog.c, 66).
THEOREM BarksLate == Spec => []BarkBehind
<1>1. IInv => BarkBehind
  BY DEF IInv
<1> QED BY <1>1, Invariant, PTL

\* At the end of the configuration RESET_EN has come through, or is about
\* to, whatever was lost in between.
LEMMA GuardedInIInv == IInv => Guarded
<1> SUFFICES ASSUME IInv, mode \in {"run", "poll", "bootstrap"}, Quiet, ~slowEn
             PROVE  FALSE
  BY DEF Guarded, IInv, TypeOK
<1>1. pc = End + 1
  BY DEF IInv, TypeOK
<1>2. toggle /\ ~sync[3]
  BY <1>1 DEF IInv, NotYet
<1>3. sync[3] = toggle
  BY DEF Quiet
<1> QED BY <1>2, <1>3

\* A bite resets the chip once requests to synchronise have come through.
THEOREM BiteResets == Spec => []Guarded
<1> QED BY GuardedInIInv, Invariant, PTL

\* Nothing but the write that stops it is on its way while the timer runs.
LEMMA RunsWithout ==
  ASSUME IInv, reg["ctrl"] = 1
  PROVE  \A r \in {"count", "bark", "bite"} : age[r] = 0
BY DEF IInv, TypeOK, StartTimer, ConfigTimer, Holds, Free, Regs, End

\* Which edge starts the timer, and what it finds.
LEMMA EdgeStarts ==
  ASSUME IInv, SlowEdge, reg["ctrl"] = 0, reg'["ctrl"] = 1
  PROVE  /\ reg'["count"] = 0
         /\ reg'["bite"] = IF pc <= 8 THEN AsmBite ELSE chip.threshold
<1>1. PICK late \in BOOLEAN :
        reg' = [r \in Regs |-> IF r \in Landing(late) THEN new[r]
                               ELSE IF r = "count" /\ Counts THEN Counted(reg[r])
                               ELSE reg[r]]
  BY DEF SlowEdge, TimerEdge
<1> DEFINE L == Landing(late)
<1>2. \A r \in Regs : reg'[r] = IF r \in L THEN new[r] ELSE reg[r]
  BY <1>1 DEF Counts
<1>3. /\ age \in [Regs -> 0 .. HeldUntil] /\ pc \in 1 .. End + 1
      /\ \A r \in Regs \ {"count"} : age[r] <= LandsAt
  BY DEF IInv, TypeOK, TimerTypeOK
<1>4. "ctrl" \in L /\ new["ctrl"] = 1 /\ age["ctrl"] = LandsAt
  BY <1>2, <1>3 DEF Landing, Regs, LandsAt
<1>5. pc \in 6 .. 8 \/ pc = 15
  BY <1>3, <1>4 DEF IInv, StartTimer, ConfigTimer, Holds, Free, Regs, LandsAt, End
<1>6. \A r \in Regs : /\ age[r] = 0 => reg'[r] = reg[r]
                      /\ age[r] = LandsAt /\ r # "count" => reg'[r] = new[r]
                      /\ age[r] = HeldUntil => reg'[r] = new[r]
  BY <1>2, <1>3 DEF Landing, LandsAt, HeldUntil
<1>7. CASE pc \in 6 .. 8
  <2>1. age["count"] = 0 /\ reg["count"] = 0
    BY <1>4, <1>7 DEF IInv, StartTimer, Free, LandsAt
  <2>2. \/ age["bite"] = 0 /\ reg["bite"] = AsmBite
        \/ age["bite"] = LandsAt /\ new["bite"] = AsmBite
    BY <1>3, <1>4, <1>7 DEF IInv, StartTimer, Holds, Before, Free, LandsAt, Regs
  <2> QED BY <1>6, <1>7, <2>1, <2>2 DEF Regs
<1>8. CASE pc = 15
  <2>1. \/ age["count"] = 0 /\ reg["count"] = 0
        \/ age["count"] = HeldUntil /\ new["count"] = 0
    BY <1>3, <1>4, <1>8 DEF IInv, ConfigTimer, Holds, Free, LandsAt, HeldUntil, Regs
  <2>2. age["bite"] = 0 /\ reg["bite"] = chip.threshold
    BY <1>3, <1>8 DEF IInv, ConfigTimer, Holds, Free, End
  <2> QED BY <1>6, <1>8, <2>1, <2>2 DEF Regs
<1> QED BY <1>5, <1>7, <1>8

\* The timer only runs with thresholds that have arrived, and starts from 0
\* with those of the code that started it, although every write of
\* rom_start.S and watchdog_configure() arrives at a time of its own.
THEOREM ArmedCleanly == Spec => ArmsClean
<1>1. ASSUME IInv, [Next]_vars, reg'["ctrl"] = 1
      PROVE  /\ \A r \in {"count", "bark", "bite"} : age'[r] = 0
             /\ reg["ctrl"] = 0 =>
                  /\ reg'["count"] = 0
                  /\ reg'["bite"] = IF pc <= 8 THEN AsmBite ELSE chip.threshold
  <2>1. IInv'
    BY <1>1, StepIInv
  <2>2. \A r \in {"count", "bark", "bite"} : age'[r] = 0
    <3>1. (IInv /\ reg["ctrl"] = 1 => \A r \in {"count", "bark", "bite"} : age[r] = 0)'
      BY RunsWithout, PTL
    <3> QED BY <1>1, <2>1, <3>1
  <2>3. CASE SlowEdge
    BY <1>1, <2>2, <2>3, EdgeStarts
  <2>4. CASE reg' = reg
    BY <1>1, <2>2, <2>4
  <2>5. CASE EnterReset
    BY <1>1, <2>5 DEF EnterReset, ResetTimer, Regs
  <2>6. CASE WriteReg \/ EnterBootstrap
    BY <2>4, <2>6 DEF WriteReg, EnterBootstrap, Put
  <2>7. CASE EnableReset \/ Synchronise \/ ReadBack \/ ConfigureAlerts
    BY <2>4, <2>7 DEF EnableReset, Synchronise, ReadBack, ConfigureAlerts, timerVars
  <2>8. CASE StartPoll \/ EndPoll \/ EnterFlash \/ Fail \/ Nmi \/ ShutdownStep
    BY <2>4, <2>8 DEF StartPoll, EndPoll, EnterFlash, Fail, Nmi, ShutdownStep, timerVars
  <2>9. CASE RaiseAlert \/ Escalate \/ StopClocks \/ ReleaseReset \/ Activate
    BY <2>4, <2>9 DEF RaiseAlert, Escalate, StopClocks, ReleaseReset, Activate, timerVars
  <2>10. CASE UNCHANGED vars
    BY <2>4, <2>10 DEF vars, timerVars
  <2> QED BY <1>1, <2>3, <2>5, <2>6, <2>7, <2>8, <2>9, <2>10 DEF Next, Config, Pwrmgr
<1> QED BY <1>1, Invariant, PTL DEF Spec, ArmsClean

\* A reset has a cause that is still there, and RESET_INFO names it: nothing
\* from before the last reset is in the flops of the requests.
THEOREM ResetsHaveCause == Spec => ResetsForCause
<1>1. ASSUME IInv, [Next]_vars, fsm # "reset", fsm' = "reset"
      PROVE  Seen \cap Raw # {} /\ Seen \cap Raw \subseteq info'
  <2>1. EnterReset
    BY <1>1 DEF Next, Config, Pwrmgr, EnableReset, Synchronise, WriteReg, ReadBack, Advance,
         ConfigureAlerts, StartPoll, EndPoll, EnterFlash, EnterBootstrap, Fail, Nmi, Goto,
         ShutdownStep, RaiseAlert, Escalate, SlowEdge, StopClocks, ReleaseReset, Activate,
         vars, pwrVars
  <2>2. Seen # {} /\ Seen \subseteq reqs[2] /\ reqs[2] \subseteq Raw
    BY <1>1, <2>1 DEF EnterReset, Seen, Mask, IInv, Requests
  <2>3. info' = (Seen \ {"sw"}) \cup (request \cap {"sw"})
    BY <2>1 DEF EnterReset
  <2> QED BY <2>2, <2>3 DEF Raw
<1> QED BY <1>1, Invariant, PTL DEF Spec, ResetsForCause
=============================================================================
