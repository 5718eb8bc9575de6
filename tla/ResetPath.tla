----------------------------- MODULE ResetPath ------------------------------
(***************************************************************************)
(* Everything that ends a boot that is stuck or has failed: the watchdog   *)
(* as ROM start-up code and driver configure it, shutdown_finalize(),      *)
(* escalation of alerts, and power and reset manager, which turn their     *)
(* requests into a reset and start the processor again.                    *)
(*                                                                         *)
(* Software and hardware in the fast clock domain take steps of their own; *)
(* SlowEdge is an edge of the always-on clock, in which timer and power    *)
(* manager sample what software left.  Nothing is said about how much      *)
(* software executes between two edges.                                    *)
(***************************************************************************)
EXTENDS AonTimer, Sequences

CONSTANTS AsmBite, AsmBark,  \* thresholds of rom_start.S
          Chips,             \* sets of OTP and life cycle values
          InitEdges          \* edges of the slow clock that OTP takes at least

\* timed: the life cycle state leaves the watchdog on; threshold: of OTP;
\* signals: the number of escalation signals that the class of the alerts
\* enables, kAlertEscalateNone .. kAlertEscalatePhase3
ChipType == [timed : BOOLEAN, threshold : Word, signals : 0 .. 4]

ASSUME ResetPathAssumption ==
  /\ AsmBite \in Word
  /\ AsmBark \in Word
  /\ AsmBark >= AsmBite
  /\ Chips \subseteq ChipType
  /\ InitEdges \in Nat
  /\ InitEdges >= 2

VARIABLES chip,     \* its OTP and life cycle state
          mode,     \* what the processor executes
          pc,       \* next instruction of the configuration
          stage,    \* whether it executes "rom" or "flash"
          nmi,      \* it is in NMI mode
          flashOff, \* FLASH_CTRL.DIS
          classes,  \* the alert classes are configured
          phase,    \* of the escalation timer, 1 is Phase0St, 0 IdleSt
          halted,   \* the life cycle controller is in EscalateSt
          request,  \* what asks for a reset but the watchdog: "sw", "esc"
          resetEn,  \* RESET_EN, the bit of the watchdog
          toggle,   \* u_slow_cdc_sync: level in the fast domain ...
          sync,     \* ... in the two flops of the slow one, and one edge later
          slowEn,   \* slow_reset_en
          reqs,     \* reset requests in the two flops of u_slow_ext_req_sync
          fsm,      \* of the power manager
          edges,    \* edges of the slow clock since its resets were released
          info      \* what this reset adds to RESET_INFO

cpuVars == <<mode, pc, stage, nmi>>
alertVars == <<classes, phase, halted>>
syncVars == <<resetEn, toggle, sync, slowEn>>
pwrVars == <<reqs, fsm, edges, info>>
vars == <<timerVars, chip, cpuVars, flashOff, alertVars, request, syncVars, pwrVars>>

Causes == {"wdog", "esc", "sw"}

-----------------------------------------------------------------------------
(* The configuration of the watchdog.                                      *)

I(op, r, v) == [op |-> op, reg |-> r, val |-> v]
Write(r, v) == I("write", r, v)
Read(r) == I("read", r, 0)
Enable == I("enable", "ctrl", 0)    \* RESET_EN
Sync == I("sync", "ctrl", 0)        \* CFG_CDC_SYNC

\* _rom_start_boot: posted writes, nothing is read back.
RomStart == <<Enable, Sync, Write("bark", AsmBark), Write("bite", AsmBite),
              Write("ctrl", 1)>>

\* Mutant: 7/8 of the bite.
BarkEarly(t) == ((7 * t) % Size) \div 8

\* 9/8 of the bite, in 32 bits.
Bark(t) == ((9 * t) % Size) \div 8

\* watchdog_init(): kWatchdogMinThreshold is 1.
EnableBit == IF chip.timed /\ chip.threshold >= 1 THEN 1 ELSE 0

\* Mutant: the bite threshold is written without sec_mmio.
ConfigurePosted ==
  <<Enable, Sync, Write("ctrl", 0), Read("ctrl"), Write("count", 0),
    Write("bark", Bark(chip.threshold)), Write("bite", chip.threshold),
    Write("ctrl", EnableBit), Read("ctrl"), Sync, Sync>>

\* Mutant: no second request to synchronise.
ConfigureOnce ==
  <<Enable, Sync, Write("ctrl", 0), Read("ctrl"), Write("count", 0),
    Write("bark", Bark(chip.threshold)), Write("bite", chip.threshold),
    Read("bite"), Write("ctrl", EnableBit), Read("ctrl"), Read("ctrl")>>

\* watchdog_configure(): a write of sec_mmio is a write and a read.
Configure ==
  <<Enable, Sync, Write("ctrl", 0), Read("ctrl"), Write("count", 0),
    Write("bark", Bark(chip.threshold)), Write("bite", chip.threshold),
    Read("bite"), Write("ctrl", EnableBit), Read("ctrl"), Sync>>

StartEnd == 5
End == 16

Instr == IF pc <= StartEnd THEN RomStart[pc] ELSE Configure[pc - StartEnd]

-----------------------------------------------------------------------------
(* The processor.  It may still finish instructions while the power        *)
(* manager stops its clock.  Code in flash ends with flash.                *)

CanRun ==
  /\ fsm \in {"active", "stopping"}
  /\ ~halted
  /\ ~(stage = "flash" /\ flashOff)

\* The next instruction of the configuration.
Advance(op) ==
  /\ CanRun
  /\ mode = "config"
  /\ Instr.op = op
  /\ pc' = pc + 1
  /\ mode' = IF pc = End THEN "alerts" ELSE mode
  /\ UNCHANGED <<chip, stage, nmi, flashOff, alertVars, request, sync, slowEn, pwrVars>>

EnableReset ==
  /\ Advance("enable")
  /\ resetEn' = TRUE
  /\ UNCHANGED <<timerVars, toggle>>

Synchronise ==
  /\ Advance("sync")
  /\ toggle' = ~toggle
  /\ UNCHANGED <<timerVars, resetEn>>

WriteReg ==
  /\ Advance("write")
  /\ Put(Instr.reg, Instr.val)
  /\ UNCHANGED <<resetEn, toggle>>

ReadBack ==
  /\ Advance("read")
  /\ Free(Instr.reg)
  /\ UNCHANGED <<timerVars, resetEn, toggle>>

Goto(from, to) ==
  /\ CanRun
  /\ mode \in from
  /\ mode' = to
  /\ UNCHANGED <<chip, pc, request, syncVars>>

\* shutdown_init()
ConfigureAlerts ==
  /\ Goto({"alerts"}, "run")
  /\ classes' = TRUE
  /\ UNCHANGED <<timerVars, stage, nmi, flashOff, phase, halted, pwrVars>>

\* A loop without a bound, such as wait_for_done(), and its end.
StartPoll ==
  /\ Goto({"run"}, "poll")
  /\ UNCHANGED <<timerVars, stage, nmi, flashOff, alertVars, pwrVars>>

EndPoll ==
  /\ Goto({"poll"}, "run")
  /\ UNCHANGED <<timerVars, stage, nmi, flashOff, alertVars, pwrVars>>

\* The ROM_EXT takes over; the watchdog goes on.
EnterFlash ==
  /\ Goto({"run"}, "run")
  /\ stage = "rom"
  /\ stage' = "flash"
  /\ UNCHANGED <<timerVars, nmi, flashOff, alertVars, pwrVars>>

\* watchdog_disable() before bootstrap().
EnterBootstrap ==
  /\ Goto({"run"}, "bootstrap")
  /\ stage = "rom"
  /\ Put("ctrl", 0)
  /\ UNCHANGED <<stage, nmi, flashOff, alertVars, pwrVars>>

\* An error or a failed check ends the boot.
Fail ==
  /\ Goto({"alerts", "run", "bootstrap"}, "report")
  /\ UNCHANGED <<timerVars, stage, nmi, flashOff, alertVars, pwrVars>>

\* The watchdog barks.  Until rom_main() the exception handler in assembly
\* takes the NMI; the processor takes no other one before it is reset.
Nmi ==
  /\ intr
  /\ ~nmi
  /\ nmi' = TRUE
  /\ \/ mode = "config" /\ pc <= StartEnd + 1 /\ Goto({"config"}, "reset")
     \/ ~(mode = "config" /\ pc <= StartEnd) /\ Goto({mode}, "report")
  /\ UNCHANGED <<timerVars, stage, flashOff, alertVars, pwrVars>>

-----------------------------------------------------------------------------
(* Alerts.  The class that has alarms goes through its phases, each of     *)
(* them at its own pace, and raises the signal of the phase.               *)

Alarm == phase' = IF classes /\ chip.signals > 0 /\ phase = 0 THEN 1 ELSE phase

RaiseAlert ==
  /\ classes
  /\ chip.signals > 0
  /\ phase = 0
  /\ Alarm
  /\ UNCHANGED <<timerVars, chip, cpuVars, flashOff, classes, halted, request, syncVars, pwrVars>>

\* Mutant: every signal is mapped one phase later.
SignalLater == phase - 1

\* The escalation signal of the phase that begins.
Signal == phase

\* E0 is an NMI that is not enabled, E1 and E2 go to the life cycle
\* controller, E3 to the power manager.
Escalate ==
  /\ phase \in 1 .. 3
  /\ phase' = phase + 1
  /\ halted' = (halted \/ (Signal \in {1, 2} /\ Signal < chip.signals))
  /\ request' = request \cup (IF Signal = 3 /\ Signal < chip.signals THEN {"esc"} ELSE {})
  /\ UNCHANGED <<timerVars, chip, cpuVars, flashOff, classes, syncVars, pwrVars>>

-----------------------------------------------------------------------------
(* shutdown_finalize(), and the handler in assembly from "reset" on.       *)

\* Mutant: flash is killed first.
FlashFirst == [report |-> "escalate", escalate |-> "kill", kill |-> "reset", reset |-> "hang"]

\* The report ends by itself, the time for the UART is bounded.
Following == [report |-> "escalate", escalate |-> "reset", reset |-> "kill", kill |-> "hang"]

ShuttingDown == {"report", "escalate", "reset", "kill", "hang"}

\* Killing the key manager, after "escalate", changes nothing here, and the
\* hang loop asks for the reset that was asked for before.
ShutdownStep ==
  /\ CanRun
  /\ mode \in DOMAIN Following
  /\ mode' = Following[mode]
  /\ IF mode = "escalate" THEN Alarm ELSE phase' = phase
  /\ request' = request \cup (IF mode = "reset" THEN {"sw"} ELSE {})
  /\ flashOff' = (flashOff \/ mode = "kill")
  /\ UNCHANGED <<timerVars, chip, pc, stage, nmi, classes, halted, syncVars, pwrVars>>

-----------------------------------------------------------------------------
(* Power and reset manager.                                                *)

Raw == request \cup (IF bitten THEN {"wdog"} ELSE {})

\* Only peripherals are masked.
Mask(rs, enabled) == IF enabled THEN rs ELSE rs \ {"wdog"}

Seen == Mask(reqs[2], slowEn)

SlowEdge ==
  /\ TimerEdge(halted)
  /\ sync' = <<toggle, sync[1], sync[2]>>
  /\ slowEn' = IF sync[2] # sync[3] THEN resetEn ELSE slowEn
  /\ reqs' = <<Raw, reqs[1]>>
  /\ edges' = IF fsm = "init" /\ edges < InitEdges THEN edges + 1 ELSE edges
  /\ info' = IF fsm = "reset" THEN info \cup (Mask(reqs[1], slowEn') \ {"sw"}) ELSE info
  /\ UNCHANGED <<chip, cpuVars, flashOff, alertVars, request, resetEn, toggle, fsm>>

\* FastPwrStateActive, FastPwrStateDisClks
StopClocks ==
  /\ fsm = "active"
  /\ Seen # {}
  /\ fsm' = "stopping"
  /\ UNCHANGED <<timerVars, chip, cpuVars, flashOff, alertVars, request, syncVars, reqs, edges, info>>

\* FastPwrStateResetPrep: the resets are asserted, the reset manager records
\* the causes, from now on until they are released, and takes back its own
\* request.
EnterReset ==
  /\ fsm = "stopping"
  /\ Seen # {}
  /\ fsm' = "reset"
  /\ info' = (Seen \ {"sw"}) \cup (request \cap {"sw"})
  /\ ResetTimer
  /\ mode' = "config"
  /\ pc' = 1
  /\ stage' = "rom"
  /\ nmi' = FALSE
  /\ flashOff' = FALSE
  /\ classes' = FALSE
  /\ phase' = 0
  /\ halted' = FALSE
  /\ request' = {}
  /\ UNCHANGED <<chip, syncVars, reqs, edges>>

\* FastPwrStateReleaseLcRst
ReleaseReset ==
  /\ fsm = "reset"
  /\ fsm' = "init"
  /\ edges' = 0
  /\ info' = {}
  /\ UNCHANGED <<timerVars, chip, cpuVars, flashOff, alertVars, request, syncVars, reqs>>

\* Mutant: nothing is waited for.
ReadySoon == TRUE

\* OTP and life cycle controller are ready.
Ready == edges = InitEdges

\* ... FastPwrStateRomCheckGood
Activate ==
  /\ fsm = "init"
  /\ Ready
  /\ fsm' = "active"
  /\ UNCHANGED <<timerVars, chip, cpuVars, flashOff, alertVars, request, syncVars, reqs, edges, info>>

-----------------------------------------------------------------------------
Init ==
  /\ TimerReset
  /\ chip \in Chips
  /\ mode = "config"
  /\ pc = 1
  /\ stage = "rom"
  /\ nmi = FALSE
  /\ flashOff = FALSE
  /\ classes = FALSE
  /\ phase = 0
  /\ halted = FALSE
  /\ request = {}
  /\ resetEn = FALSE
  /\ toggle = FALSE
  /\ sync = <<FALSE, FALSE, FALSE>>
  /\ slowEn = FALSE
  /\ reqs = <<{}, {}>>
  /\ fsm = "init"
  /\ edges = 0
  /\ info = {}

Config == \/ EnableReset \/ Synchronise \/ WriteReg \/ ReadBack
          \/ ConfigureAlerts
Pwrmgr == StopClocks \/ EnterReset \/ ReleaseReset \/ Activate

Next ==
  \/ Config
  \/ StartPoll \/ EndPoll \/ EnterFlash \/ EnterBootstrap
  \/ Fail \/ Nmi \/ ShutdownStep
  \/ RaiseAlert \/ Escalate
  \/ SlowEdge \/ Pwrmgr

Spec == Init /\ [][Next]_vars

\* Clocks run, the power manager and the escalation timer advance, and the
\* processor executes what it can.  Nothing says that a poll ends.
Fairness ==
  /\ WF_vars(SlowEdge)
  /\ WF_vars(Pwrmgr)
  /\ WF_vars(Escalate)
  /\ WF_vars(Config)
  /\ WF_vars(ShutdownStep)

FairSpec == Spec /\ Fairness

-----------------------------------------------------------------------------
(* Properties.                                                             *)

TypeOK ==
  /\ TimerTypeOK
  /\ chip \in Chips
  /\ mode \in {"config", "alerts", "run", "poll", "bootstrap"} \cup ShuttingDown
  /\ pc \in 1 .. End + 1
  /\ mode = "config" => pc <= End
  /\ mode \in {"alerts", "run", "poll", "bootstrap"} => pc = End + 1
  /\ stage \in {"rom", "flash"}
  /\ nmi \in BOOLEAN
  /\ flashOff \in BOOLEAN
  /\ classes \in BOOLEAN
  /\ phase \in 0 .. 4
  /\ halted \in BOOLEAN
  /\ request \in SUBSET {"esc", "sw"}
  /\ resetEn \in BOOLEAN
  /\ toggle \in BOOLEAN
  /\ sync \in BOOLEAN \X BOOLEAN \X BOOLEAN
  /\ slowEn \in BOOLEAN
  /\ reqs \in (SUBSET Causes) \X (SUBSET Causes)
  /\ fsm \in {"active", "stopping", "reset", "init"}
  /\ edges \in 0 .. InitEdges
  /\ info \in SUBSET Causes

\* The counter only ever runs with thresholds that have arrived, and starts
\* from 0 with those of the software that started it.  (The writes of
\* watchdog_configure() land in an order and at times of their own; a count
\* left over from rom_start.S, or a bite threshold of 0, bites at once.)
ArmsClean ==
  [][reg'["ctrl"] = 1 =>
       /\ \A r \in {"count", "bark", "bite"} : age'[r] = 0
       /\ reg["ctrl"] = 0 =>
            /\ reg'["count"] = 0
            /\ reg'["bite"] = IF pc <= 8 THEN AsmBite ELSE chip.threshold]_vars

\* The watchdog barks when it is too late to bite, for thresholds of OTP
\* that 9/8 does not make overflow (watchdog.c, 66).
BarkBehind == intr /\ 9 * chip.threshold < Size => bitten

Quiet == sync = <<toggle, toggle, toggle>>

\* A bite resets the chip while it boots: the power manager's request to
\* synchronise RESET_EN, which is lost when two of them fall between two
\* edges of the slow clock, has come through.
Guarded == mode \in {"run", "poll", "bootstrap"} /\ Quiet => slowEn

\* A reset has a cause that is still there, none that is left over from the
\* last one, and RESET_INFO names it.  (The flops of the requests are not
\* reset, and the reset manager takes back the request of software when it
\* records it.)
ResetsForCause ==
  [][fsm # "reset" /\ fsm' = "reset" =>
       /\ Seen \cap Raw # {}
       /\ Seen \cap Raw \subseteq info']_vars

\* Escalation was configured to end with a stopped processor.
Frozen == halted /\ chip.signals < 4

\* A poll that does not end is ended by the watchdog, if it is on, unless an
\* alert stopped processor and watchdog for good.
PollEnds == mode = "poll" /\ reg["ctrl"] = 1 ~> mode # "poll" \/ Frozen

\* shutdown_finalize() ends with a reset, in ROM and in flash, with watchdog
\* and without it, unless alerts are configured to stop the chip.
ShutdownEnds == mode \in ShuttingDown ~> mode \notin ShuttingDown \/ Frozen
=============================================================================
