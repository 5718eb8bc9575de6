---------------------------- MODULE ResetPathInv ----------------------------
(***************************************************************************)
(* The inductive invariant of ResetPath.  pc numbers the instructions of   *)
(* RomStart (1 to 5) and Configure (6 to 16); it stands still when the     *)
(* configuration is over or was left, so its conjuncts say what every      *)
(* later state owes to it.                                                 *)
(***************************************************************************)
EXTENDS ResetPath

\* The last value written to a register is in it or on its way.
Holds(r, v) == IF Free(r) THEN reg[r] = v ELSE new[r] = v

\* The write of r is not younger than the one of s, or has arrived.
Before(r, s) == Free(r) \/ age[r] >= age[s]

\* Nothing runs between reset and activation.
Still ==
  fsm \in {"reset", "init"} =>
    /\ pc = 1
    /\ mode = "config"
    /\ ~classes
    /\ phase = 0
    /\ ~halted
    /\ request = {}
    /\ ~bitten

\* rom_start.S: the writes arrive in the order in which they were posted.
StartTimer ==
  /\ pc <= 10 => Free("count")
  /\ pc <= 3 => \A r \in Regs : Free(r) /\ reg[r] = 0
  /\ pc \in 4 .. 5 => Holds("ctrl", 0) /\ Free("ctrl") /\ reg["count"] = 0
  /\ pc = 4 => Free("bite")
  /\ pc \in 4 .. 11 => Holds("bark", AsmBark)
  /\ pc \in 5 .. 12 => Holds("bite", AsmBite)
  /\ pc \in 6 .. 8 =>
       /\ Holds("ctrl", 1)
       /\ IF Free("ctrl") THEN Free("bark") /\ Free("bite")
          ELSE /\ reg["ctrl"] = 0
               /\ reg["count"] = 0
               /\ Before("bark", "ctrl")
               /\ Before("bite", "ctrl")

\* watchdog_configure(): the write of the bite threshold that is read back is
\* three edges behind the one of the count, and so is the enable bit, which
\* is as long as the arbiter can hold the count.
ConfigTimer ==
  /\ pc \in 9 .. 14 => Holds("ctrl", 0)
  /\ pc \in 10 .. 14 => Free("ctrl")
  /\ pc \in 9 .. 11 => Free("bark") /\ Free("bite")
  /\ pc \in 11 .. 14 => Holds("count", 0)
  /\ pc = 12 => Free("bite")
  /\ pc >= 12 => Holds("bark", Bark(chip.threshold))
  /\ pc >= 13 => Holds("bite", chip.threshold)
  /\ pc = 13 =>
       IF Free("bite") THEN /\ Free("bark")
                            /\ Free("count") \/ age["count"] > LandsAt
       ELSE Before("bark", "bite") /\ Before("count", "bite")
  /\ pc >= 14 => Free("bite") /\ Free("bark")
  /\ pc = 14 => Free("count") \/ age["count"] > LandsAt
  /\ pc = 15 =>
       IF Free("ctrl") THEN Free("count")
       ELSE /\ reg["ctrl"] = 0
            /\ Holds("count", 0)
            /\ Free("count") \/ age["count"] >= age["ctrl"] + LandsAt
  /\ pc >= 16 => Free("count") /\ (~Free("ctrl") => new["ctrl"] = 0)

\* What asks for a reset has ended the configuration.
Ended ==
  /\ "sw" \in request => mode \in ShuttingDown
  /\ "esc" \in request => halted
  /\ phase >= 2 /\ chip.signals > 1 => halted

\* Requests that are on their way while the processor runs are still there;
\* those from before a reset are gone when it starts.
Requests ==
  /\ fsm \in {"active", "stopping"} => reqs[1] \subseteq Raw /\ reqs[2] \subseteq reqs[1]
  /\ fsm = "init" /\ edges >= 1 => reqs[1] = {}
  /\ fsm = "init" /\ edges >= 2 => reqs[2] = {}

\* A request to synchronise reaches the slow clock not later than a request
\* for a reset that came after it.
Overtaken ==
  \A q \in {"sw", "esc"} : /\ q \in reqs[1] => sync[1] = toggle
                           /\ q \in reqs[2] => sync[2] = toggle

EnableSet == slowEn \/ toggle \/ sync[1] \/ sync[2] \/ pc >= 2 => resetEn

\* As long as RESET_EN has not come through.
NotYet ==
  ~slowEn =>
    /\ ~sync[3]
    /\ pc <= 2 => \/ ~toggle
                  \/ sync[2] /\ (fsm = "reset" \/ (fsm = "init" /\ edges = 0))
    /\ pc \in 3 .. 7 => toggle
    /\ pc \in 8 .. End => ~toggle
    /\ pc = End + 1 => toggle

\* Whatever still has to arrive, from a write of rom_start.S to a request for
\* a reset, finds the state it was meant for: what watchdog_configure() relies
\* on when it reads back only some of its writes (watchdog.c, 72 to 109).
IInv ==
  /\ TypeOK
  /\ Still
  /\ StartTimer
  /\ ConfigTimer
  /\ Ended
  /\ Requests
  /\ Overtaken
  /\ EnableSet
  /\ NotYet
  /\ BarkBehind
=============================================================================
