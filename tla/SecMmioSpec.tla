---------------------------- MODULE SecMmioSpec ----------------------------
(***************************************************************************)
(* What the secure MMIO library promises: a map from registers to the      *)
(* values they are expected to hold.  A value is in the map only if the    *)
(* register held it when it was looked at again; a check compares every    *)
(* register of the map once, in any order; the only other reasons for a    *)
(* trap are counters that differ and a map that is full.                   *)
(***************************************************************************)
EXTENDS Integers

CONSTANTS
  Regs,    \* register addresses
  Values,  \* register values
  Size,    \* capacity of the map
  None

VARIABLES
  reg,       \* content of each register; anything may change it at any time
  expected,  \* the map
  room,      \* number of registers that can still be added to it
  phase,     \* "off", "idle", "confirm", "check", "trap"
  at,        \* register to confirm, and the number of writes to count then
  todo,      \* registers that the check in progress has not compared yet
  owed,      \* writes that were announced, minus writes that were counted
  checks     \* checks that succeeded

Empty == [r \in {} |-> None]

Off ==
  /\ expected = Empty /\ room = Size /\ phase = "off" /\ at = None
  /\ todo = {} /\ owed = 0 /\ checks = 0

Init == Off

Start ==
  /\ phase = "off" /\ phase' = "idle"
  /\ UNCHANGED <<expected, room, at, todo, owed, checks>>

Record(r, v, n) ==
  /\ phase = "idle" /\ phase' = "confirm"
  /\ IF r \in DOMAIN expected THEN room' = room ELSE room > 0 /\ room' = room - 1
  /\ expected' = [x \in DOMAIN expected \cup {r} |-> IF x = r THEN v ELSE expected[x]]
  /\ at' = <<r, n>>
  /\ UNCHANGED <<todo, owed, checks>>

Full(r) ==
  /\ phase = "idle" /\ phase' = "trap"
  /\ r \notin DOMAIN expected /\ room = 0
  /\ UNCHANGED <<expected, room, at, todo, owed, checks>>

Confirm ==
  /\ phase = "confirm"
  /\ IF reg[at[1]] = expected[at[1]]
     THEN phase' = "idle" /\ owed' = owed - at[2] /\ at' = None
     ELSE phase' = "trap" /\ at' = None /\ UNCHANGED owed
  /\ UNCHANGED <<reg, expected, room, todo, checks>>

Announce ==
  /\ phase = "idle"
  /\ owed' \in Int /\ owed' >= owed
  /\ UNCHANGED <<expected, room, phase, at, todo, checks>>

BeginCheck ==
  /\ phase = "idle" /\ phase' = "check"
  /\ todo' = DOMAIN expected
  /\ UNCHANGED <<expected, room, at, owed, checks>>

CheckOne(r) ==
  /\ phase = "check" /\ r \in todo
  /\ IF reg[r] = expected[r]
     THEN phase' = phase /\ todo' = todo \ {r}
     ELSE phase' = "trap" /\ todo' = {}
  /\ UNCHANGED <<reg, expected, room, at, owed, checks>>

EndCheck ==
  /\ phase = "check" /\ todo = {} /\ phase' = "idle"
  /\ checks' = checks + 1
  /\ UNCHANGED <<expected, room, at, todo, owed>>

\* Counters that differ trap; so does a number of checks that is not the one the
\* caller expects.
CheckCounters ==
  /\ phase = "idle"
  /\ \/ owed = 0 /\ phase' = "idle" /\ checks' = checks + 1
     \/ phase' = "trap" /\ UNCHANGED checks
  /\ UNCHANGED <<expected, room, at, todo, owed>>

NextStage ==
  /\ phase = "idle"
  /\ checks' = 0
  /\ UNCHANGED <<expected, room, phase, at, todo, owed>>

Reset == Off'

Next ==
  \/ Start \/ Confirm \/ Announce \/ BeginCheck \/ EndCheck \/ CheckCounters
  \/ NextStage \/ Reset
  \/ \E r \in Regs : Full(r) \/ CheckOne(r)
  \/ \E r \in Regs, v \in Values, n \in {0, 1} : Record(r, v, n)

\* Steps that change nothing but reg are those of other software, of hardware,
\* and of faults.
Spec == Init /\ [][Next]_<<expected, room, phase, at, todo, owed, checks>>
=============================================================================
