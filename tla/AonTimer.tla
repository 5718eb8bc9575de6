------------------------------ MODULE AonTimer ------------------------------
(***************************************************************************)
(* The watchdog of hw/ip/aon_timer as software and the power manager see   *)
(* it: registers in the always-on clock domain behind synchronisers        *)
(* (prim_reg_cdc), a counter with bark and bite thresholds, and the        *)
(* reset request that stays until the timer is reset.                      *)
(*                                                                         *)
(* One SlowEdge of ResetPath is one edge of the always-on clock; software  *)
(* runs in between.  The wakeup timer, pausing in sleep and interrupt      *)
(* tests are left out.                                                     *)
(***************************************************************************)
EXTENDS Integers

CONSTANTS Size      \* number of values of the counter (2^32 in hardware)

ASSUME SizeAssumption == Size \in Nat \ {0, 1}

VARIABLES reg,      \* the registers in the always-on domain
          new,      \* value of a write on its way, 0 if there is none
          age,      \* number of edges it has been on its way, 0: none
          intr,     \* INTR_STATE.wdog_timer_bark
          bitten,   \* aon_rst_req_q, the reset request
          esc       \* lc_escalate_en in the two flops of its synchroniser

timerVars == <<reg, new, age, intr, bitten, esc>>

Regs == {"ctrl", "count", "bark", "bite"}
Word == 0 .. Size - 1

\* A write is in two flops after two edges and in the register with the
\* third one.
LandsAt == 3

\* The counter is written by hardware too.  Its arbiter may be busy sending a
\* count to software, three edges at most, and holds a write meanwhile.
HeldUntil == 6

TimerReset ==
  /\ reg = [r \in Regs |-> 0]
  /\ new = [r \in Regs |-> 0]
  /\ age = [r \in Regs |-> 0]
  /\ intr = FALSE
  /\ bitten = FALSE
  /\ esc = <<FALSE, FALSE>>

\* The reset of the domain, as a step.
ResetTimer ==
  /\ reg' = [r \in Regs |-> 0]
  /\ new' = [r \in Regs |-> 0]
  /\ age' = [r \in Regs |-> 0]
  /\ intr' = FALSE
  /\ bitten' = FALSE
  /\ esc' = <<FALSE, FALSE>>

\* The bus stalls every access to a register with a write on its way.
Free(r) == age[r] = 0

Put(r, v) ==
  /\ Free(r)
  /\ age' = [age EXCEPT ![r] = 1]
  /\ new' = [new EXCEPT ![r] = v]
  /\ UNCHANGED <<reg, intr, bitten, esc>>

\* Writes that reach their register with this edge; late: the arbiter of the
\* counter is busy.
Landing(late) ==
  {r \in Regs : age[r] >= LandsAt /\ ~(r = "count" /\ late /\ age[r] < HeldUntil)}

Counts == reg["ctrl"] = 1 /\ ~esc[2]

\* Mutant: the count does not wrap.
CountedOn(n) == n + 1

Counted(n) == (n + 1) % Size

\* An edge of the always-on clock; escalated is what the life cycle
\* controller sends.
TimerEdge(escalated) ==
  \E late \in BOOLEAN : LET L == Landing(late) IN
  /\ reg' = [r \in Regs |-> IF r \in L THEN new[r]
                            ELSE IF r = "count" /\ Counts THEN Counted(reg[r])
                            ELSE reg[r]]
  /\ new' = [r \in Regs |-> IF r \in L THEN 0 ELSE new[r]]
  /\ age' = [r \in Regs |-> IF r \in L \/ Free(r) THEN 0 ELSE age[r] + 1]
  /\ intr' = (intr \/ (Counts /\ reg["count"] >= reg["bark"]))
  /\ bitten' = (bitten \/ (Counts /\ reg["count"] >= reg["bite"]))
  /\ esc' = <<escalated, esc[1]>>

TimerTypeOK ==
  /\ reg \in [Regs -> Word]
  /\ reg["ctrl"] \in {0, 1}
  /\ new \in [Regs -> Word]
  /\ new["ctrl"] \in {0, 1}
  /\ age \in [Regs -> 0 .. HeldUntil]
  /\ \A r \in Regs \ {"count"} : age[r] <= LandsAt
  /\ intr \in BOOLEAN
  /\ bitten \in BOOLEAN
  /\ esc \in BOOLEAN \X BOOLEAN
=============================================================================
