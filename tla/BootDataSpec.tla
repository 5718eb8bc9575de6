---------------------------- MODULE BootDataSpec ----------------------------
(***************************************************************************)
(* What boot data storage promises to its callers                          *)
(* (sw/device/silicon_creator/lib/boot_data.h): one register that survives *)
(* resets.  A write that returns kErrorOk has replaced the register; a     *)
(* write that was interrupted by a reset or returned an error has replaced *)
(* it or left it alone, never anything else; a read returns the register,  *)
(* or the default when nothing was ever written and the life cycle state   *)
(* allows the default.  Every replacement increments the counter by one.   *)
(***************************************************************************)
EXTENDS Integers

CONSTANTS
  Versions,        \* values of the fields min_security_version_*
  DefaultVersion,  \* CREATOR_SW_CFG_MIN_SEC_VER_* in OTP
  DefaultCounter,  \* kBootDataDefaultCounterVal (5)
  ProdDefaultEn,   \* CREATOR_SW_CFG_DEFAULT_BOOT_DATA_IN_PROD_EN in OTP
  None             \* no value

VARIABLES
  reg,        \* the stored boot data, or None before the first write
  call,       \* the call in progress, or None
  committed,  \* whether the write in progress has replaced the register
  ret         \* what the last call returned, None after a reset

vars == <<reg, call, committed, ret>>

LcStates == {"Test", "Dev", "Prod", "ProdEnd", "Rma"}
Content  == [ctr : Nat, ver : Versions]
Calls    == [op : {"read"}, lc : LcStates] \cup [op : {"write"}, ver : Versions]
Errors   == {"FlashError", "WriteCheck"}

Default == [ctr |-> DefaultCounter, ver |-> DefaultVersion]

\* The default is refused in production states unless OTP allows it.
DefaultAllowed(lc) == lc \in {"Prod", "ProdEnd"} => ProdDefaultEn

\* The register after a write of version v over r.
Replacement(r, v) ==
  [ctr |-> (IF r = None THEN DefaultCounter ELSE r.ctr) + 1, ver |-> v]

ReadResult(r, lc) ==
  IF r # None            THEN [op |-> "read", res |-> "Ok", entry |-> r]
  ELSE IF DefaultAllowed(lc) THEN [op |-> "read", res |-> "Ok", entry |-> Default]
  ELSE [op |-> "read", res |-> "NotFound", entry |-> None]

Init ==
  /\ reg = None
  /\ call = None
  /\ committed = FALSE
  /\ ret = None

Call(c) ==
  /\ call = None
  /\ call' = c
  /\ ret' = None
  /\ UNCHANGED <<reg, committed>>

Commit ==
  /\ call # None
  /\ call.op = "write"
  /\ ~committed
  /\ reg' = Replacement(reg, call.ver)
  /\ committed' = TRUE
  /\ UNCHANGED <<call, ret>>

ReturnRead ==
  /\ call # None
  /\ call.op = "read"
  /\ ret' = ReadResult(reg, call.lc)
  /\ call' = None
  /\ UNCHANGED <<reg, committed>>

ReturnWrite ==
  /\ call # None
  /\ call.op = "write"
  /\ committed
  /\ ret' = [op |-> "write", res |-> "Ok", entry |-> None]
  /\ call' = None
  /\ committed' = FALSE
  /\ UNCHANGED reg

\* A call that ends without kErrorOk took effect wholly or not at all.
WhollyOrNotAtAll ==
  \/ reg' = reg
  \/ /\ call # None
     /\ call.op = "write"
     /\ ~committed
     /\ reg' = Replacement(reg, call.ver)

Fail(e) ==
  /\ call # None
  /\ WhollyOrNotAtAll
  /\ ret' = [op |-> call.op, res |-> e, entry |-> None]
  /\ call' = None
  /\ committed' = FALSE

Reset ==
  /\ WhollyOrNotAtAll
  /\ call' = None
  /\ committed' = FALSE
  /\ ret' = None

Next ==
  \/ \E c \in Calls : Call(c)
  \/ Commit
  \/ ReturnRead
  \/ ReturnWrite
  \/ \E e \in Errors : Fail(e)
  \/ Reset

Spec == Init /\ [][Next]_vars
=============================================================================
