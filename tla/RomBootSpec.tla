---------------------------- MODULE RomBootSpec ----------------------------
(***************************************************************************)
(* What the ROM promises about the ROM_EXT it starts                       *)
(* (sw/device/silicon_creator/rom/docs/_index.md): the image that runs is  *)
(* eligible on this chip in its life cycle state and not older than the    *)
(* minimum version in boot data, and it is the one of the two slots that   *)
(* the boot policy puts first, unless the first one was rejected.          *)
(***************************************************************************)
EXTENDS Integers

CONSTANT NoSlot  \* no slot

VARIABLES
  chip,      \* life cycle state and OTP values; never change here
  slots,     \* the images in flash
  min,       \* min_security_version_rom_ext in boot data
  mode,      \* who is in control
  image,     \* the slot of the ROM_EXT that runs
  rejected   \* slots the ROM has given up on in this boot

vars == <<chip, slots, min, mode, image, rejected>>

Slots == {"A", "B"}

\* Key types that are accepted in a life cycle state; "revoked" is a production
\* key that is marked invalid in OTP, which TEST states do not read.
Keys(lc) ==
  CASE lc = "Test" -> {"test", "prod", "revoked"}
    [] lc = "Rma"  -> {"test", "prod"}
    [] lc = "Dev"  -> {"dev", "prod"}
    [] OTHER       -> {"prod"}

Eligible(m) ==
  m.form /\ m.key \in Keys(chip.lc) /\ m.ver >= min /\ m.sig

\* The boot policy: the larger version first, slot A on a tie.
Precedes(s, t) ==
  slots[s].ver > slots[t].ver \/ (slots[s].ver = slots[t].ver /\ s = "A" /\ t = "B")

Turn(s) ==
  /\ mode = "rom"
  /\ s \notin rejected
  /\ \A t \in Slots : Precedes(t, s) => t \in rejected

\* OTBN may fail, so that an eligible image is rejected as well.
Engine == IF chip.lc = "Test" \/ chip.swRsa THEN "ibex" ELSE "otbn"

Init ==
  /\ mode = "rom"
  /\ image = NoSlot
  /\ rejected = {}

Reject(s) ==
  /\ Turn(s)
  /\ Eligible(slots[s]) => Engine = "otbn"
  /\ rejected' = rejected \cup {s}
  /\ UNCHANGED <<chip, slots, min, mode, image>>

Run(s) ==
  /\ Turn(s)
  /\ Eligible(slots[s])
  /\ mode' = "romext"
  /\ image' = s
  /\ rejected' = {}
  /\ UNCHANGED <<chip, slots, min>>

EnterBootstrap ==
  /\ mode = "rom" /\ rejected = {} /\ chip.bootstrapEn
  /\ mode' = "bootstrap"
  /\ UNCHANGED <<chip, slots, min, image, rejected>>

Halt ==
  /\ mode' = "halted"
  /\ image' = NoSlot
  /\ rejected' = {}
  /\ UNCHANGED <<chip, slots, min>>

Reset ==
  /\ mode' = "rom"
  /\ image' = NoSlot
  /\ rejected' = {}
  /\ UNCHANGED <<chip, slots, min>>

\* Images are only replaced by bootstrap and by the software that runs.
Update ==
  /\ mode \in {"romext", "bootstrap"}
  /\ mode = "bootstrap" => min' = min
  /\ UNCHANGED <<chip, mode, image, rejected>>

Next ==
  \/ \E s \in Slots : Reject(s) \/ Run(s)
  \/ EnterBootstrap
  \/ Halt
  \/ Reset
  \/ Update

Spec == Init /\ [][Next]_vars
=============================================================================
