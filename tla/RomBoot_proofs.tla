--------------------------- MODULE RomBoot_proofs ---------------------------
(***************************************************************************)
(* Proofs about RomBoot: the invariant of RomBootInv is inductive.         *)
(***************************************************************************)
EXTENDS RomBootInv, TLAPS

Counters == [writes : Nat, expected : Nat, checks : Nat]

\* What the counter operators compute, field by field.
LEMMA WritesType ==
  ASSUME NEW m \in Counters, NEW n \in Nat, NEW e \in Nat
  PROVE  /\ Writes(m, n, e) \in Counters
         /\ Writes(m, n, e).writes = m.writes + n
         /\ Writes(m, n, e).expected = m.expected + e
         /\ Writes(m, n, e).checks = m.checks
<1>1. m.writes + n \in Nat /\ m.expected + e \in Nat
  BY DEF Counters
<1> QED BY <1>1 DEF Counters, Writes

LEMMA ChecksType ==
  ASSUME NEW m \in Counters, NEW n \in Nat
  PROVE  /\ Checks(m, n) \in Counters
         /\ Checks(m, n).writes = m.writes
         /\ Checks(m, n).expected = m.expected
         /\ Checks(m, n).checks = m.checks + n
<1>1. m.checks + n \in Nat
  BY DEF Counters
<1> QED BY <1>1 DEF Counters, Checks

LEMMA IncrementType ==
  ASSUME NEW c \in [Funcs -> Nat], NEW f \in Funcs, NEW n \in Nat
  PROVE  /\ Increment(c, f, n) \in [Funcs -> Nat]
         /\ \A h \in Funcs : Increment(c, f, n)[h] = IF h = f THEN c[f] + n ELSE c[h]
<1>1. c[f] + n \in Nat
  OBVIOUS
<1> QED BY <1>1 DEF Increment

LEMMA PrepCallType ==
  ASSUME NEW c \in [Funcs -> Nat], NEW f \in Funcs, NEW g \in Funcs, f # g
  PROVE  /\ PrepCall(c, f, g) \in [Funcs -> Nat]
         /\ \A h \in Funcs : PrepCall(c, f, g)[h] =
              IF h = g THEN 1 ELSE IF h = f THEN c[f] + 2 ELSE c[h]
<1>1. c[f] + 2 \in Nat /\ 1 \in Nat
  OBVIOUS
<1> QED BY <1>1 DEF PrepCall

LEMMA FuncNames ==
  /\ "RomMain" \in Funcs /\ "RomInit" \in Funcs /\ "RomVerify" \in Funcs
  /\ "RomTryBoot" \in Funcs /\ "RomPreBootCheck" \in Funcs /\ "RomBoot" \in Funcs
  BY DEF Funcs

LEMMA OrderedType == \A i \in {0, 1} : Ordered(i) \in Slots
<1> TAKE i \in {0, 1}
<1>1. \E s \in Slots : s # "A"
  BY DEF Slots
<1>2. \E s \in Slots : s # "B"
  BY DEF Slots
<1> QED BY <1>1, <1>2 DEF Ordered, Slots

\* The manifest that rom_boot() gets has one of the three translations.
LEMMA ImageType ==
  ASSUME TypeOK
  PROVE  /\ Current \in Slots /\ Image \in Slots
         /\ slots[Image] \in ManifestType /\ slots[Current] \in ManifestType
         /\ slots[Image].at \in {"on", "off", "malformed"}
<1>1. Current \in Slots /\ Image \in Slots
  BY OrderedType DEF TypeOK, Image, Current
<1>2. slots[Image] \in ManifestType /\ slots[Current] \in ManifestType
  BY <1>1, RomBootAssumption DEF TypeOK
<1> QED BY <1>1, <1>2 DEF ManifestType

LEMMA TypeInit == Init => TypeOK
  BY RomBootAssumption
     DEF Init, TypeOK, NoLoc, ResetRegs, ResetCfi, ResetMmio, Slots, InRom

-----------------------------------------------------------------------------
(* TypeOK, one lemma for each group of variables *)

Locs == [attempt : {0, 1}, result : {"none", "ok", "bad"},
         flashExec : {"zero", "ones", "unlock"}, measured : Slots \cup {NoSlot}]

Regs == [exec : {"zero", "ones", "unlock"}, wdog : BOOLEAN, otbnLocked : BOOLEAN,
         binding : Slots \cup {NoSlot}, attest : {"none", "manifest", "measurement"},
         remap : Slots \cup {NoSlot}, text : Slots \cup {NoSlot},
         textAt : {"none", "load", "virtual"}]

Rams == [reasons : SUBSET ({"PowerOn"} \cup Causes), owner : {"random", "wiped", "used"}]

LEMMA TypeFlash ==
  ASSUME TypeOK, Next
  PROVE  chip' \in Chips /\ slots' \in [Slots -> Manifests] /\ min' \in Versions
<1>1. CASE UNCHANGED Flash
  BY <1>1 DEF Flash, TypeOK
<1>2. CASE UpdateSlot \/ RaiseMin
  BY <1>2 DEF UpdateSlot, RaiseMin, TypeOK, Slots
<1>3. UNCHANGED Flash \/ UpdateSlot \/ RaiseMin
  BY DEF Next, RomInit, WipeRetention, StoreReasons, ClearReasons, InitEnd, EnterBootstrap,
         TryBoot, VerifyEarlyReturn, Verify, Accept, SecondAttempt, BothFail, BindKeymgr,
         Translate, PreBootCheck, Jump, ErrorReturn, Reset, UseRam
<1> QED BY <1>1, <1>2, <1>3

LEMMA TypeRetention ==
  ASSUME TypeOK, Next
  PROVE  reasons' \subseteq {"PowerOn"} \cup Causes /\ ram' \in Rams
<1>1. reasons \subseteq {"PowerOn"} \cup Causes /\ ram \in Rams
  BY DEF TypeOK, Rams
<1>2. CASE UNCHANGED Retention
  BY <1>1, <1>2 DEF Retention
<1>3. CASE WipeRetention \/ StoreReasons \/ ClearReasons \/ UseRam
  BY <1>1, <1>3 DEF WipeRetention, StoreReasons, ClearReasons, UseRam, Rams, Retention
<1>4. CASE \E cause \in {"PowerOn"} \cup Causes : Reset(cause)
  <2>1. PICK cause \in {"PowerOn"} \cup Causes : Reset(cause)
    BY <1>4
  <2>2. reasons' \subseteq {"PowerOn"} \cup Causes
    BY <1>1, <2>1 DEF Reset
  <2>3. ram' = ram \/ ram' = [reasons |-> {}, owner |-> "random"]
    BY <2>1 DEF Reset
  <2> QED BY <1>1, <2>2, <2>3 DEF Rams
<1>5. \/ UNCHANGED Retention
      \/ WipeRetention \/ StoreReasons \/ ClearReasons \/ UseRam
      \/ \E cause \in {"PowerOn"} \cup Causes : Reset(cause)
  BY DEF Next, RomInit, InitEnd, EnterBootstrap, TryBoot, VerifyEarlyReturn, Verify, Accept,
         SecondAttempt, BothFail, BindKeymgr, Translate, PreBootCheck, Jump, ErrorReturn,
         UpdateSlot, RaiseMin
<1> QED BY <1>2, <1>3, <1>4, <1>5

LEMMA TypePc ==
  ASSUME TypeOK, Next
  PROVE  pc' \in InRom \cup {"bootstrap", "romext", "shutdown", "trap"}
<1> DEFINE Label == pc' \in InRom \cup {"bootstrap", "romext", "shutdown", "trap"}
<1> USE DEF Goto, Trap, Shutdown, InRom
<1>1. CASE UNCHANGED pc
  BY <1>1 DEF TypeOK
<1>2. CASE RomInit \/ WipeRetention \/ StoreReasons \/ ClearReasons \/ InitEnd
  BY <1>2 DEF RomInit, WipeRetention, StoreReasons, ClearReasons, InitEnd
<1>3. CASE EnterBootstrap \/ TryBoot \/ VerifyEarlyReturn \/ Verify
  BY <1>3 DEF EnterBootstrap, TryBoot, VerifyEarlyReturn, Verify
<1>4. CASE Accept \/ SecondAttempt \/ BothFail \/ BindKeymgr \/ PreBootCheck \/ Jump
  BY <1>4 DEF Accept, SecondAttempt, BothFail, BindKeymgr, PreBootCheck, Jump
<1>5. CASE Translate
  BY <1>5, ImageType DEF Translate
<1>6. CASE ErrorReturn \/ \E cause \in {"PowerOn"} \cup Causes : Reset(cause)
  BY <1>6 DEF ErrorReturn, Reset
<1>7. CASE UpdateSlot \/ RaiseMin \/ UseRam
  BY <1>1, <1>7 DEF UpdateSlot, RaiseMin, UseRam
<1> QED BY <1>1, <1>2, <1>3, <1>4, <1>5, <1>6, <1>7 DEF Next

LEMMA VerdictType ==
  ASSUME TypeOK, NEW ok \in BOOLEAN, Verdict(ok)
  PROVE  loc' \in Locs
<1>1. loc \in Locs /\ Current \in Slots
  BY ImageType DEF TypeOK, Locs
<1> QED BY <1>1 DEF Verdict, Locs

LEMMA TypeLoc ==
  ASSUME TypeOK, Next
  PROVE  loc' \in Locs
<1>1. loc \in Locs
  BY DEF TypeOK, Locs
<1>2. CASE UNCHANGED loc
  BY <1>1, <1>2
<1>3. CASE VerifyEarlyReturn
  BY <1>1, <1>3 DEF VerifyEarlyReturn, Locs
<1>4. CASE Verify
  <2>1. UNCHANGED loc \/ \E ok \in BOOLEAN : Verdict(ok)
    <3>1. slots[Current].sig \in BOOLEAN
      BY ImageType DEF ManifestType
    <3> QED BY <1>4, <3>1 DEF Verify, Trap
  <2> QED BY <1>1, <2>1, VerdictType
<1>5. CASE SecondAttempt
  BY <1>1, <1>5 DEF SecondAttempt, Trap, Locs
<1>6. CASE \E cause \in {"PowerOn"} \cup Causes : Reset(cause)
  BY <1>6 DEF Reset, NoLoc, Locs
<1>7. CASE Translate
  BY <1>1, <1>7, ImageType DEF Translate, Trap
<1>8. \/ UNCHANGED loc \/ VerifyEarlyReturn \/ Verify \/ SecondAttempt \/ Translate
      \/ \E cause \in {"PowerOn"} \cup Causes : Reset(cause)
  BY DEF Next, RomInit, WipeRetention, StoreReasons, ClearReasons, InitEnd, EnterBootstrap,
         TryBoot, Accept, BothFail, BindKeymgr, PreBootCheck, Jump, ErrorReturn,
         UpdateSlot, RaiseMin, UseRam, Trap, Shutdown
<1> QED BY <1>2, <1>3, <1>4, <1>5, <1>6, <1>7, <1>8

LEMMA TypeRegs ==
  ASSUME TypeOK, Next
  PROVE  regs' \in Regs
<1>1. regs \in Regs /\ loc \in Locs /\ Image \in Slots /\ WatchdogOn \in BOOLEAN
  BY ImageType DEF TypeOK, Regs, Locs, WatchdogOn
<1>2. CASE UNCHANGED regs
  BY <1>1, <1>2
<1>3. CASE RomInit
  BY <1>1, <1>3 DEF RomInit, Regs
<1>4. CASE EnterBootstrap
  BY <1>1, <1>4 DEF EnterBootstrap, Regs
<1>5. CASE Verify
  <2>1. UNCHANGED regs \/ regs' = [regs EXCEPT !.otbnLocked = TRUE]
    BY <1>5 DEF Verify, Trap
  <2> QED BY <1>1, <2>1 DEF Regs
<1>6. CASE BindKeymgr
  <2>1. \/ UNCHANGED regs
        \/ regs' = [regs EXCEPT !.binding = Image, !.attest = "measurement"]
        \/ regs' = [regs EXCEPT !.binding = Image, !.attest = "manifest"]
    BY <1>6 DEF BindKeymgr, Trap
  <2> QED BY <1>1, <2>1 DEF Regs
<1>7. CASE Translate
  <2>1. \/ UNCHANGED regs
        \/ regs' = [regs EXCEPT !.remap = Image, !.text = Image, !.textAt = "virtual"]
        \/ regs' = [regs EXCEPT !.text = Image, !.textAt = "load"]
    BY <1>7, ImageType DEF Translate, Trap
  <2> QED BY <1>1, <2>1 DEF Regs
<1>8. CASE Jump
  <2>1. UNCHANGED regs \/ regs' = [regs EXCEPT !.exec = loc.flashExec]
    BY <1>8 DEF Jump, Trap
  <2> QED BY <1>1, <2>1 DEF Regs, Locs
<1>9. CASE \E cause \in {"PowerOn"} \cup Causes : Reset(cause)
  BY <1>9 DEF Reset, ResetRegs, Regs
<1>10. \/ UNCHANGED regs \/ RomInit \/ EnterBootstrap \/ Verify \/ BindKeymgr \/ Translate
       \/ Jump \/ \E cause \in {"PowerOn"} \cup Causes : Reset(cause)
  BY DEF Next, WipeRetention, StoreReasons, ClearReasons, InitEnd, TryBoot, VerifyEarlyReturn,
         Accept, SecondAttempt, BothFail, PreBootCheck, ErrorReturn, UpdateSlot, RaiseMin,
         UseRam, Trap, Shutdown
<1> QED BY <1>2, <1>3, <1>4, <1>5, <1>6, <1>7, <1>8, <1>9, <1>10

-----------------------------------------------------------------------------
(* The counters *)

LEMMA NumberTypes ==
  /\ WatchdogWrites + FlashInitWrites \in Nat /\ InfoPermsWrites \in Nat
  /\ KeymgrWrites \in Nat /\ RemapWrites \in Nat /\ OtbnExpected = 1
  BY DEF WatchdogWrites, FlashInitWrites, InfoPermsWrites, KeymgrWrites, RemapWrites,
         OtbnExpected

\* Every stretch of code leaves as many writes as it announces.
LEMMA StepMmio ==
  ASSUME TypeOK, MmioInv, Next
  PROVE  mmio' \in Counters /\ MmioInv'
<1> USE DEF Goto, Trap, Shutdown, InRom
<1>1. mmio \in Counters
  BY DEF TypeOK, Counters
<1> DEFINE Good(m, n) == m \in Counters /\ m.writes = m.expected /\ m.checks = n
<1>2. ASSUME NEW m, NEW k \in Nat, NEW n \in Nat, Good(m, k)
      PROVE  Good(Writes(m, n, n), k)
  BY <1>2, WritesType
<1>3. ASSUME NEW m, NEW k \in Nat, NEW n \in Nat, Good(m, k)
      PROVE  Good(Checks(m, n), k + n)
  <2>1. m \in Counters /\ m.checks = k
    BY <1>3
  <2> QED BY <1>3, <2>1, ChecksType
<1>4. Good(ResetMmio, 0)
  BY DEF ResetMmio, Counters
<1>5. ASSUME mmio' = mmio, pc' \in {pc, "trap", "shutdown"}
      PROVE  mmio' \in Counters /\ MmioInv'
  BY <1>1, <1>5 DEF MmioInv
<1>6. CASE RomInit
  <2>1. Good(Writes(ResetMmio, WatchdogWrites + FlashInitWrites,
                    WatchdogWrites + FlashInitWrites), 0)
    BY <1>2, <1>4, NumberTypes
  <2>2. Good(mmio', 0) /\ pc' = "reasons"
    BY <1>6, <2>1 DEF RomInit
  <2> QED BY <2>2 DEF MmioInv
<1>7. CASE WipeRetention \/ StoreReasons \/ ClearReasons
  BY <1>1, <1>7 DEF WipeRetention, StoreReasons, ClearReasons, MmioInv
<1>8. CASE InitEnd
  <2>1. Good(mmio, 0)
    BY <1>1, <1>8 DEF InitEnd, MmioInv
  <2>2. Good(Checks(mmio, 2), 0 + 2)
    BY <1>3, <2>1
  <2>3. \/ UNCHANGED mmio /\ pc' = "trap"
        \/ mmio' = Checks(mmio, 2) /\ pc' = "strap"
    BY <1>8 DEF InitEnd
  <2>4. CASE mmio' = Checks(mmio, 2) /\ pc' = "strap"
    <3>1. Good(mmio', 2)
      BY <2>2, <2>4
    <3> QED BY <2>4, <3>1 DEF MmioInv
  <2> QED BY <1>5, <2>3, <2>4
<1>9. CASE EnterBootstrap
  <2>1. Writes(mmio, 1, 0) \in Counters
    BY <1>1, WritesType
  <2>2. mmio' = Writes(mmio, 1, 0) /\ pc' = "bootstrap"
    BY <1>9 DEF EnterBootstrap
  <2> QED BY <2>1, <2>2 DEF MmioInv
<1>10. CASE TryBoot
  <2>1. Good(mmio, 2)
    BY <1>1, <1>10 DEF TryBoot, MmioInv
  <2>2. Good(Writes(mmio, InfoPermsWrites, InfoPermsWrites), 2)
    BY <1>2, <2>1, NumberTypes
  <2>3. \/ UNCHANGED mmio /\ pc' = "trap"
        \/ mmio' = Writes(mmio, InfoPermsWrites, InfoPermsWrites) /\ pc' = "verify"
    BY <1>10 DEF TryBoot
  <2>4. CASE mmio' = Writes(mmio, InfoPermsWrites, InfoPermsWrites) /\ pc' = "verify"
    <3>1. Good(mmio', 2)
      BY <2>2, <2>4
    <3> QED BY <2>4, <3>1 DEF MmioInv
  <2> QED BY <1>5, <2>3, <2>4
<1>11. CASE VerifyEarlyReturn
  BY <1>1, <1>11 DEF VerifyEarlyReturn, MmioInv
<1>12. CASE Verify
  <2>1. Good(mmio, 2)
    BY <1>1, <1>12 DEF Verify, MmioInv
  <2>2. Good(Writes(mmio, 1, 1), 2)
    BY <1>2, <2>1
  <2>3. \/ UNCHANGED mmio /\ pc' \in {"judge", "trap"}
        \/ mmio' = Writes(mmio, 1, 1) /\ pc' = "judge"
    BY <1>12, NumberTypes DEF Verify
  <2>4. Good(mmio', 2)
    BY <2>1, <2>2, <2>3
  <2> QED BY <2>3, <2>4 DEF MmioInv
<1>13. CASE Accept \/ SecondAttempt \/ BothFail
  BY <1>1, <1>13 DEF Accept, SecondAttempt, BothFail, MmioInv
<1>14. CASE BindKeymgr
  <2> DEFINE m == Writes(mmio, KeymgrWrites, KeymgrWrites)
  <2>1. Good(mmio, 2)
    BY <1>1, <1>14 DEF BindKeymgr, MmioInv
  <2>2. Good(m, 2)
    BY <1>2, <2>1, NumberTypes
  <2>3. Good(Checks(m, 1), 2 + 1)
    BY <1>3, <2>2
  <2>4. \/ UNCHANGED mmio /\ pc' = "trap"
        \/ mmio' = Checks(m, 1) /\ pc' = "remap"
    BY <1>14 DEF BindKeymgr
  <2>5. CASE mmio' = Checks(m, 1) /\ pc' = "remap"
    <3>1. Good(mmio', 3)
      BY <2>3, <2>5
    <3> QED BY <2>5, <3>1 DEF MmioInv
  <2> QED BY <1>5, <2>4, <2>5
<1>15. CASE Translate
  <2>1. Good(mmio, 3)
    BY <1>1, <1>15 DEF Translate, MmioInv
  <2>2. Good(Writes(mmio, RemapWrites, RemapWrites), 3)
    BY <1>2, <2>1, NumberTypes
  <2>3. \/ UNCHANGED mmio /\ pc' \in {"trap", "precheck"}
        \/ mmio' = Writes(mmio, RemapWrites, RemapWrites) /\ pc' = "precheck"
    BY <1>15, ImageType DEF Translate
  <2>4. Good(mmio', 3)
    BY <2>1, <2>2, <2>3
  <2> QED BY <2>3, <2>4 DEF MmioInv
<1>16. CASE PreBootCheck
  <2>1. Good(mmio, 3)
    BY <1>1, <1>16 DEF PreBootCheck, MmioInv
  <2>2. Good(Checks(mmio, 1), 3 + 1)
    BY <1>3, <2>1
  <2>3. \/ UNCHANGED mmio /\ pc' = "trap"
        \/ mmio' = Checks(mmio, 1) /\ pc' = "exec"
    BY <1>16 DEF PreBootCheck
  <2>4. CASE mmio' = Checks(mmio, 1) /\ pc' = "exec"
    <3>1. Good(mmio', 4)
      BY <2>2, <2>4
    <3> QED BY <2>4, <3>1 DEF MmioInv
  <2> QED BY <1>5, <2>3, <2>4
<1>17. CASE Jump
  <2> DEFINE m == Writes(mmio, 1, 1)
  <2>1. m \in Counters
    BY <1>1, WritesType
  <2>2. Checks(m, 1) \in Counters
    BY <2>1, ChecksType
  <2>3. Checks(Checks(m, 1), 1) \in Counters
    BY <2>2, ChecksType
  <2>4. \/ UNCHANGED mmio /\ pc' = "trap"
        \/ mmio' = Checks(Checks(m, 1), 1) /\ pc' = "romext"
    BY <1>17 DEF Jump
  <2> QED BY <1>5, <2>3, <2>4 DEF MmioInv
<1>18. CASE ErrorReturn
  BY <1>5, <1>18 DEF ErrorReturn
<1>19. CASE \E cause \in {"PowerOn"} \cup Causes : Reset(cause)
  <2>1. mmio' = ResetMmio /\ pc' = "start"
    BY <1>19 DEF Reset
  <2> QED BY <1>4, <2>1 DEF MmioInv
<1>20. CASE UpdateSlot \/ RaiseMin \/ UseRam
  BY <1>5, <1>20 DEF UpdateSlot, RaiseMin, UseRam
<1> QED BY <1>6, <1>7, <1>8, <1>9, <1>10, <1>11, <1>12, <1>13, <1>14, <1>15, <1>16, <1>17,
           <1>18, <1>19, <1>20 DEF Next

\* Every CFI counter is what the next check of it expects.
LEMMA StepCfi ==
  ASSUME TypeOK, Flow, CfiInv, Next
  PROVE  cfi' \in [Funcs -> Nat] /\ CfiInv'
<1> USE DEF Goto, Trap, Shutdown, InRom, At
<1>1. cfi \in [Funcs -> Nat] /\ loc \in Locs /\ loc.attempt \in {0, 1}
  BY DEF TypeOK, Locs
<1>2. ASSUME NEW c \in [Funcs -> Nat], NEW f \in Funcs, NEW n \in Nat
      PROVE  /\ Increment(c, f, n) \in [Funcs -> Nat]
             /\ Increment(c, f, n)[f] = c[f] + n
             /\ \A h \in Funcs : h # f => Increment(c, f, n)[h] = c[h]
  BY IncrementType
<1>3. ASSUME NEW c \in [Funcs -> Nat], NEW f \in Funcs, NEW g \in Funcs, f # g
      PROVE  /\ PrepCall(c, f, g) \in [Funcs -> Nat]
             /\ PrepCall(c, f, g)[f] = c[f] + 2
             /\ PrepCall(c, f, g)[g] = 1
             /\ \A h \in Funcs : h # f /\ h # g => PrepCall(c, f, g)[h] = c[h]
  BY <1>3, PrepCallType
<1>4. ASSUME cfi' = cfi, pc' \in {pc, "trap", "shutdown", "bootstrap"}, loc' = loc
      PROVE  cfi' \in [Funcs -> Nat] /\ CfiInv'
  BY <1>1, <1>4 DEF CfiInv
<1>5. CASE RomInit
  <2> DEFINE c0 == [cfi EXCEPT !["RomMain"] = 1]
             c1 == PrepCall(c0, "RomMain", "RomInit")
             c2 == [c1 EXCEPT !["RomInit"] = @ + 1]
  <2>1. c0 \in [Funcs -> Nat] /\ c0["RomMain"] = 1
    BY <1>1, FuncNames
  <2> HIDE DEF c0
  <2>2. c1 \in [Funcs -> Nat] /\ c1["RomMain"] = 3 /\ c1["RomInit"] = 1
    <3>1. c1["RomMain"] = c0["RomMain"] + 2
      BY <1>3, <2>1, FuncNames
    <3>2. c1 \in [Funcs -> Nat] /\ c1["RomInit"] = 1
      BY <1>3, <2>1, FuncNames
    <3> QED BY <2>1, <3>1, <3>2
  <2> HIDE DEF c1
  <2>3. c2 \in [Funcs -> Nat] /\ c2["RomMain"] = 3 /\ c2["RomInit"] = 2
    BY <2>2, FuncNames
  <2>4. cfi' = c2 /\ pc' = "reasons"
    BY <1>5 DEF RomInit, c0, c1
  <2> QED BY <2>3, <2>4 DEF CfiInv
<1>6. CASE WipeRetention \/ StoreReasons \/ ClearReasons
  BY <1>1, <1>6 DEF WipeRetention, StoreReasons, ClearReasons, CfiInv
<1>7. CASE InitEnd
  <2> DEFINE c0 == Increment(cfi, "RomInit", 1)
             c1 == Increment(c0, "RomMain", 1)
  <2>1. cfi["RomInit"] = 2 /\ cfi["RomMain"] = 3
    BY <1>7 DEF InitEnd, CfiInv
  <2>2. c0 \in [Funcs -> Nat] /\ c0["RomInit"] = cfi["RomInit"] + 1
    BY <1>1, FuncNames DEF Increment
  <2>3. c0["RomMain"] = cfi["RomMain"]
    BY <1>1, FuncNames DEF Increment
  <2> HIDE DEF c0
  <2>4. c1 \in [Funcs -> Nat] /\ c1["RomMain"] = c0["RomMain"] + 1
    BY <2>2, FuncNames DEF Increment
  <2>5. c1["RomInit"] = c0["RomInit"]
    BY <2>2, FuncNames DEF Increment
  <2> HIDE DEF c1
  <2>6. \/ UNCHANGED <<cfi, loc>> /\ pc' = "trap"
        \/ cfi' = c1 /\ pc' = "strap"
    BY <1>7 DEF InitEnd, c0, c1
  <2>7. CASE cfi' = c1 /\ pc' = "strap"
    BY <2>1, <2>2, <2>3, <2>4, <2>5, <2>7 DEF CfiInv
  <2> QED BY <1>4, <2>6, <2>7
<1>8. CASE EnterBootstrap
  BY <1>4, <1>8 DEF EnterBootstrap
<1>9. CASE TryBoot
  <2> DEFINE c0 == PrepCall(cfi, "RomMain", "RomTryBoot")
             c1 == Increment(c0, "RomTryBoot", 1)
             c2 == PrepCall(c1, "RomTryBoot", "RomVerify")
  <2>1. c0 \in [Funcs -> Nat] /\ c0["RomTryBoot"] = 1
    BY <1>1, <1>3, FuncNames
  <2> HIDE DEF c0
  <2>2. c1 \in [Funcs -> Nat] /\ c1["RomTryBoot"] = c0["RomTryBoot"] + 1
    BY <1>2, <2>1, FuncNames
  <2> HIDE DEF c1
  <2>3. /\ c2 \in [Funcs -> Nat] /\ c2["RomVerify"] = 1
        /\ c2["RomTryBoot"] = c1["RomTryBoot"] + 2
    BY <1>3, <2>2, FuncNames
  <2> HIDE DEF c2
  <2>4. \/ UNCHANGED <<cfi, loc>> /\ pc' = "trap"
        \/ cfi' = c2 /\ pc' = "verify" /\ UNCHANGED loc
    BY <1>9 DEF TryBoot, c0, c1, c2
  <2>5. loc.attempt = 0
    BY <1>9 DEF TryBoot, Flow, NoLoc
  <2>6. CASE cfi' = c2 /\ pc' = "verify" /\ UNCHANGED loc
    BY <2>1, <2>2, <2>3, <2>5, <2>6 DEF CfiInv
  <2> QED BY <1>4, <2>4, <2>6
<1>10. CASE VerifyEarlyReturn
  <2> DEFINE c == Increment(cfi, "RomVerify", 1)
  <2>1. c \in [Funcs -> Nat] /\ c["RomTryBoot"] = cfi["RomTryBoot"]
    BY <1>1, FuncNames DEF Increment
  <2> HIDE DEF c
  <2>2. /\ pc = "verify" /\ pc' = "judge" /\ cfi' = c
        /\ loc' = [loc EXCEPT !.flashExec = "zero", !.result = "bad"]
    BY <1>10 DEF VerifyEarlyReturn, c
  <2>3. loc'.attempt = loc.attempt /\ loc'.result = "bad"
    BY <1>1, <2>2 DEF Locs
  <2> QED BY <2>1, <2>2, <2>3 DEF CfiInv
<1>11. CASE Verify
  <2> DEFINE c == Increment(cfi, "RomVerify", 2)
  <2>1. /\ c \in [Funcs -> Nat] /\ c["RomVerify"] = cfi["RomVerify"] + 2
        /\ c["RomTryBoot"] = cfi["RomTryBoot"]
    BY <1>1, FuncNames DEF Increment
  <2> HIDE DEF c
  <2>2. /\ pc = "verify"
        /\ \/ UNCHANGED <<cfi, loc>> /\ pc' = "trap"
           \/ /\ cfi' = c /\ pc' = "judge"
              /\ Verdict(slots[Current].sig) \/ Verdict(FALSE)
    BY <1>11 DEF Verify, c
  <2>3. CASE /\ cfi' = c /\ pc' = "judge"
             /\ Verdict(slots[Current].sig) \/ Verdict(FALSE)
    <3>1. loc'.attempt = loc.attempt
      BY <1>1, <2>3 DEF Verdict, Locs
    <3>2. cfi["RomVerify"] = 1
      BY <2>2 DEF CfiInv
    <3> QED BY <2>1, <2>2, <2>3, <3>1, <3>2 DEF CfiInv
  <2> QED BY <1>4, <2>2, <2>3
<1>12. CASE Accept
  <2> DEFINE c == IF loc.attempt = 0 THEN [cfi EXCEPT !["RomTryBoot"] = 1]
                  ELSE Increment(cfi, "RomTryBoot", 1)
             d == PrepCall(c, "RomTryBoot", "RomBoot")
             e == Increment(d, "RomBoot", 1)
  <2>1. c \in [Funcs -> Nat]
    <3>1. Increment(cfi, "RomTryBoot", 1) \in [Funcs -> Nat]
      BY <1>1, <1>2, FuncNames
    <3> QED BY <1>1, <3>1
  <2> HIDE DEF c
  <2>2. d \in [Funcs -> Nat] /\ d["RomBoot"] = 1
    BY <1>3, <2>1, FuncNames
  <2> HIDE DEF d
  <2>3. e \in [Funcs -> Nat] /\ e["RomBoot"] = d["RomBoot"] + 1
    BY <1>2, <2>2, FuncNames
  <2> HIDE DEF e
  <2>4. \/ UNCHANGED <<cfi, loc>> /\ pc' = "trap"
        \/ cfi' = e /\ pc' = "keymgr"
    BY <1>12 DEF Accept, c, d, e
  <2>5. CASE cfi' = e /\ pc' = "keymgr"
    BY <2>2, <2>3, <2>5 DEF CfiInv
  <2> QED BY <1>4, <2>4, <2>5
<1>13. CASE SecondAttempt
  <2> DEFINE c == Increment(cfi, "RomTryBoot", 1)
             d == PrepCall(c, "RomTryBoot", "RomVerify")
  <2>1. c \in [Funcs -> Nat] /\ c["RomTryBoot"] = cfi["RomTryBoot"] + 1
    BY <1>1, FuncNames DEF Increment
  <2> HIDE DEF c
  <2>2. /\ d \in [Funcs -> Nat] /\ d["RomVerify"] = 1
        /\ d["RomTryBoot"] = c["RomTryBoot"] + 2
    BY <1>3, <2>1, FuncNames
  <2> HIDE DEF d
  <2>3. \/ UNCHANGED <<cfi, loc>> /\ pc' = "trap"
        \/ /\ cfi' = d /\ pc' = "verify" /\ cfi["RomTryBoot"] = 4
           /\ loc' = [loc EXCEPT !.attempt = 1, !.result = "none"]
    BY <1>13 DEF SecondAttempt, c, d
  <2>4. CASE /\ cfi' = d /\ pc' = "verify" /\ cfi["RomTryBoot"] = 4
             /\ loc' = [loc EXCEPT !.attempt = 1, !.result = "none"]
    <3>1. loc'.attempt = 1
      BY <1>1, <2>4 DEF Locs
    <3> QED BY <2>1, <2>2, <2>4, <3>1 DEF CfiInv
  <2> QED BY <1>4, <2>3, <2>4
<1>14. CASE BothFail \/ ErrorReturn
  BY <1>4, <1>14 DEF BothFail, ErrorReturn
<1>15. CASE BindKeymgr
  BY <1>1, <1>15 DEF BindKeymgr, CfiInv
<1>16. CASE Translate
  BY <1>1, <1>16, ImageType DEF Translate, CfiInv
<1>17. CASE PreBootCheck
  <2> DEFINE c == PrepCall(cfi, "RomBoot", "RomPreBootCheck")
             d == Increment(c, "RomPreBootCheck", 6)
             e == Increment(d, "RomBoot", 1)
  <2>1. /\ c \in [Funcs -> Nat] /\ c["RomPreBootCheck"] = 1
        /\ c["RomBoot"] = cfi["RomBoot"] + 2
    BY <1>1, <1>3, FuncNames
  <2> HIDE DEF c
  <2>2. /\ d \in [Funcs -> Nat] /\ d["RomPreBootCheck"] = c["RomPreBootCheck"] + 6
        /\ d["RomBoot"] = c["RomBoot"]
    BY <2>1, FuncNames DEF Increment
  <2> HIDE DEF d
  <2>3. /\ e \in [Funcs -> Nat] /\ e["RomPreBootCheck"] = d["RomPreBootCheck"]
        /\ e["RomBoot"] = d["RomBoot"] + 1
    BY <2>2, FuncNames DEF Increment
  <2> HIDE DEF e
  <2>4. \/ UNCHANGED <<cfi, loc>> /\ pc' = "trap"
        \/ cfi' = e /\ pc' = "exec" /\ cfi["RomBoot"] = 2
    BY <1>17 DEF PreBootCheck, c, d, e
  <2>5. CASE cfi' = e /\ pc' = "exec" /\ cfi["RomBoot"] = 2
    BY <2>1, <2>2, <2>3, <2>5 DEF CfiInv
  <2> QED BY <1>4, <2>4, <2>5
<1>18. CASE Jump
  <2>1. Increment(cfi, "RomBoot", 1) \in [Funcs -> Nat]
    BY <1>1, <1>2, FuncNames
  <2>2. \/ UNCHANGED <<cfi, loc>> /\ pc' = "trap"
        \/ cfi' = Increment(cfi, "RomBoot", 1) /\ pc' = "romext"
    BY <1>18 DEF Jump
  <2> QED BY <1>4, <2>1, <2>2 DEF CfiInv
<1>19. CASE \E cause \in {"PowerOn"} \cup Causes : Reset(cause)
  BY <1>19 DEF Reset, ResetCfi, CfiInv
<1>20. CASE UpdateSlot \/ RaiseMin \/ UseRam
  BY <1>4, <1>20 DEF UpdateSlot, RaiseMin, UseRam
<1> QED BY <1>5, <1>6, <1>7, <1>8, <1>9, <1>10, <1>11, <1>12, <1>13, <1>14, <1>15, <1>16,
           <1>17, <1>18, <1>19, <1>20 DEF Next
-----------------------------------------------------------------------------
(* Retention SRAM and reset reasons *)

LEMMA StepRetained ==
  ASSUME TypeOK, Retained, Next
  PROVE  Retained'
<1> USE DEF Goto, Trap, Shutdown, InRom
<1>1. ram \in Rams /\ reasons \subseteq {"PowerOn"} \cup Causes
  BY DEF TypeOK, Rams
<1>2. ASSUME UNCHANGED Retention, UNCHANGED chip, pc' \notin {"store", "clear"},
             pc \notin {"start", "reasons", "shutdown"} \/ pc' = pc
             \/ pc' \in {"reasons", "shutdown"}
      PROVE  Retained'
  BY <1>2 DEF Retained, Retention
<1>3. CASE RomInit
  BY <1>2, <1>3 DEF RomInit, Flash
<1>4. CASE WipeRetention
  <2>1. pc' = "store" /\ pc = "reasons" /\ UNCHANGED <<reasons, chip>>
    BY <1>4 DEF WipeRetention, Flash
  <2>2. CASE WipesRam
    <3>1. ram'.owner = "wiped"
      BY <1>4, <2>2 DEF WipeRetention
    <3> QED BY <2>1, <3>1 DEF Retained
  <2>3. CASE ~WipesRam
    <3>1. ram' = ram /\ ~WipesRam'
      BY <1>4, <2>1, <2>3 DEF WipeRetention, WipesRam
    <3>2. "PowerOn" \notin reasons
      BY <2>3 DEF WipesRam
    <3> QED BY <2>1, <3>1, <3>2 DEF Retained
  <2> QED BY <2>2, <2>3
<1>5. CASE StoreReasons
  <2>1. pc' = "clear" /\ pc = "store" /\ UNCHANGED <<reasons, chip>>
    BY <1>5 DEF StoreReasons, Flash
  <2>2. ram'.reasons = reasons /\ ram'.owner = ram.owner
    BY <1>1, <1>5 DEF StoreReasons, Rams
  <2>3. WipesRam' = WipesRam
    BY <2>1 DEF WipesRam
  <2> QED BY <2>1, <2>2, <2>3 DEF Retained
<1>6. CASE ClearReasons
  <2>1. pc' = "initend" /\ pc = "clear" /\ ram' = ram
    BY <1>6 DEF ClearReasons
  <2> QED BY <2>1 DEF Retained
<1>7. CASE InitEnd \/ EnterBootstrap \/ TryBoot
  BY <1>2, <1>7 DEF InitEnd, EnterBootstrap, TryBoot, Flash
<1>8. CASE VerifyEarlyReturn \/ Verify
  BY <1>2, <1>8 DEF VerifyEarlyReturn, Verify, Flash
<1>9. CASE Accept \/ SecondAttempt \/ BothFail
  BY <1>2, <1>9 DEF Accept, SecondAttempt, BothFail, Flash
<1>10. CASE BindKeymgr \/ PreBootCheck \/ Jump
  BY <1>2, <1>10 DEF BindKeymgr, PreBootCheck, Jump, Flash
<1>11. CASE Translate
  BY <1>2, <1>11, ImageType DEF Translate, Flash
<1>12. CASE ErrorReturn
  BY <1>2, <1>12 DEF ErrorReturn, Flash
<1>13. CASE \E cause \in {"PowerOn"} \cup Causes : Reset(cause)
  <2>1. PICK cause \in {"PowerOn"} \cup Causes : Reset(cause)
    BY <1>13
  <2>2. pc' = "start"
    BY <2>1 DEF Reset
  <2>3. CASE cause = "PowerOn"
    BY <2>1, <2>2, <2>3 DEF Reset, Retained
  <2>4. CASE cause # "PowerOn"
    BY <2>1, <2>2, <2>4 DEF Reset, Retained
  <2> QED BY <2>3, <2>4
<1>14. CASE UpdateSlot \/ RaiseMin
  BY <1>2, <1>14 DEF UpdateSlot, RaiseMin
<1>15. CASE UseRam
  <2>1. pc' = "romext" /\ ram'.owner = "used"
    BY <1>1, <1>15 DEF UseRam, Rams
  <2> QED BY <2>1 DEF Retained
<1> QED BY <1>3, <1>4, <1>5, <1>6, <1>7, <1>8, <1>9, <1>10, <1>11, <1>12, <1>13, <1>14,
           <1>15 DEF Next

-----------------------------------------------------------------------------
(* The flow *)

\* Current only depends on the manifests and on the attempt.
LEMMA SameCurrent ==
  ASSUME UNCHANGED slots, loc'.attempt = loc.attempt
  PROVE  Current' = Current
  BY DEF Current, Ordered, Slots

LEMMA StepFlow ==
  ASSUME TypeOK, Flow, Next
  PROVE  Flow'
<1> USE DEF Goto, Trap, Shutdown, InRom
<1>1. loc \in Locs /\ regs \in Regs /\ Current \in Slots /\ Image = Current
  BY ImageType DEF TypeOK, Locs, Regs, Image
<1>2. ASSUME UNCHANGED <<slots, loc, regs>>, pc' \in {"trap", "shutdown"} \/ pc' = pc
      PROVE  Flow'
  BY <1>2, SameCurrent DEF Flow, Passed, Unconfigured
<1>3. CASE RomInit
  <2>1. /\ pc = "start" /\ pc' = "reasons" /\ loc' = loc
        /\ regs' = [regs EXCEPT !.wdog = WatchdogOn]
    BY <1>3 DEF RomInit
  <2>2. regs'.exec = regs.exec /\ regs'.remap = regs.remap /\ regs'.text = regs.text
    BY <1>1, <2>1 DEF Regs
  <2> QED BY <2>1, <2>2 DEF Flow, Unconfigured
<1>4. CASE WipeRetention \/ StoreReasons \/ ClearReasons
  BY <1>4 DEF WipeRetention, StoreReasons, ClearReasons, Flow, Unconfigured
<1>5. CASE InitEnd
  BY <1>5 DEF InitEnd, Flow, Unconfigured
<1>6. CASE EnterBootstrap
  <2>1. /\ pc = "strap" /\ pc' = "bootstrap"
        /\ regs' = [regs EXCEPT !.wdog = FALSE]
    BY <1>6 DEF EnterBootstrap
  <2>2. regs'.exec = regs.exec /\ regs'.remap = regs.remap /\ regs'.text = regs.text
    BY <1>1, <2>1 DEF Regs
  <2> QED BY <2>1, <2>2 DEF Flow, Unconfigured
<1>7. CASE TryBoot
  <2>1. pc = "strap" /\ UNCHANGED <<loc, regs>> /\ pc' \in {"verify", "trap"}
    BY <1>7 DEF TryBoot
  <2>2. loc = NoLoc
    BY <2>1 DEF Flow
  <2> QED BY <2>1, <2>2 DEF Flow, Unconfigured, NoLoc
<1>8. CASE VerifyEarlyReturn
  <2>1. /\ pc = "verify" /\ pc' = "judge" /\ UNCHANGED regs
        /\ loc' = [loc EXCEPT !.flashExec = "zero", !.result = "bad"]
    BY <1>8 DEF VerifyEarlyReturn
  <2>2. loc'.result = "bad"
    BY <1>1, <2>1 DEF Locs
  <2> QED BY <2>1, <2>2 DEF Flow, Unconfigured
<1>9. CASE Verify
  <2>1. slots[Current].sig \in BOOLEAN
    BY ImageType DEF ManifestType
  <2>2. /\ pc = "verify" /\ UNCHANGED slots
        /\ \/ pc' = "trap" /\ UNCHANGED <<loc, regs>>
           \/ /\ pc' = "judge"
              /\ regs' = regs \/ regs' = [regs EXCEPT !.otbnLocked = TRUE]
              /\ \E ok \in BOOLEAN : Verdict(ok)
    BY <1>9, <2>1 DEF Verify, Flash
  <2>3. CASE /\ pc' = "judge"
             /\ regs' = regs \/ regs' = [regs EXCEPT !.otbnLocked = TRUE]
             /\ \E ok \in BOOLEAN : Verdict(ok)
    <3>1. PICK ok \in BOOLEAN : Verdict(ok)
      BY <2>3
    <3>2. /\ loc'.attempt = loc.attempt /\ loc'.measured = Current
          /\ loc'.result = IF ok THEN "ok" ELSE "bad"
          /\ loc'.flashExec = IF ok THEN "unlock" ELSE "ones"
      BY <1>1, <3>1 DEF Verdict, Locs
    <3>3. regs'.exec = regs.exec /\ regs'.remap = regs.remap /\ regs'.text = regs.text
      BY <1>1, <2>3 DEF Regs
    <3>4. Current' = Current
      BY <2>2, <3>2, SameCurrent
    <3>5. Unconfigured'
      BY <2>2, <3>3 DEF Flow, Unconfigured
    <3> QED BY <2>3, <3>2, <3>4, <3>5 DEF Flow, Passed
  <2> QED BY <1>2, <2>2, <2>3
<1>10. CASE Accept
  <2>1. /\ pc = "judge" /\ loc.result = "ok" /\ UNCHANGED <<slots, loc, regs>>
        /\ pc' \in {"keymgr", "trap"}
    BY <1>10 DEF Accept, Flash
  <2> QED BY <2>1, SameCurrent DEF Flow, Unconfigured, Passed
<1>11. CASE SecondAttempt
  <2>1. /\ pc = "judge" /\ UNCHANGED <<slots, regs>>
        /\ \/ pc' = "trap" /\ UNCHANGED loc
           \/ pc' = "verify" /\ loc' = [loc EXCEPT !.attempt = 1, !.result = "none"]
    BY <1>11 DEF SecondAttempt, Flash
  <2>2. CASE pc' = "verify" /\ loc' = [loc EXCEPT !.attempt = 1, !.result = "none"]
    <3>1. loc'.result = "none"
      BY <1>1, <2>2 DEF Locs
    <3> QED BY <2>1, <2>2, <3>1 DEF Flow, Unconfigured
  <2> QED BY <1>2, <2>1, <2>2
<1>12. CASE BothFail \/ ErrorReturn
  BY <1>2, <1>12 DEF BothFail, ErrorReturn, Flash
<1>13. CASE BindKeymgr
  <2>1. /\ pc = "keymgr" /\ UNCHANGED <<slots, loc>>
        /\ \/ pc' = "trap" /\ UNCHANGED regs
           \/ /\ pc' = "remap"
              /\ \E a \in {"measurement", "manifest"} :
                   regs' = [regs EXCEPT !.binding = Image, !.attest = a]
    BY <1>13 DEF BindKeymgr, Flash
  <2>2. CASE /\ pc' = "remap"
             /\ \E a \in {"measurement", "manifest"} :
                  regs' = [regs EXCEPT !.binding = Image, !.attest = a]
    <3>1. /\ regs'.binding = Current /\ regs'.exec = regs.exec
          /\ regs'.remap = regs.remap /\ regs'.text = regs.text
      BY <1>1, <2>2 DEF Regs
    <3>2. Current' = Current
      BY <2>1, SameCurrent
    <3> QED BY <2>1, <2>2, <3>1, <3>2 DEF Flow, Unconfigured, Passed
  <2> QED BY <1>2, <2>1, <2>2
<1>14. CASE Translate
  <2>1. /\ pc = "remap" /\ UNCHANGED <<slots, loc>>
        /\ \/ pc' = "trap" /\ UNCHANGED regs
           \/ /\ pc' = "precheck"
              /\ \/ regs' = [regs EXCEPT !.remap = Image, !.text = Image, !.textAt = "virtual"]
                 \/ regs' = [regs EXCEPT !.text = Image, !.textAt = "load"]
    BY <1>14, ImageType DEF Translate, Flash
  <2>2. CASE /\ pc' = "precheck"
             /\ \/ regs' = [regs EXCEPT !.remap = Image, !.text = Image, !.textAt = "virtual"]
                \/ regs' = [regs EXCEPT !.text = Image, !.textAt = "load"]
    <3>1. regs'.binding = regs.binding /\ regs'.exec = regs.exec /\ regs'.text = Current
      BY <1>1, <2>2 DEF Regs
    <3>2. Current' = Current
      BY <2>1, SameCurrent
    <3> QED BY <2>1, <2>2, <3>1, <3>2 DEF Flow, Unconfigured, Passed
  <2> QED BY <1>2, <2>1, <2>2
<1>15. CASE PreBootCheck
  <2>1. /\ pc = "precheck" /\ UNCHANGED <<slots, loc, regs>> /\ pc' \in {"exec", "trap"}
    BY <1>15 DEF PreBootCheck, Flash
  <2> QED BY <2>1, SameCurrent DEF Flow, Unconfigured, Passed
<1>16. CASE Jump
  <2>1. /\ pc = "exec" /\ UNCHANGED <<slots, loc>>
        /\ \/ pc' = "trap" /\ UNCHANGED regs
           \/ pc' = "romext" /\ regs' = [regs EXCEPT !.exec = loc.flashExec]
    BY <1>16 DEF Jump, Flash
  <2>2. CASE pc' = "romext" /\ regs' = [regs EXCEPT !.exec = loc.flashExec]
    <3>1. regs'.text = Current
      BY <1>1, <2>1, <2>2 DEF Regs, Flow
    <3> QED BY <1>1, <2>2, <3>1 DEF Flow
  <2> QED BY <1>2, <2>1, <2>2
<1>17. CASE \E cause \in {"PowerOn"} \cup Causes : Reset(cause)
  <2>1. pc' = "start" /\ loc' = NoLoc /\ regs' = ResetRegs
    BY <1>17 DEF Reset
  <2> QED BY <2>1 DEF Flow, Unconfigured, ResetRegs
<1>18. CASE UpdateSlot
  BY <1>18 DEF UpdateSlot, Flow, Unconfigured
<1>19. CASE RaiseMin \/ UseRam
  BY <1>2, <1>19 DEF RaiseMin, UseRam, Flash
<1> QED BY <1>3, <1>4, <1>5, <1>6, <1>7, <1>8, <1>9, <1>10, <1>11, <1>12, <1>13, <1>14,
           <1>15, <1>16, <1>17, <1>18, <1>19 DEF Next
\* An image passed because it is eligible, or failed because it is not or
\* because OTBN met an error.
LEMMA StepJudged ==
  ASSUME TypeOK, Flow, Judged, Next
  PROVE  Judged'
<1> USE DEF Goto, Trap, Shutdown, InRom
<1>1. loc \in Locs /\ Current \in Slots /\ slots[Current] \in ManifestType
  BY ImageType DEF TypeOK, Locs
<1>2. ASSUME pc' \notin InRom
      PROVE  Judged'
  BY <1>2 DEF Judged
<1>3. ASSUME UNCHANGED <<chip, slots, min, loc>>, pc \in InRom, pc' # "judge"
      PROVE  Judged'
  <2>1. Current' = Current /\ \A key : KeyIsValid(key)' = KeyIsValid(key)
    BY <1>3, SameCurrent DEF KeyIsValid
  <2> QED BY <1>3, <2>1 DEF Judged
<1>4. CASE RomInit \/ WipeRetention \/ StoreReasons \/ ClearReasons \/ InitEnd
  BY <1>3, <1>4 DEF RomInit, WipeRetention, StoreReasons, ClearReasons, InitEnd, Flash
<1>5. CASE EnterBootstrap \/ TryBoot
  BY <1>3, <1>5 DEF EnterBootstrap, TryBoot, Flash
<1>6. CASE VerifyEarlyReturn
  <2>1. /\ pc' = "judge" /\ UNCHANGED <<chip, slots, min>>
        /\ loc' = [loc EXCEPT !.flashExec = "zero", !.result = "bad"]
        /\ ~(ManifestCheck(slots[Current]) /\ KeyIsValid(slots[Current].key))
    BY <1>6 DEF VerifyEarlyReturn, Flash
  <2>2. loc'.result = "bad" /\ loc'.attempt = loc.attempt
    BY <1>1, <2>1 DEF Locs
  <2>3. Current' = Current /\ \A key : KeyIsValid(key)' = KeyIsValid(key)
    BY <2>1, <2>2, SameCurrent DEF KeyIsValid
  <2> QED BY <2>1, <2>2, <2>3 DEF Judged, ManifestCheck
<1>7. CASE Verify
  <2>1. /\ UNCHANGED <<chip, slots, min>>
        /\ ManifestCheck(slots[Current]) /\ KeyIsValid(slots[Current].key)
        /\ \/ pc' = "trap"
           \/ /\ pc' = "judge"
              /\ Verdict(slots[Current].sig) \/ (Verdict(FALSE) /\ UsesOtbn)
    BY <1>7 DEF Verify, Flash
  <2>2. CASE pc' = "judge" /\ Verdict(slots[Current].sig)
    <3>1. /\ loc'.attempt = loc.attempt
          /\ loc'.result = IF slots[Current].sig THEN "ok" ELSE "bad"
      BY <1>1, <2>2 DEF Verdict, Locs
    <3>2. Current' = Current /\ \A key : KeyIsValid(key)' = KeyIsValid(key)
      BY <2>1, <3>1, SameCurrent DEF KeyIsValid
    <3> QED BY <2>1, <2>2, <3>1, <3>2 DEF Judged, ManifestCheck
  <2>3. CASE pc' = "judge" /\ Verdict(FALSE) /\ UsesOtbn
    <3>1. loc'.result = "bad"
      BY <1>1, <2>3 DEF Verdict, Locs
    <3>2. UsesOtbn'
      BY <2>1, <2>3 DEF UsesOtbn
    <3> QED BY <2>3, <3>1, <3>2 DEF Judged
  <2> QED BY <1>2, <2>1, <2>2, <2>3
<1>8. CASE Accept
  BY <1>3, <1>8 DEF Accept, Flash
<1>9. CASE SecondAttempt
  <2>1. \/ pc' = "trap"
        \/ pc' = "verify" /\ loc' = [loc EXCEPT !.attempt = 1, !.result = "none"]
    BY <1>9 DEF SecondAttempt
  <2>2. CASE pc' = "verify" /\ loc' = [loc EXCEPT !.attempt = 1, !.result = "none"]
    <3>1. loc'.result = "none"
      BY <1>1, <2>2 DEF Locs
    <3> QED BY <2>2, <3>1 DEF Judged
  <2> QED BY <1>2, <2>1, <2>2
<1>10. CASE BothFail \/ ErrorReturn
  BY <1>2, <1>10 DEF BothFail, ErrorReturn
<1>11. CASE BindKeymgr \/ PreBootCheck \/ Jump
  BY <1>3, <1>11 DEF BindKeymgr, PreBootCheck, Jump, Flash
<1>12. CASE Translate
  BY <1>3, <1>12, ImageType DEF Translate, Flash
<1>13. CASE \E cause \in {"PowerOn"} \cup Causes : Reset(cause)
  <2>1. pc' = "start" /\ loc' = NoLoc
    BY <1>13 DEF Reset
  <2> QED BY <2>1 DEF Judged, NoLoc
<1>14. CASE UpdateSlot \/ RaiseMin \/ UseRam
  BY <1>2, <1>14 DEF UpdateSlot, RaiseMin, UseRam
<1> QED BY <1>4, <1>5, <1>6, <1>7, <1>8, <1>9, <1>10, <1>11, <1>12, <1>13, <1>14 DEF Next

\* Binding, remapping and executable region follow the measured image.
LEMMA StepOneImage ==
  ASSUME TypeOK, Flow, OneImage, Next
  PROVE  OneImage'
<1> USE DEF Goto, Trap, Shutdown, InRom
<1>1. /\ loc \in Locs /\ regs \in Regs /\ Current \in Slots /\ Image = Current
      /\ NoSlot \notin Slots
  BY ImageType, RomBootAssumption DEF TypeOK, Locs, Regs, Image, Slots
<1>2. ASSUME UNCHANGED <<loc, regs>>
      PROVE  OneImage'
  BY <1>2 DEF OneImage
<1>3. ASSUME regs'.text = NoSlot, regs'.exec = "zero"
      PROVE  OneImage'
  BY <1>3 DEF OneImage
<1>4. ASSUME pc \in {"start", "strap", "verify", "judge"},
             regs'.text = regs.text, regs'.exec = regs.exec
      PROVE  OneImage'
  BY <1>3, <1>4 DEF Flow, Unconfigured
<1>5. CASE RomInit
  <2>1. regs'.text = regs.text /\ regs'.exec = regs.exec
    BY <1>1, <1>5 DEF RomInit, Regs
  <2> QED BY <1>4, <1>5, <2>1 DEF RomInit
<1>6. CASE EnterBootstrap
  <2>1. regs'.text = regs.text /\ regs'.exec = regs.exec
    BY <1>1, <1>6 DEF EnterBootstrap, Regs
  <2> QED BY <1>4, <1>6, <2>1 DEF EnterBootstrap
<1>7. CASE VerifyEarlyReturn
  BY <1>4, <1>7 DEF VerifyEarlyReturn
<1>8. CASE Verify
  <2>1. regs' = regs \/ regs' = [regs EXCEPT !.otbnLocked = TRUE]
    BY <1>8 DEF Verify
  <2>2. regs'.text = regs.text /\ regs'.exec = regs.exec
    BY <1>1, <2>1 DEF Regs
  <2> QED BY <1>4, <1>8, <2>2 DEF Verify
<1>9. CASE SecondAttempt
  BY <1>4, <1>9 DEF SecondAttempt
<1>10. CASE BindKeymgr
  <2>1. \/ UNCHANGED <<loc, regs>>
        \/ \E a \in {"measurement", "manifest"} :
             regs' = [regs EXCEPT !.binding = Image, !.attest = a]
    BY <1>10 DEF BindKeymgr
  <2>2. CASE \E a \in {"measurement", "manifest"} :
               regs' = [regs EXCEPT !.binding = Image, !.attest = a]
    <3>1. regs'.text = regs.text /\ regs'.exec = regs.exec
      BY <1>1, <2>2 DEF Regs
    <3> QED BY <1>3, <1>10, <3>1 DEF BindKeymgr, Flow, Unconfigured
  <2> QED BY <1>2, <2>1, <2>2
<1>11. CASE Translate
  <2>1. /\ pc = "remap" /\ loc' = loc
        /\ \/ regs' = regs
           \/ regs' = [regs EXCEPT !.remap = Image, !.text = Image, !.textAt = "virtual"]
           \/ regs' = [regs EXCEPT !.text = Image, !.textAt = "load"]
    BY <1>11, ImageType DEF Translate
  <2>2. /\ Passed /\ regs.binding = Current /\ regs.remap = NoSlot /\ regs.exec = "zero"
    BY <2>1 DEF Flow, Unconfigured
  <2>3. CASE regs' = [regs EXCEPT !.remap = Image, !.text = Image, !.textAt = "virtual"]
    <3>1. /\ regs'.remap = Current /\ regs'.text = Current /\ regs'.textAt = "virtual"
          /\ regs'.binding = regs.binding /\ regs'.exec = regs.exec
      BY <1>1, <2>3 DEF Regs
    <3> QED BY <2>1, <2>2, <3>1 DEF OneImage, Passed
  <2>4. CASE regs' = [regs EXCEPT !.text = Image, !.textAt = "load"]
    <3>1. /\ regs'.remap = regs.remap /\ regs'.text = Current /\ regs'.textAt = "load"
          /\ regs'.binding = regs.binding /\ regs'.exec = regs.exec
      BY <1>1, <2>4 DEF Regs
    <3> QED BY <2>1, <2>2, <3>1 DEF OneImage, Passed
  <2> QED BY <1>2, <2>1, <2>3, <2>4
<1>12. CASE Jump
  <2>1. /\ pc = "exec" /\ loc' = loc
        /\ regs' = regs \/ regs' = [regs EXCEPT !.exec = loc.flashExec]
    BY <1>12 DEF Jump
  <2>2. Passed /\ regs.text = Current
    BY <2>1 DEF Flow
  <2>3. CASE regs' = [regs EXCEPT !.exec = loc.flashExec]
    <3>1. /\ regs'.exec = "unlock" /\ regs'.text = regs.text /\ regs'.textAt = regs.textAt
          /\ regs'.binding = regs.binding /\ regs'.remap = regs.remap
      BY <1>1, <2>2, <2>3 DEF Regs, Passed
    <3> QED BY <1>1, <2>1, <2>2, <3>1 DEF OneImage
  <2> QED BY <1>2, <2>1, <2>3
<1>13. CASE \E cause \in {"PowerOn"} \cup Causes : Reset(cause)
  <2>1. regs' = ResetRegs
    BY <1>13 DEF Reset
  <2> QED BY <1>3, <2>1 DEF ResetRegs
<1>14. \/ UNCHANGED <<loc, regs>> \/ RomInit \/ EnterBootstrap \/ VerifyEarlyReturn \/ Verify
       \/ SecondAttempt \/ BindKeymgr \/ Translate \/ Jump
       \/ \E cause \in {"PowerOn"} \cup Causes : Reset(cause)
  BY DEF Next, WipeRetention, StoreReasons, ClearReasons, InitEnd, TryBoot, Accept, BothFail,
         PreBootCheck, ErrorReturn, UpdateSlot, RaiseMin, UseRam
<1> QED BY <1>2, <1>5, <1>6, <1>7, <1>8, <1>9, <1>10, <1>11, <1>12, <1>13, <1>14

\* No hardened check fails but the one for address_translation.
LEMMA StepChecksAgree ==
  ASSUME TypeOK, Flow, MmioInv, CfiInv, ChecksAgree, Next
  PROVE  ChecksAgree'
<1> USE DEF Goto, Shutdown, InRom
<1>1. mmio \in Counters
  BY DEF TypeOK, Counters
<1>2. ASSUME pc' # "trap"
      PROVE  ChecksAgree'
  BY <1>2 DEF ChecksAgree
<1>3. CASE RomInit \/ WipeRetention \/ StoreReasons \/ ClearReasons \/ EnterBootstrap
  BY <1>2, <1>3 DEF RomInit, WipeRetention, StoreReasons, ClearReasons, EnterBootstrap
<1>4. CASE InitEnd
  <2>1. mmio.writes = mmio.expected /\ mmio.checks = 0 /\ pc = "initend"
    BY <1>4 DEF InitEnd, MmioInv
  <2>2. CountersAgree(Checks(mmio, 1), 1)
    BY <1>1, <2>1, ChecksType DEF CountersAgree
  <2>3. At(cfi, "RomInit", 2) /\ At(cfi, "RomMain", 3)
    BY <2>1 DEF CfiInv
  <2> QED BY <1>2, <1>4, <2>2, <2>3 DEF InitEnd
<1>5. CASE TryBoot
  BY <1>2, <1>5 DEF TryBoot, CfiInv
<1>6. CASE VerifyEarlyReturn \/ SecondAttempt
  BY <1>2, <1>6 DEF VerifyEarlyReturn, SecondAttempt, CfiInv
<1>7. CASE Verify
  <2>1. At(cfi, "RomVerify", 1) /\ slots[Current].ver >= min
    BY <1>7 DEF Verify, CfiInv, ManifestCheck
  <2> QED BY <1>2, <1>7, <2>1 DEF Verify
<1>8. CASE Accept
  <2>1. At(cfi, "RomTryBoot", IF loc.attempt = 0 THEN 4 ELSE 7) /\ At(cfi, "RomVerify", 3)
    BY <1>8 DEF Accept, CfiInv
  <2> QED BY <1>2, <1>8, <2>1 DEF Accept
<1>9. CASE BothFail \/ ErrorReturn
  BY <1>2, <1>9 DEF BothFail, ErrorReturn
<1>10. CASE BindKeymgr
  <2>1. mmio.writes = mmio.expected /\ mmio.checks = 2
    BY <1>10 DEF BindKeymgr, MmioInv
  <2> DEFINE m == Writes(mmio, KeymgrWrites, KeymgrWrites)
  <2>2. /\ m.writes = mmio.writes + KeymgrWrites /\ m.checks = mmio.checks
        /\ m.expected = mmio.expected + KeymgrWrites
    BY <1>1, WritesType, NumberTypes
  <2> HIDE DEF m
  <2>3. CountersAgree(m, 2)
    BY <2>1, <2>2 DEF CountersAgree
  <2> QED BY <1>2, <1>10, <2>3 DEF BindKeymgr, m
<1>11. CASE Translate
  <2>1. CASE slots[Image].at = "malformed"
    <3>1. loc.result = "ok" /\ UNCHANGED <<slots, loc>>
      BY <1>11, <2>1 DEF Translate, Trap, Flash, Flow, Passed
    <3>2. Current' = Current
      BY <3>1, SameCurrent
    <3> QED BY <2>1, <3>1, <3>2 DEF ChecksAgree, Image
  <2>2. CASE slots[Image].at # "malformed"
    BY <1>2, <1>11, <2>2, ImageType DEF Translate
  <2> QED BY <2>1, <2>2
<1>12. CASE PreBootCheck
  <2>1. CountersAgree(mmio, 3) /\ At(cfi, "RomBoot", 2)
    BY <1>12 DEF PreBootCheck, MmioInv, CfiInv, CountersAgree
  <2> QED BY <1>2, <1>12, <2>1 DEF PreBootCheck
<1>13. CASE Jump
  <2> DEFINE m == Writes(mmio, 1, 1)
  <2>1. mmio.writes = mmio.expected /\ mmio.checks = 4
    BY <1>13 DEF Jump, MmioInv
  <2>2. m \in Counters /\ m.writes = m.expected /\ m.checks = 4
    BY <1>1, <2>1, WritesType
  <2> HIDE DEF m
  <2> DEFINE n == Checks(m, 1)
  <2>3. n.writes = m.writes /\ n.expected = m.expected /\ n.checks = m.checks + 1
    BY <2>2, ChecksType
  <2> HIDE DEF n
  <2>4. CountersAgree(n, 5)
    BY <2>2, <2>3 DEF CountersAgree
  <2>5. At(cfi, "RomPreBootCheck", 7) /\ At(cfi, "RomBoot", 5)
    BY <1>13 DEF Jump, CfiInv
  <2> QED BY <1>2, <1>13, <2>4, <2>5 DEF Jump, m, n
<1>14. CASE \E cause \in {"PowerOn"} \cup Causes : Reset(cause)
  BY <1>2, <1>14 DEF Reset
<1>15. CASE UpdateSlot \/ RaiseMin \/ UseRam
  BY <1>2, <1>15 DEF UpdateSlot, RaiseMin, UseRam
<1> QED BY <1>3, <1>4, <1>5, <1>6, <1>7, <1>8, <1>9, <1>10, <1>11, <1>12, <1>13, <1>14,
           <1>15 DEF Next
-----------------------------------------------------------------------------
(* The theorems *)

LEMMA Initially == Init => IInv
<1> SUFFICES ASSUME Init
             PROVE  IInv
  OBVIOUS
<1>1. TypeOK
  BY TypeInit
<1>2. pc = "start" /\ loc = NoLoc /\ regs = ResetRegs
  BY DEF Init
<1>3. Flow /\ OneImage
  BY <1>2 DEF Flow, OneImage, Unconfigured, InRom, ResetRegs
<1>4. Judged
  BY <1>2 DEF Judged, NoLoc
<1>5. Retained
  BY DEF Init, Retained
<1>6. MmioInv /\ CfiInv /\ ChecksAgree
  BY <1>2 DEF MmioInv, CfiInv, ChecksAgree, InRom
<1> QED BY <1>1, <1>3, <1>4, <1>5, <1>6 DEF IInv

LEMMA Stuttering == IInv /\ UNCHANGED vars => IInv'
<1> SUFFICES ASSUME IInv, UNCHANGED vars
             PROVE  IInv'
  OBVIOUS
<1>1. UNCHANGED <<chip, slots, min, reasons, ram, pc, loc, regs, cfi, mmio>>
  BY DEF vars
<1>2. Current' = Current /\ \A key : KeyIsValid(key)' = KeyIsValid(key)
  BY <1>1, SameCurrent DEF KeyIsValid
<1>3. TypeOK' /\ OneImage' /\ ChecksAgree'
  BY <1>1, <1>2 DEF IInv, TypeOK, OneImage, ChecksAgree
<1>4. Flow'
  BY <1>1, <1>2 DEF IInv, Flow, Unconfigured, Passed
<1>5. Judged'
  BY <1>1, <1>2 DEF IInv, Judged, UsesOtbn
<1>6. Retained' /\ MmioInv' /\ CfiInv'
  BY <1>1 DEF IInv, Retained, WipesRam, MmioInv, CfiInv, At
<1> QED BY <1>3, <1>4, <1>5, <1>6 DEF IInv

LEMMA Inductive == IInv /\ [Next]_vars => IInv'
<1> SUFFICES ASSUME IInv, Next
             PROVE  IInv'
  BY Stuttering
<1>1. TypeOK /\ Flow /\ Judged /\ Retained /\ MmioInv /\ CfiInv /\ ChecksAgree /\ OneImage
  BY DEF IInv
<1>2. cfi' \in [Funcs -> Nat] /\ CfiInv'
  BY <1>1, StepCfi
<1>3. mmio' \in Counters /\ MmioInv'
  BY <1>1, StepMmio
<1>4. TypeOK'
  BY <1>1, <1>2, <1>3, TypeFlash, TypeRetention, TypePc, TypeLoc, TypeRegs
     DEF TypeOK, Locs, Regs, Rams, Counters
<1>5. Flow' /\ Judged' /\ Retained'
  BY <1>1, StepFlow, StepJudged, StepRetained
<1>6. OneImage' /\ ChecksAgree'
  BY <1>1, StepOneImage, StepChecksAgree
<1> QED BY <1>2, <1>3, <1>4, <1>5, <1>6 DEF IInv

\* The boot flow never leaves its inductive invariant, on any chip, with any
\* manifests in flash and any sequence of resets.
THEOREM Invariant == Spec => []IInv
  BY Initially, Inductive, PTL DEF Spec

\* Every variable of the boot flow keeps its type.
THEOREM TypeCorrect == Spec => []TypeOK
<1>1. IInv => TypeOK
  BY DEF IInv
<1> QED BY <1>1, Invariant, PTL

\* No hardened check of the boot flow fails but the one for a malformed
\* address_translation of a signed image: CFI and sec_mmio counters always agree.
THEOREM CountersNeverDisagree == Spec => []ChecksAgree
<1>1. IInv => ChecksAgree
  BY DEF IInv
<1> QED BY <1>1, Invariant, PTL

\* What rom_boot() configures and executes is the one image that passed.
THEOREM OneImageThroughout == Spec => []OneImage
<1>1. IInv => OneImage
  BY DEF IInv
<1> QED BY <1>1, Invariant, PTL

\* No stage after rom_init() sees retention SRAM as power-on left it.
THEOREM RetentionInitialized == Spec => []RetentionReady
<1>1. IInv => RetentionReady
  BY DEF IInv, Retained, RetentionReady
<1> QED BY <1>1, Invariant, PTL

\* A reset between two steps of rom_init() loses no reset reason.
THEOREM NoReasonLost == Spec => ReasonsKept
<1> DEFINE Kept == reasons # {} /\ reasons' = {} =>
                     /\ ram.reasons = reasons
                     /\ WipesRam => ram.owner = "wiped"
<1>1. IInv /\ [Next]_vars => [Kept]_vars
  <2> SUFFICES ASSUME IInv, Next, reasons # {}, reasons' = {}
               PROVE  Kept
    OBVIOUS
  <2>1. CASE ClearReasons
    BY <2>1 DEF ClearReasons, IInv, Retained
  <2>2. CASE UNCHANGED reasons
    BY <2>2
  <2>3. CASE \E cause \in {"PowerOn"} \cup Causes : Reset(cause)
    BY <2>3 DEF Reset
  <2>4. \/ ClearReasons \/ UNCHANGED reasons
        \/ \E cause \in {"PowerOn"} \cup Causes : Reset(cause)
    BY DEF Next, RomInit, WipeRetention, StoreReasons, InitEnd, EnterBootstrap, TryBoot,
           VerifyEarlyReturn, Verify, Accept, SecondAttempt, BothFail, BindKeymgr, Translate,
           PreBootCheck, Jump, ErrorReturn, UpdateSlot, RaiseMin, UseRam, Retention
  <2> QED BY <2>1, <2>2, <2>3, <2>4
<1>2. Spec => []IInv /\ [][Next]_vars
  BY Invariant DEF Spec
<1> QED BY <1>1, <1>2, PTL DEF ReasonsKept
-----------------------------------------------------------------------------
(* The boot flow implements RomBootSpec *)

\* The order of the boot policy, seen from the abstract specification.
LEMMA OrderedTurns ==
  ASSUME TypeOK, loc.attempt \in {0, 1}, BootMode = "rom",
         GivenUp = IF loc.attempt = 1 THEN {Ordered(0)} ELSE {}
  PROVE  Promise!Turn(Current)
<1>1. slots["A"].ver \in Nat /\ slots["B"].ver \in Nat
  <2>1. slots["A"] \in ManifestType /\ slots["B"] \in ManifestType
    BY RomBootAssumption DEF TypeOK, Slots
  <2> QED BY <2>1, RomBootAssumption DEF ManifestType
<1>2. CASE slots["A"].ver >= slots["B"].ver
  <2>1. Ordered(0) = "A" /\ Ordered(1) = "B"
    BY <1>2 DEF Ordered, Slots
  <2>2. ~Promise!Precedes("B", "A") /\ ~Promise!Precedes("A", "A") /\ ~Promise!Precedes("B", "B")
    BY <1>1, <1>2 DEF Promise!Precedes
  <2> QED BY <2>1, <2>2 DEF Promise!Turn, Promise!Slots, Current
<1>3. CASE ~(slots["A"].ver >= slots["B"].ver)
  <2>1. Ordered(0) = "B" /\ Ordered(1) = "A"
    BY <1>3 DEF Ordered, Slots
  <2>2. ~Promise!Precedes("A", "B") /\ ~Promise!Precedes("A", "A") /\ ~Promise!Precedes("B", "B")
    BY <1>1, <1>3 DEF Promise!Precedes
  <2> QED BY <2>1, <2>2 DEF Promise!Turn, Promise!Slots, Current
<1> QED BY <1>2, <1>3

\* A slot that was judged is as eligible as the abstract specification asks.
LEMMA JudgedEligible ==
  ASSUME TypeOK
  PROVE  Promise!Eligible(slots[Current]) <=>
           /\ slots[Current].form /\ slots[Current].ver >= min
           /\ KeyIsValid(slots[Current].key) /\ slots[Current].sig
<1>1. chip.lc \in LcStates
  BY RomBootAssumption DEF TypeOK, ChipType
<1>2. slots[Current].key \in Promise!Keys(chip.lc) <=> KeyIsValid(slots[Current].key)
  BY <1>1, ImageType DEF Promise!Keys, KeyIsValid, LcStates, ManifestType
<1>3. /\ slots[Current].form \in BOOLEAN /\ slots[Current].sig \in BOOLEAN
  BY ImageType DEF ManifestType
<1> QED BY <1>2, <1>3 DEF Promise!Eligible

LEMMA RefinesInit == Init => Promise!Init
  BY DEF Init, Promise!Init, BootMode, Running, GivenUp, InRom, NoLoc

LEMMA RefinesStep ==
  ASSUME IInv, Next
  PROVE  [Promise!Next]_(Promise!vars)
<1> USE DEF Goto, Shutdown, InRom
<1>1. /\ TypeOK /\ Flow /\ Judged /\ loc \in Locs /\ regs \in Regs
      /\ Current \in Slots /\ NoSlot \notin Slots
  BY ImageType, RomBootAssumption DEF IInv, TypeOK, Locs, Regs, Slots
<1>2. ASSUME UNCHANGED Flash, pc \in InRom, pc' \in InRom, loc'.attempt = loc.attempt
      PROVE  UNCHANGED Promise!vars
  <2>1. Ordered(0)' = Ordered(0)
    BY <1>2 DEF Ordered, Flash, Slots
  <2> QED BY <1>2, <2>1 DEF Promise!vars, BootMode, Running, GivenUp, Flash
<1>3. ASSUME UNCHANGED Flash, pc' \in {"shutdown", "trap"}
      PROVE  Promise!Next
  BY <1>3 DEF Promise!Next, Promise!Halt, BootMode, Running, GivenUp, Flash
<1>4. CASE RomInit \/ WipeRetention \/ StoreReasons \/ ClearReasons
  BY <1>2, <1>4 DEF RomInit, WipeRetention, StoreReasons, ClearReasons
<1>5. CASE InitEnd \/ TryBoot
  BY <1>2, <1>3, <1>5 DEF InitEnd, TryBoot, Trap
<1>6. CASE EnterBootstrap
  <2>1. /\ pc = "strap" /\ pc' = "bootstrap" /\ UNCHANGED Flash /\ chip.bootstrapEn
        /\ loc.attempt = 0
    BY <1>1, <1>6 DEF EnterBootstrap, Flow, NoLoc
  <2> QED BY <2>1 DEF Promise!Next, Promise!EnterBootstrap, BootMode, Running, GivenUp, Flash
<1>7. CASE VerifyEarlyReturn
  <2>1. loc'.attempt = loc.attempt
    BY <1>1, <1>7 DEF VerifyEarlyReturn, Locs
  <2> QED BY <1>2, <1>7, <2>1 DEF VerifyEarlyReturn
<1>8. CASE Verify
  <2>1. /\ pc = "verify" /\ UNCHANGED Flash
        /\ \/ pc' = "trap"
           \/ pc' = "judge" /\ \E ok \in {slots[Current].sig, FALSE} : Verdict(ok)
    BY <1>8 DEF Verify, Trap
  <2>2. CASE pc' = "judge" /\ \E ok \in {slots[Current].sig, FALSE} : Verdict(ok)
    <3>1. loc'.attempt = loc.attempt
      BY <1>1, <2>2 DEF Verdict, Locs
    <3> QED BY <1>2, <2>1, <2>2, <3>1
  <2> QED BY <1>3, <2>1, <2>2
<1>9. CASE Accept
  BY <1>2, <1>3, <1>9 DEF Accept, Trap
<1>10. CASE SecondAttempt
  <2>1. /\ pc = "judge" /\ loc.result = "bad" /\ loc.attempt = 0 /\ UNCHANGED Flash
        /\ \/ pc' = "trap"
           \/ pc' = "verify" /\ loc' = [loc EXCEPT !.attempt = 1, !.result = "none"]
    BY <1>10 DEF SecondAttempt, Trap
  <2>2. CASE pc' = "verify" /\ loc' = [loc EXCEPT !.attempt = 1, !.result = "none"]
    <3>1. loc'.attempt = 1
      BY <1>1, <2>2 DEF Locs
    <3>2. BootMode = "rom" /\ GivenUp = {} /\ Current = Ordered(0) /\ Running = NoSlot
      BY <2>1 DEF BootMode, GivenUp, Current, Running
    <3>3. Promise!Turn(Current)
      BY <1>1, <2>1, <3>2, OrderedTurns
    <3>4. Promise!Eligible(slots[Current]) => UsesOtbn
      BY <1>1, <2>1, JudgedEligible DEF Judged
    <3>5. UsesOtbn => Promise!Engine = "otbn"
      BY DEF UsesOtbn, Promise!Engine
    <3>6. /\ BootMode' = "rom" /\ Running' = NoSlot /\ GivenUp' = {Ordered(0)}
      <4>1. Ordered(0)' = Ordered(0)
        BY <2>1 DEF Ordered, Flash, Slots
      <4> QED BY <2>2, <3>1, <4>1 DEF BootMode, Running, GivenUp
    <3>7. Promise!Reject(Current)
      BY <2>1, <3>2, <3>3, <3>4, <3>5, <3>6 DEF Promise!Reject, Flash
    <3> QED BY <1>1, <3>7 DEF Promise!Next, Promise!Slots, Slots
  <2> QED BY <1>3, <2>1, <2>2
<1>11. CASE BothFail \/ ErrorReturn
  BY <1>3, <1>11 DEF BothFail, ErrorReturn
<1>12. CASE BindKeymgr \/ PreBootCheck
  BY <1>2, <1>3, <1>12 DEF BindKeymgr, PreBootCheck, Trap
<1>13. CASE Translate
  <2>1. /\ pc = "remap" /\ UNCHANGED Flash /\ UNCHANGED loc /\ pc' \in {"trap", "precheck"}
    BY <1>1, <1>13, ImageType DEF Translate, Trap
  <2> QED BY <1>2, <1>3, <2>1
<1>14. CASE Jump
  <2>1. /\ pc = "exec" /\ UNCHANGED Flash /\ UNCHANGED loc
        /\ \/ pc' = "trap"
           \/ pc' = "romext" /\ regs' = [regs EXCEPT !.exec = loc.flashExec]
    BY <1>14 DEF Jump, Trap
  <2>2. CASE pc' = "romext" /\ regs' = [regs EXCEPT !.exec = loc.flashExec]
    <3>1. loc.result = "ok" /\ regs.text = Current
      BY <1>1, <2>1 DEF Flow, Passed
    <3>2. Running' = Current /\ BootMode' = "romext" /\ GivenUp' = {}
      <4>1. regs'.text = regs.text
        BY <1>1, <2>2 DEF Regs
      <4> QED BY <2>2, <3>1, <4>1 DEF Running, BootMode, GivenUp
    <3>3. Promise!Turn(Current)
      <4>1. BootMode = "rom" /\ GivenUp = IF loc.attempt = 1 THEN {Ordered(0)} ELSE {}
        BY <2>1 DEF BootMode, GivenUp
      <4>2. loc.attempt \in {0, 1}
        BY <1>1 DEF Locs
      <4> QED BY <1>1, <4>1, <4>2, OrderedTurns
    <3>4. Promise!Eligible(slots[Current])
      BY <1>1, <2>1, <3>1, JudgedEligible DEF Judged
    <3>5. Promise!Run(Current)
      BY <2>1, <3>2, <3>3, <3>4 DEF Promise!Run, Flash
    <3> QED BY <1>1, <3>5 DEF Promise!Next, Promise!Slots, Slots
  <2> QED BY <1>3, <2>1, <2>2
<1>15. CASE \E cause \in {"PowerOn"} \cup Causes : Reset(cause)
  <2>1. pc' = "start" /\ loc'.attempt = 0 /\ UNCHANGED Flash
    BY <1>15 DEF Reset, NoLoc
  <2> QED BY <2>1 DEF Promise!Next, Promise!Reset, BootMode, Running, GivenUp, Flash
<1>16. CASE UpdateSlot
  <2>1. pc \in {"romext", "bootstrap"} /\ UNCHANGED <<chip, min, pc, regs>>
    BY <1>16 DEF UpdateSlot
  <2> QED BY <2>1 DEF Promise!Next, Promise!Update, BootMode, Running, GivenUp
<1>17. CASE RaiseMin
  <2>1. pc = "romext" /\ UNCHANGED <<chip, slots, pc, regs>>
    BY <1>17 DEF RaiseMin
  <2> QED BY <2>1 DEF Promise!Next, Promise!Update, BootMode, Running, GivenUp
<1>18. CASE UseRam
  <2>1. pc = "romext" /\ UNCHANGED <<chip, slots, min, pc, regs>>
    BY <1>18 DEF UseRam, Flash
  <2> QED BY <2>1 DEF Promise!vars, BootMode, Running, GivenUp
<1> QED BY <1>4, <1>5, <1>6, <1>7, <1>8, <1>9, <1>10, <1>11, <1>12, <1>13, <1>14, <1>15,
           <1>16, <1>17, <1>18 DEF Next

\* The boot flow implements its abstract specification: whatever resets,
\* fallbacks and OTBN errors occur, it only starts an eligible image and only
\* out of the order of the boot policy when the first one was rejected.
THEOREM BootsSecurely == Spec => SecureBoot
<1>1. IInv /\ UNCHANGED vars => UNCHANGED Promise!vars
  <2> SUFFICES ASSUME UNCHANGED vars
               PROVE  UNCHANGED Promise!vars
    OBVIOUS
  <2>1. UNCHANGED <<chip, slots, min, pc, loc, regs>>
    BY DEF vars
  <2>2. Ordered(0)' = Ordered(0)
    BY <2>1 DEF Ordered, Slots
  <2> QED BY <2>1, <2>2 DEF Promise!vars, BootMode, Running, GivenUp
<1>2. IInv /\ [Next]_vars => [Promise!Next]_(Promise!vars)
  BY <1>1, RefinesStep
<1>3. Spec => Init /\ []IInv /\ [][Next]_vars
  BY Invariant DEF Spec
<1> QED BY <1>2, <1>3, RefinesInit, PTL DEF SecureBoot, Promise!Spec
=============================================================================
