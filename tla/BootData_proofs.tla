--------------------------- MODULE BootData_proofs ---------------------------
(***************************************************************************)
(* Proofs about BootData, for every page size, every set of versions and   *)
(* every bound on the counter: its invariant, and that it implements       *)
(* BootDataSpec, in which the newest valid entry is a register that        *)
(* survives resets.  One step of the code commits a write, the program     *)
(* transaction after which the new entry is complete; all others leave the *)
(* register alone, those that are cut off or fail included.                *)
(***************************************************************************)
EXTENDS BootDataInv, TLAPS

-----------------------------------------------------------------------------
(* Entries and pages *)

LEMMA EntryType ==
  ASSUME NEW d \in Content \cup {Erased, Torn}, NEW b \in BOOLEAN,
         NEW c \in Nat \cup {Erased, Torn}, NEW v \in Versions \cup {Erased, Torn}
  PROVE  Entry(d, b, c, v) \in Entries
  BY DEF Entry, Entries

LEMMA EntryFields ==
  ASSUME NEW e \in Entries
  PROVE  /\ e.dig \in Content \cup {Erased, Torn}
         /\ e.valid \in BOOLEAN
         /\ e.ctr \in Nat \cup {Erased, Torn}
         /\ e.ver \in Versions \cup {Erased, Torn}
  BY DEF Entries

\* A valid entry holds a counter and versions, never a partly written field.
LEMMA CheckedEntry ==
  ASSUME NEW e \in Entries, Check(e)
  PROVE  e.ctr \in Nat /\ e.ver \in Versions /\ Data(e) \in Content
<1>1. e.dig = [ctr |-> e.ctr, ver |-> e.ver] /\ e.dig \in Content \cup {Erased, Torn}
  BY EntryFields DEF Check, Data
<1>2. [ctr |-> e.ctr, ver |-> e.ver] \in [ctr : Nat \cup {Erased, Torn},
                                         ver : Versions \cup {Erased, Torn}]
  BY EntryFields
<1>3. e.dig \in Content
  BY <1>1, <1>2, DistinctAssumption
<1> QED BY <1>1, <1>3 DEF Data, Content

LEMMA PutType ==
  ASSUME NEW p \in Pages, NEW i \in Indices, NEW e \in Entries,
         flash \in [Pages -> [Indices -> Entries]]
  PROVE  Put(p, i, e) \in [Pages -> [Indices -> Entries]]
  BY DEF Put

LEMMA PutPageType ==
  ASSUME NEW p \in Pages, NEW page \in [Indices -> Entries],
         flash \in [Pages -> [Indices -> Entries]]
  PROVE  PutPage(p, page) \in [Pages -> [Indices -> Entries]]
  BY DEF PutPage

LEMMA EmptyType == EmptyEntry \in Entries
  BY EntryType DEF EmptyEntry

LEMMA PartlyErasedType ==
  ASSUME NEW e \in Entries, NEW x \in PartlyErased(e)
  PROVE  x \in Entries
<1>1. Entry(IF e.dig = Erased THEN Erased ELSE Torn, e.valid, e.ctr, e.ver) \in Entries
  BY EntryFields, EntryType
<1>2. /\ Entry(Erased, e.valid, e.ctr, e.ver) \in Entries
      /\ Entry(Erased, TRUE, e.ctr, e.ver) \in Entries
      /\ Entry(Erased, TRUE, Erased, e.ver) \in Entries
  BY EntryFields, EntryType
<1> QED BY <1>1, <1>2 DEF PartlyErased

\* What an interrupted transaction leaves is an array of entries again.
LEMMA PartialFlashType ==
  ASSUME TypeInv, NEW f \in PartialFlash
  PROVE  f \in [Pages -> [Indices -> Entries]]
<1>1. flash \in [Pages -> [Indices -> Entries]]
  BY DEF TypeInv, TypeOK
<1>2. CASE pc = "erase"
  <2>1. job \in Jobs
    BY <1>2 DEF TypeInv, Shape, Writing
  <2>2. PICK x \in TornErase(flash[job.page]) : f = PutPage(job.page, x)
    BY <1>2 DEF PartialFlash
  <2>3. PICK i \in Indices : \E e \in PartlyErased(flash[job.page][i]) :
                               x = ErasedUpTo(flash[job.page], i, e)
    BY <2>2 DEF TornErase
  <2>4. PICK e \in PartlyErased(flash[job.page][i]) : x = ErasedUpTo(flash[job.page], i, e)
    BY <2>3
  <2>5. e \in Entries
    BY <1>1, <2>1, <2>4, PartlyErasedType DEF Jobs
  <2>6. x \in [Indices -> Entries]
    BY <1>1, <2>1, <2>4, <2>5, EmptyType DEF ErasedUpTo, Jobs
  <2> QED BY <1>1, <2>1, <2>2, <2>6, PutPageType DEF Jobs
<1>3. CASE pc \in {"digest", "rest"}
  <2>1. job \in Jobs
    BY <1>3 DEF TypeInv, Shape, Writing
  <2>2. Target \in Entries
    BY <1>1, <2>1 DEF Target, Jobs
  <2>3. PICK e \in PartlyDigest(Target) \cup PartlyRest(Target, job.entry) :
               f = Put(job.page, job.idx, e)
    BY <1>3 DEF PartialFlash
  <2>4. job.entry.ctr \in Nat /\ job.entry.ver \in Versions
    BY <2>1 DEF Jobs, Content
  <2>5. /\ Entry(Torn, Target.valid, Target.ctr, Target.ver) \in Entries
        /\ Entry(Target.dig, Target.valid, job.entry.ctr, Target.ver) \in Entries
        /\ Entry(Target.dig, Target.valid, job.entry.ctr, job.entry.ver) \in Entries
    BY <2>2, <2>4, EntryType, EntryFields
  <2>6. e \in Entries
    BY <2>2, <2>3, <2>5 DEF PartlyDigest, PartlyRest
  <2> QED BY <1>1, <2>1, <2>3, <2>6, PutType DEF Jobs
<1>4. CASE pc \notin {"erase", "digest", "rest"}
  BY <1>1, <1>4 DEF PartialFlash
<1> QED BY <1>2, <1>3, <1>4

-----------------------------------------------------------------------------
(* Types *)

LEMMA NoPermsType ==
  /\ NoPerms \in [Pages -> SUBSET {"read", "write", "erase"}]
  /\ \A p \in Pages, s \in SUBSET {"read", "write", "erase"} :
       Only(p, s) \in [Pages -> SUBSET {"read", "write", "erase"}]
  BY DEF NoPerms, Only

LEMMA NoInfoType == NoInfo \in Infos /\ ~NoInfo.has
  BY BootDataAssumption DEF NoInfo, Infos, Pages

LEMMA TypeInit == Init => TypeInv
<1> SUFFICES ASSUME Init PROVE TypeInv
  OBVIOUS
<1>1. flash \in [Pages -> [Indices -> Entries]]
  BY EmptyType DEF Init
<1> QED BY <1>1, NoPermsType, NoInfoType
  DEF Init, TypeInv, TypeOK, Shape, Writing, InFlash

\* A call that returns, or a reset, leaves the volatile state as Init has it.
LEMMA TypeReturn ==
  ASSUME TypeInv, flash' \in [Pages -> [Indices -> Entries]],
         pc' = "idle", perms' = NoPerms, call' = None, info' = NoInfo, job' = None,
         ret' \in Rets \cup {None}
  PROVE  TypeInv'
  BY NoPermsType, NoInfoType DEF TypeInv, TypeOK, Shape, Writing, InFlash,
     Infos, Pages, Indices, NoInfo, Content

LEMMA TypeStart ==
  ASSUME TypeInv, NEW c \in Calls, Start(c)
  PROVE  TypeInv'
<1>1. Only(0, {"read"}) \in [Pages -> SUBSET {"read", "write", "erase"}]
  BY NoPermsType DEF Pages
<1> QED BY <1>1 DEF Start, TypeInv, TypeOK, Shape, Writing, InFlash

LEMMA TypeScan ==
  ASSUME TypeInv, NEW p \in Pages, ScanPage(p)
  PROVE  TypeInv'
<1>1. pc \in {"scan0", "scan1"} /\ call \in Calls
  BY DEF ScanPage, Scanning, TypeInv, Shape, InFlash
<1>2. /\ pc' \in {"scan1", "plan", "trap"}
      /\ perms' \in [Pages -> SUBSET {"read", "write", "erase"}]
  BY NoPermsType DEF ScanPage, Advance, Trap, Pages, TypeInv, TypeOK
<1>3. info' \in Infos /\ (info'.has => info'.entry \in Content /\ info'.lastValid \in Indices)
  <2>1. CASE UNCHANGED info
    BY <2>1 DEF TypeInv, TypeOK, Shape
  <2>2. ASSUME NEW fe \in 0 .. EntriesPerPage, NEW i \in Indices,
               IsLastValid(flash[p], fe, i),
               info' = [has |-> TRUE, page |-> p, firstEmpty |-> fe,
                        lastValid |-> i, entry |-> Data(flash[p][i])]
        PROVE  info' \in Infos /\ info'.entry \in Content /\ info'.lastValid \in Indices
    <3>1. Data(flash[p][i]) \in Content
      BY <2>2, CheckedEntry DEF IsLastValid, TypeInv, TypeOK
    <3> QED BY <2>2, <3>1, BootDataAssumption DEF Infos, Indices
  <2> QED BY <2>1, <2>2 DEF ScanPage
<1> QED BY <1>1, <1>2, <1>3 DEF ScanPage, TypeInv, TypeOK, Shape, Writing, InFlash

LEMMA TypePlan ==
  ASSUME TypeInv, Plan
  PROVE  TypeInv'
<1>1. /\ info \in Infos /\ call \in Calls /\ call.op = "write"
      /\ info.has => info.entry \in Content
  BY DEF TypeInv, TypeOK, Shape, Plan
<1>2. call.ver \in Versions
  BY <1>1 DEF Calls
<1>3. NextCounter \in Nat
  BY <1>1, BootDataAssumption DEF NextCounter, Content
<1>4. TargetPage \in Pages
  BY <1>1 DEF TargetPage, OtherPage, Infos, Pages, NeedsErase
<1>5. (IF NeedsErase THEN 0 ELSE info.firstEmpty) \in Indices
  BY <1>1, BootDataAssumption DEF NeedsErase, Infos, Indices
<1>6. job' \in Jobs
  BY <1>2, <1>3, <1>4, <1>5 DEF Plan, Jobs, Content
<1>7. perms' \in [Pages -> SUBSET {"read", "write", "erase"}]
  BY <1>4, NoPermsType DEF Plan
<1> QED BY <1>6, <1>7 DEF Plan, TypeInv, TypeOK, Shape, Writing, InFlash

LEMMA TypeProgram ==
  ASSUME TypeInv, Erase \/ ProgramDigest \/ ProgramRest
  PROVE  TypeInv'
<1>1. job \in Jobs /\ flash \in [Pages -> [Indices -> Entries]] /\ call \in Calls
  BY DEF TypeInv, TypeOK, Shape, Writing, InFlash, Erase, ProgramDigest, ProgramRest
<1>2. Target \in Entries /\ job.entry.ctr \in Nat /\ job.entry.ver \in Versions
  BY <1>1 DEF Target, Jobs, Content
<1>3. flash' \in [Pages -> [Indices -> Entries]]
  <2>1. CASE Erase
    BY <1>1, <2>1, EmptyType, PutPageType DEF Erase, Jobs
  <2>2. CASE ProgramDigest
    <3>1. PICK d \in Weak(Target.dig, job.entry) :
            flash' = Put(job.page, job.idx, Entry(d, Target.valid, Target.ctr, Target.ver))
      BY <2>2 DEF ProgramDigest
    <3>2. d \in Content \cup {Erased, Torn}
      BY <1>1 DEF Weak, Jobs
    <3>3. Entry(d, Target.valid, Target.ctr, Target.ver) \in Entries
      BY <1>2, <3>2, EntryType, EntryFields
    <3> QED BY <1>1, <3>1, <3>3, PutType DEF Jobs
  <2>3. CASE ProgramRest
    <3>1. PICK c \in Weak(Target.ctr, job.entry.ctr), v \in Weak(Target.ver, job.entry.ver) :
            flash' = Put(job.page, job.idx, Entry(Target.dig, Target.valid, c, v))
      BY <2>3 DEF ProgramRest
    <3>2. c \in Nat \cup {Erased, Torn} /\ v \in Versions \cup {Erased, Torn}
      BY <1>2 DEF Weak
    <3>3. Entry(Target.dig, Target.valid, c, v) \in Entries
      BY <1>2, <3>2, EntryType, EntryFields
    <3> QED BY <1>1, <3>1, <3>3, PutType DEF Jobs
  <2> QED BY <2>1, <2>2, <2>3
<1> QED BY <1>1, <1>3 DEF Erase, ProgramDigest, ProgramRest,
  TypeInv, TypeOK, Shape, Writing, InFlash

LEMMA ReturnType ==
  ASSUME call \in Calls,
         NEW res \in {"Ok", "NotFound", "WriteCheck", "FlashError"},
         NEW entry \in Content \cup {None}, Return(res, entry)
  PROVE  ret' \in Rets
<1>1. call.op \in {"read", "write"}
  BY DEF Calls
<1> QED BY <1>1 DEF Return, Rets

LEMMA TypeNext == TypeInv /\ [Next]_vars => TypeInv'
<1> SUFFICES ASSUME TypeInv, [Next]_vars PROVE TypeInv'
  OBVIOUS
<1>1. ASSUME NEW lc \in LcArgs, StartRead(lc) PROVE TypeInv'
  BY <1>1, TypeStart DEF StartRead, Calls
<1>2. ASSUME NEW v \in Versions, StartWrite(v) PROVE TypeInv'
  BY <1>2, TypeStart DEF StartWrite, Calls
<1>3. ASSUME NEW p \in Pages, ScanPage(p) PROVE TypeInv'
  BY <1>3, TypeScan
<1>4. CASE ReadReturn
  <2>1. call \in Calls /\ info \in Infos /\ Default \in Content
    BY <1>4, BootDataAssumption DEF ReadReturn, TypeInv, TypeOK, Shape, Default, Content
  <2>2. ret' \in Rets
    <3>1. info.entry \in Content \cup {None}
      BY <2>1 DEF Infos
    <3> QED BY <1>4, <2>1, <3>1, ReturnType DEF ReadReturn
  <2> QED BY <1>4, <2>2, TypeReturn DEF ReadReturn, Return, TypeInv, TypeOK
<1>5. CASE Plan
  BY <1>5, TypePlan
<1>6. CASE Erase \/ ProgramDigest \/ ProgramRest
  BY <1>6, TypeProgram
<1>7. CASE ReadBack
  <2>1. call \in Calls /\ info \in Infos
    BY <1>7 DEF ReadBack, TypeInv, TypeOK, Shape, InFlash
  <2>2. ASSUME NEW res \in {"Ok", "WriteCheck"}, Return(res, None) PROVE TypeInv'
    <3>1. ret' \in Rets
      BY <2>1, <2>2, ReturnType
    <3> QED BY <1>7, <2>2, <3>1, TypeReturn DEF ReadBack, Return, TypeInv, TypeOK
  <2>3. CASE info.has /\ pc' = "invalidate" /\ perms' = Only(info.page, {"write"})
             /\ UNCHANGED <<call, info, job, ret>>
    <3>1. perms' \in [Pages -> SUBSET {"read", "write", "erase"}]
      BY <2>1, <2>3, NoPermsType DEF Infos
    <3> QED BY <1>7, <2>1, <2>3, <3>1 DEF ReadBack, TypeInv, TypeOK, Shape, Writing, InFlash
  <2> QED BY <1>7, <2>2, <2>3 DEF ReadBack
<1>8. CASE Invalidate
  <2>1. /\ call \in Calls /\ info \in Infos /\ info.has /\ info.lastValid \in Indices
        /\ flash \in [Pages -> [Indices -> Entries]]
    BY <1>8 DEF Invalidate, TypeInv, TypeOK, Shape, InFlash
  <2>2. ret' \in Rets
    BY <1>8, <2>1, ReturnType DEF Invalidate
  <2>3. flash' \in [Pages -> [Indices -> Entries]]
    <3> DEFINE old == flash[info.page][info.lastValid]
    <3>1. old \in Entries
      BY <2>1 DEF Infos
    <3>2. Entry(old.dig, FALSE, old.ctr, old.ver) \in Entries
      BY <3>1, EntryType, EntryFields
    <3>3. Put(info.page, info.lastValid, Entry(old.dig, FALSE, old.ctr, old.ver))
            \in [Pages -> [Indices -> Entries]]
      BY <2>1, <3>2, PutType DEF Infos
    <3>4. \/ flash' = Put(info.page, info.lastValid, Entry(old.dig, FALSE, old.ctr, old.ver))
          \/ UNCHANGED flash
      BY <1>8 DEF Invalidate
    <3> QED BY <2>1, <3>3, <3>4
  <2> QED BY <1>8, <2>2, <2>3, TypeReturn DEF Invalidate, Return
<1>9. CASE FlashError
  <2>1. call \in Calls
    BY <1>9 DEF FlashError, TypeInv, Shape
  <2>2. ret' \in Rets
    BY <1>9, <2>1, ReturnType DEF FlashError
  <2> QED BY <1>9, <2>2, PartialFlashType, TypeReturn DEF FlashError, Return
<1>10. CASE Reset
  BY <1>10, PartialFlashType, TypeReturn DEF Reset
<1>11. CASE UNCHANGED vars
  BY <1>11 DEF vars, TypeInv, TypeOK, Shape
<1> QED BY <1>1, <1>2, <1>3, <1>4, <1>5, <1>6, <1>7, <1>8, <1>9, <1>10, <1>11 DEF Next

\* Every variable of boot_data.c's model keeps its type: entries are never a mix
\* the code cannot tell apart, and every call returns one of its four results.
THEOREM TypeCorrect == Spec => []TypeOK
<1>1. Spec => []TypeInv
  BY TypeInit, TypeNext, PTL DEF Spec
<1>2. TypeInv => TypeOK
  BY DEF TypeInv
<1> QED BY <1>1, <1>2, PTL

-----------------------------------------------------------------------------
(* Valid entries *)

LEMMA ValidType ==
  ASSUME TypeInv, NEW p \in Pages, NEW i \in Indices
  PROVE  /\ flash[p][i] \in Entries
         /\ Valid(p, i) => flash[p][i].ctr \in Nat /\ Data(flash[p][i]) \in Content
         /\ Valid(p, i) => ~IsEmpty(flash[p][i])
<1>1. flash[p][i] \in Entries
  BY DEF TypeInv, TypeOK
<1>2. Valid(p, i) => flash[p][i].ctr \in Nat /\ Data(flash[p][i]) \in Content
  BY <1>1, CheckedEntry DEF Valid
<1>3. EmptyEntry.ctr = Erased /\ Erased \notin Nat
  BY DistinctAssumption DEF EmptyEntry, Entry
<1> QED BY <1>1, <1>2, <1>3 DEF IsEmpty

\* A digest that was not programmed wholly belongs to no content.
LEMMA TornInvalid ==
  ASSUME NEW e \in Entries, ~(e.dig \in Content /\ e.ctr \in Nat /\ e.ver \in Versions)
  PROVE  ~Check(e)
<1> SUFFICES ASSUME Check(e) PROVE FALSE
  OBVIOUS
<1>1. e.ctr \in Nat /\ e.ver \in Versions /\ Data(e) \in Content
  BY CheckedEntry
<1> QED BY <1>1 DEF Check

LEMMA UniqueNewest ==
  ASSUME TypeInv, Ordered, NEW p \in Pages, NEW q \in Pages,
         NEW i \in Indices, NEW j \in Indices, Newest(p, i), Newest(q, j)
  PROVE  p = q /\ i = j
<1>1. Valid(p, i) /\ Valid(q, j)
  BY DEF Newest
<1>2. flash[p][i].ctr \in Nat /\ flash[q][j].ctr \in Nat
  BY <1>1, ValidType
<1>3. flash[p][i].ctr = flash[q][j].ctr
  <2>1. flash[p][i].ctr <= flash[q][j].ctr /\ flash[q][j].ctr <= flash[p][i].ctr
    BY <1>1 DEF Newest
  <2> QED BY <1>2, <2>1
<1>4. p = q
  BY <1>1, <1>3 DEF Ordered
<1>5. ~(i < j) /\ ~(j < i)
  BY <1>1, <1>2, <1>3, <1>4 DEF Ordered
<1> QED BY <1>4, <1>5, BootDataAssumption DEF Indices

-----------------------------------------------------------------------------
(* Steps that take valid entries away *)

\* No entry became valid and the newest one is as it was.
Kept ==
  /\ \A p \in Pages, i \in Indices : Valid(p, i)' => flash'[p][i] = flash[p][i]
  /\ \A p \in Pages, i \in Indices : Newest(p, i) => flash'[p][i] = flash[p][i]

LEMMA OrderedShrinks ==
  ASSUME Ordered,
         \A p \in Pages, i \in Indices :
           Valid(p, i)' => flash'[p][i] = flash[p][i]
  PROVE  Ordered'
<1>1. \A p \in Pages, i \in Indices : Valid(p, i)' => Valid(p, i)
  BY DEF Valid
<1> QED BY <1>1 DEF Ordered

LEMMA LiveShrinks ==
  ASSUME \A p \in Pages, i \in Indices :
           Valid(p, i)' => flash'[p][i] = flash[p][i],
         NEW p \in Pages, NEW i \in Indices,
         Newest(p, i), flash'[p][i] = flash[p][i], NoHoles(p)'
  PROVE  Live'
<1>1. \A q \in Pages, j \in Indices : Valid(q, j)' => Valid(q, j)
  BY DEF Valid
<1>2. Newest(p, i)'
  BY <1>1 DEF Newest, Valid
<1> QED BY <1>2 DEF Live

LEMMA NoneShrinks ==
  ASSUME \A p \in Pages, i \in Indices :
           Valid(p, i)' => flash'[p][i] = flash[p][i],
         \A p \in Pages, i \in Indices : ~Valid(p, i)
  PROVE  Live'
  BY DEF Valid, Live

LEMMA FlashKept ==
  ASSUME Ordered, Live, UNCHANGED flash
  PROVE  Ordered' /\ Live' /\ Kept
<1>0. \A p \in Pages, i \in Indices : Valid(p, i)' => flash'[p][i] = flash[p][i]
  OBVIOUS
<1>1. Ordered' /\ Kept
  BY <1>0, OrderedShrinks DEF Kept
<1>2. CASE \A p \in Pages, i \in Indices : ~Valid(p, i)
  BY <1>0, <1>1, <1>2, NoneShrinks
<1>3. ASSUME NEW p \in Pages, NEW i \in Indices, Newest(p, i), NoHoles(p) PROVE Live'
  <2>1. NoHoles(p)'
    BY <1>3 DEF NoHoles
  <2> QED BY <1>0, <1>3, <2>1, LiveShrinks
<1> QED BY <1>1, <1>2, <1>3 DEF Live

-----------------------------------------------------------------------------
(* The entry that a write replaces *)

Before == {"erase", "digest", "rest"}

LEMMA OldIsNewest ==
  ASSUME TypeInv, Ordered, Live, WriteInv, pc \in Before
  PROVE  /\ info.has => Newest(info.page, info.lastValid) /\ NoHoles(info.page)
         /\ ~info.has => \A p \in Pages, i \in Indices : ~Valid(p, i)
         /\ job \in Jobs /\ info.page \in Pages
         /\ info.has => info.lastValid \in Indices
<1>1. Replaces /\ \A p \in Pages, i \in Indices : ~IsTarget(p, i)
  BY DEF WriteInv, Writing, Before, IsTarget
<1>2. /\ job \in Jobs /\ info.page \in Pages
      /\ info.has => info.lastValid \in Indices
  BY DEF TypeInv, TypeOK, Shape, Infos, Writing, Before
<1>3. ~info.has => \A p \in Pages, i \in Indices : ~Valid(p, i)
  BY <1>1 DEF Replaces
<1>4. ASSUME info.has PROVE Newest(info.page, info.lastValid) /\ NoHoles(info.page)
  <2>1. Newest(info.page, info.lastValid)
    BY <1>1, <1>2, <1>4 DEF Replaces, Newest
  <2>2. PICK p \in Pages, i \in Indices : Newest(p, i) /\ NoHoles(p)
    BY <1>2, <1>4, <2>1 DEF Live, Newest
  <2>3. p = info.page
    BY <1>2, <1>4, <2>1, <2>2, UniqueNewest
  <2> QED BY <2>1, <2>2, <2>3
<1> QED BY <1>2, <1>3, <1>4

\* Erasing, wholly or in part, the page that the newest entry is not on.
LEMMA EraseKeeps ==
  ASSUME TypeInv, Ordered, Live, WriteInv, pc = "erase",
         NEW page \in [Indices -> Entries], flash' = PutPage(job.page, page),
         \A i \in Indices : Check(page[i]) => page[i] = flash[job.page][i]
  PROVE  Ordered' /\ Live' /\ Kept
<1>1. /\ info.has => Newest(info.page, info.lastValid) /\ NoHoles(info.page)
      /\ ~info.has => \A p \in Pages, i \in Indices : ~Valid(p, i)
      /\ job \in Jobs /\ info.page \in Pages
      /\ info.has => info.lastValid \in Indices
  BY OldIsNewest DEF Before
<1>2. /\ job.page \in Pages
      /\ info.has => job.page # info.page
  BY <1>1 DEF WriteInv, Writing, Jobs
<1>3. \A p \in Pages : flash'[p] = IF p = job.page THEN page ELSE flash[p]
  BY <1>2 DEF PutPage, TypeInv, TypeOK
<1>4. \A p \in Pages, i \in Indices : Valid(p, i)' => flash'[p][i] = flash[p][i]
  BY <1>3 DEF Valid
<1>5. Ordered'
  BY <1>4, OrderedShrinks
<1>6. CASE ~info.has
  BY <1>1, <1>4, <1>5, <1>6, NoneShrinks DEF Kept, Newest
<1>7. CASE info.has
  <2>1. PICK p \in Pages, i \in Indices : p = info.page /\ i = info.lastValid
    BY <1>1, <1>7
  <2>2. flash'[p] = flash[p]
    BY <1>2, <1>3, <1>7, <2>1
  <2>3. NoHoles(p)'
    BY <1>1, <1>7, <2>1, <2>2 DEF NoHoles
  <2>4. Newest(p, i) /\ flash'[p][i] = flash[p][i]
    BY <1>1, <1>7, <2>1, <2>2
  <2>5. Kept
    BY <1>4, <2>4, UniqueNewest DEF Kept
  <2> QED BY <1>4, <1>5, <2>3, <2>4, <2>5, LiveShrinks
<1> QED BY <1>6, <1>7

LEMMA PutAt ==
  ASSUME TypeInv, NEW p \in Pages, NEW i \in Indices, NEW e \in Entries,
         NEW q \in Pages, NEW j \in Indices
  PROVE  Put(p, i, e)[q][j] = IF q = p /\ j = i THEN e ELSE flash[q][j]
  BY DEF Put, TypeInv, TypeOK

\* What a write knows while it programs its target.
LEMMA Programming ==
  ASSUME TypeInv, WriteInv, pc \in {"digest", "rest"}
  PROVE  /\ job \in Jobs /\ job.page \in Pages /\ job.idx \in Indices
         /\ job.entry \in Content /\ job.entry.ctr \in Nat /\ job.entry.ver \in Versions
         /\ Target \in Entries /\ ~Check(Target) /\ Target.valid
         /\ Target.ctr = Erased /\ Target.ver = Erased
         /\ Appends
<1>1. /\ job \in Jobs /\ job.page \in Pages /\ job.idx \in Indices
      /\ job.entry \in Content /\ job.entry.ctr \in Nat /\ job.entry.ver \in Versions
      /\ Appends /\ Written0
  BY DEF TypeInv, Shape, Writing, WriteInv, Jobs, Content
<1>2. Target \in Entries
  BY <1>1 DEF Target, TypeInv, TypeOK
<1>3. Target.valid /\ Target.ctr = Erased /\ Target.ver = Erased
  BY <1>1 DEF Written0, EmptyEntry, Entry
<1>4. ~Check(Target)
  BY <1>2, <1>3, TornInvalid, DistinctAssumption
<1> QED BY <1>1, <1>2, <1>3, <1>4

\* The target holds a part of the new entry.
LEMMA PartKeeps ==
  ASSUME TypeInv, Ordered, Live, WriteInv, pc \in {"digest", "rest"},
         NEW e \in Entries, flash' = Put(job.page, job.idx, e),
         ~Check(e), ~IsEmpty(e)
  PROVE  Ordered' /\ Live' /\ Kept
<1>1. /\ job.page \in Pages /\ job.idx \in Indices
      /\ ~Check(Target) /\ Appends
  BY Programming
<1>2. \A p \in Pages, i \in Indices :
        flash'[p][i] = IF p = job.page /\ i = job.idx THEN e ELSE flash[p][i]
  BY <1>1, PutAt
<1>3. \A p \in Pages, i \in Indices : Valid(p, i)' => flash'[p][i] = flash[p][i]
  BY <1>2 DEF Valid
<1>4. Ordered' /\ Kept
  <2>1. \A p \in Pages, i \in Indices : Newest(p, i) => flash'[p][i] = flash[p][i]
    BY <1>1, <1>2 DEF Newest, Valid, Target
  <2> QED BY <1>3, <2>1, OrderedShrinks DEF Kept
<1>5. CASE ~info.has
  BY <1>3, <1>4, <1>5, OldIsNewest, NoneShrinks DEF Before
<1>6. CASE info.has
  <2>1. PICK p \in Pages, i \in Indices : Newest(p, i) /\ NoHoles(p)
    BY <1>6, OldIsNewest DEF Before
  <2>2. flash'[p][i] = flash[p][i]
    BY <1>1, <1>2, <2>1 DEF Newest, Valid, Target
  <2>3. NoHoles(p)'
    <3>1. CASE p # job.page
      BY <1>2, <2>1, <3>1 DEF NoHoles
    <3>2. CASE p = job.page
      <4> SUFFICES ASSUME NEW j \in Indices, NEW k \in Indices, j < k,
                          IsEmpty(flash'[p][j])
                   PROVE  IsEmpty(flash'[p][k])
        BY DEF NoHoles
      <4>1. j # job.idx
        BY <1>2, <3>2
      <4>2. ~(j < job.idx)
        <5>1. IsEmpty(flash[job.page][j])
          BY <1>2, <3>2, <4>1
        <5> QED BY <1>1, <5>1 DEF Appends
      <4>3. k > job.idx
        BY <1>1, <4>1, <4>2, BootDataAssumption DEF Indices
      <4> QED BY <1>1, <1>2, <3>2, <4>3 DEF Appends, Indices
    <3> QED BY <3>1, <3>2
  <2> QED BY <1>3, <1>4, <2>1, <2>2, <2>3, LiveShrinks
<1> QED BY <1>5, <1>6

\* The target holds the new entry, which is the newest one now.
LEMMA WrittenKeeps ==
  ASSUME TypeInv, Ordered, Live, WriteInv, pc = "rest",
         flash' = Put(job.page, job.idx, Written)
  PROVE  /\ Ordered' /\ Live'
         /\ \A p \in Pages, i \in Indices :
              p = job.page /\ i = job.idx => Newest(p, i)' /\ NoHoles(p)'
<1>1. /\ job.page \in Pages /\ job.idx \in Indices
      /\ job.entry \in Content /\ job.entry.ctr \in Nat /\ job.entry.ver \in Versions
      /\ ~Check(Target) /\ Appends
  BY Programming
<1>2. Written \in Entries /\ Check(Written) /\ Written.ctr = job.entry.ctr /\ ~IsEmpty(Written)
  <2>1. Written \in Entries
    BY <1>1, EntryType DEF Written
  <2>2. job.entry = [ctr |-> job.entry.ctr, ver |-> job.entry.ver]
    BY <1>1 DEF Content
  <2>3. Check(Written) /\ Written.ctr = job.entry.ctr
    BY <2>2 DEF Check, Data, Written, Entry
  <2>4. ~IsEmpty(Written)
    BY <1>1, <2>3, DistinctAssumption DEF IsEmpty, EmptyEntry, Entry
  <2> QED BY <2>1, <2>3, <2>4
<1>3. \A p \in Pages, i \in Indices :
        flash'[p][i] = IF p = job.page /\ i = job.idx THEN Written ELSE flash[p][i]
  BY <1>1, <1>2, PutAt
<1>4. \A p \in Pages, i \in Indices :
        Valid(p, i) => flash[p][i].ctr \in Nat /\ flash[p][i].ctr < job.entry.ctr
  <2>1. Replaces /\ \A p \in Pages, i \in Indices : ~IsTarget(p, i)
    BY DEF WriteInv, Writing, IsTarget
  <2> QED BY <2>1, ValidType DEF Replaces
<1>5. \A p \in Pages, i \in Indices :
        Valid(p, i)' <=> (p = job.page /\ i = job.idx) \/ Valid(p, i)
  BY <1>1, <1>2, <1>3 DEF Valid, Target
<1>6. \A i \in Indices : i > job.idx => ~Valid(job.page, i)
  BY <1>1, ValidType DEF Appends
<1>7. ASSUME NEW p \in Pages, NEW i \in Indices, p = job.page, i = job.idx
      PROVE  Newest(p, i)' /\ NoHoles(p)'
  <2>1. \A q \in Pages, j \in Indices : Valid(q, j)' => flash'[q][j].ctr <= job.entry.ctr
    BY <1>1, <1>2, <1>3, <1>4, <1>5
  <2>2. Newest(p, i)'
    BY <1>2, <1>3, <1>5, <1>7, <2>1 DEF Newest
  <2>3. NoHoles(p)'
    <3> SUFFICES ASSUME NEW j \in Indices, NEW k \in Indices, j < k, IsEmpty(flash'[p][j])
                 PROVE  IsEmpty(flash'[p][k])
      BY DEF NoHoles
    <3>1. j # job.idx
      BY <1>2, <1>3, <1>7
    <3>2. ~(j < job.idx)
      <4>1. IsEmpty(flash[job.page][j])
        BY <1>3, <1>7, <3>1
      <4> QED BY <1>1, <4>1 DEF Appends
    <3>3. k > job.idx
      BY <1>1, <3>1, <3>2, BootDataAssumption DEF Indices
    <3> QED BY <1>1, <1>3, <1>7, <3>3 DEF Appends, Indices
  <2> QED BY <2>2, <2>3
<1>8. Ordered'
  <2> SUFFICES ASSUME NEW p \in Pages, NEW q \in Pages, NEW i \in Indices, NEW j \in Indices,
                      Valid(p, i)', Valid(q, j)', p = q => i < j
               PROVE  IF p = q THEN flash'[p][i].ctr < flash'[q][j].ctr
                               ELSE flash'[p][i].ctr # flash'[q][j].ctr
    BY DEF Ordered
  <2>1. CASE p = job.page /\ i = job.idx
    <3>1. p # q
      <4> SUFFICES ASSUME p = q PROVE FALSE
        OBVIOUS
      <4>1. j > job.idx /\ j # job.idx
        BY <1>1, <2>1, BootDataAssumption DEF Indices
      <4> QED BY <1>5, <1>6, <2>1, <4>1
    <3>2. Valid(q, j) /\ flash'[q][j] = flash[q][j]
      BY <1>3, <1>5, <2>1, <3>1
    <3> QED BY <1>1, <1>2, <1>3, <1>4, <2>1, <3>1, <3>2
  <2>2. CASE ~(p = job.page /\ i = job.idx) /\ q = job.page /\ j = job.idx
    <3>1. Valid(p, i) /\ flash'[p][i] = flash[p][i]
      BY <1>3, <1>5, <2>2
    <3> QED BY <1>1, <1>2, <1>3, <1>4, <2>2, <3>1
  <2>3. CASE ~(p = job.page /\ i = job.idx) /\ ~(q = job.page /\ j = job.idx)
    <3>1. /\ Valid(p, i) /\ flash'[p][i] = flash[p][i]
          /\ Valid(q, j) /\ flash'[q][j] = flash[q][j]
      BY <1>3, <1>5, <2>3
    <3> QED BY <3>1 DEF Ordered
  <2> QED BY <2>1, <2>2, <2>3
<1>9. Live'
  BY <1>1, <1>7 DEF Live
<1> QED BY <1>7, <1>8, <1>9

\* A transaction that is cut off.
LEMMA TornKeeps ==
  ASSUME TypeInv, Ordered, Live, WriteInv, flash' \in PartialFlash
  PROVE  /\ Ordered' /\ Live'
         /\ Kept \/ (pc = "rest" /\ flash' = Put(job.page, job.idx, Written))
<1>1. CASE pc = "erase"
  <2>1. job.page \in Pages /\ flash[job.page] \in [Indices -> Entries]
    BY <1>1 DEF TypeInv, TypeOK, Shape, Writing, Jobs
  <2>2. PICK x \in TornErase(flash[job.page]) : flash' = PutPage(job.page, x)
    BY <1>1 DEF PartialFlash
  <2>3. PICK i \in Indices : \E e \in PartlyErased(flash[job.page][i]) :
                               x = ErasedUpTo(flash[job.page], i, e)
    BY <2>2 DEF TornErase
  <2>4. PICK e \in PartlyErased(flash[job.page][i]) : x = ErasedUpTo(flash[job.page], i, e)
    BY <2>3
  <2>5. e \in Entries
    BY <2>1, <2>4, PartlyErasedType
  <2>6. x \in [Indices -> Entries]
    BY <2>1, <2>4, <2>5, EmptyType DEF ErasedUpTo
  <2>7. ~Check(EmptyEntry) /\ (Check(e) => e = flash[job.page][i])
    <3>1. Erased \notin Content /\ Torn \notin Content
      BY DistinctAssumption DEF Content
    <3>2. EmptyEntry.dig = Erased
      BY DEF EmptyEntry, Entry
    <3>3. e = flash[job.page][i] \/ e.dig \in {Erased, Torn}
      BY <2>4 DEF PartlyErased, Entry
    <3> QED BY <2>5, <3>1, <3>2, <3>3, EmptyType, TornInvalid
  <2>8. \A j \in Indices : Check(x[j]) => x[j] = flash[job.page][j]
    BY <2>4, <2>7 DEF ErasedUpTo
  <2> QED BY <1>1, <2>2, <2>6, <2>8, EraseKeeps
<1>2. CASE pc = "digest"
  <2>1. PICK e \in PartlyDigest(Target) : flash' = Put(job.page, job.idx, e)
    BY <1>2 DEF PartialFlash
  <2>2. CASE e = Target
    <3>1. flash' = flash
      BY <1>2, <2>1, <2>2, Programming DEF Put, Target, TypeInv, TypeOK
    <3> QED BY <3>1, FlashKept
  <2>3. CASE e = Entry(Torn, Target.valid, Target.ctr, Target.ver)
    <3>1. e \in Entries /\ e.dig = Torn
      BY <1>2, <2>3, Programming, EntryFields, EntryType DEF Entry
    <3>2. ~Check(e) /\ ~IsEmpty(e)
      <4>1. Torn \notin Content /\ Torn # Erased
        BY DistinctAssumption DEF Content
      <4> QED BY <3>1, <4>1, TornInvalid DEF IsEmpty, EmptyEntry, Entry
    <3> QED BY <1>2, <2>1, <3>1, <3>2, PartKeeps
  <2> QED BY <2>1, <2>2, <2>3 DEF PartlyDigest
<1>3. CASE pc = "rest"
  <2>1. PICK e \in PartlyRest(Target, job.entry) : flash' = Put(job.page, job.idx, e)
    BY <1>3 DEF PartialFlash
  <2>2. /\ Target \in Entries /\ Target.valid /\ Target.ver = Erased
        /\ job.entry.ctr \in Nat /\ job.entry.ver \in Versions
        /\ Target.dig \in {job.entry, Torn}
        /\ Target.dig \in Content \cup {Erased, Torn} /\ Target.valid \in BOOLEAN
    <3>1. Written0
      BY <1>3 DEF WriteInv, Writing
    <3>2. Target \in Entries
      BY <1>3, Programming
    <3> QED BY <1>3, <3>1, <3>2, Programming, EntryFields DEF Written0, Programmed, Entry
  <2>3. CASE e = Target
    <3>1. flash' = flash
      BY <1>3, <2>1, <2>3, Programming DEF Put, Target, TypeInv, TypeOK
    <3> QED BY <3>1, FlashKept
  <2>4. CASE e = Entry(Target.dig, Target.valid, job.entry.ctr, Target.ver)
    <3>1. e \in Entries
      BY <2>2, <2>4, EntryType
    <3>2. e.ver = Erased /\ e.ctr = job.entry.ctr
      BY <2>2, <2>4 DEF Entry
    <3>3. ~Check(e) /\ ~IsEmpty(e)
      BY <2>2, <3>1, <3>2, TornInvalid, DistinctAssumption DEF IsEmpty, EmptyEntry, Entry
    <3> QED BY <1>3, <2>1, <3>1, <3>3, PartKeeps
  <2>5. CASE /\ e = Entry(Target.dig, Target.valid, job.entry.ctr, job.entry.ver)
             /\ Target.dig = job.entry
    <3>1. e = Written
      BY <2>2, <2>5, EntryFields DEF Written
    <3> QED BY <1>3, <2>1, <3>1, WrittenKeeps
  <2>6. CASE /\ e = Entry(Target.dig, Target.valid, job.entry.ctr, job.entry.ver)
             /\ Target.dig = Torn
    <3>1. e \in Entries
      BY <2>2, <2>6, EntryType
    <3>2. e.dig = Torn
      BY <2>6 DEF Entry
    <3>3. ~Check(e) /\ ~IsEmpty(e)
      <4>1. Torn \notin Content /\ Torn # Erased
        BY DistinctAssumption DEF Content
      <4> QED BY <3>1, <3>2, <4>1, TornInvalid DEF IsEmpty, EmptyEntry, Entry
    <3> QED BY <1>3, <2>1, <3>1, <3>3, PartKeeps
  <2> QED BY <2>1, <2>2, <2>3, <2>4, <2>5, <2>6 DEF PartlyRest
<1>4. CASE pc \notin {"erase", "digest", "rest"}
  <2>1. UNCHANGED flash
    BY <1>4 DEF PartialFlash
  <2> QED BY <2>1, FlashKept
<1> QED BY <1>1, <1>2, <1>3, <1>4

-----------------------------------------------------------------------------
(* Searching *)

\* The newest entry is found before the first empty one.
LEMMA NewestIsBefore ==
  ASSUME TypeInv, Ordered, Live, NEW p \in Pages, NEW i \in Indices, Newest(p, i),
         NEW fe \in 0 .. EntriesPerPage, IsFirstEmpty(flash[p], fe)
  PROVE  i < fe
<1>1. PICK q \in Pages, j \in Indices : Newest(q, j) /\ NoHoles(q)
  BY DEF Live, Newest
<1>2. NoHoles(p)
  BY <1>1, UniqueNewest
<1>3. ~IsEmpty(flash[p][i])
  BY ValidType DEF Newest
<1>4. CASE fe < EntriesPerPage
  <2>1. fe \in Indices /\ IsEmpty(flash[p][fe])
    BY <1>4, BootDataAssumption DEF IsFirstEmpty, Indices
  <2>2. fe # i /\ ~(fe < i)
    BY <1>2, <1>3, <2>1 DEF NoHoles
  <2> QED BY <2>1, <2>2, BootDataAssumption DEF Indices
<1>5. CASE fe = EntriesPerPage
  BY <1>5, BootDataAssumption DEF Indices
<1> QED BY <1>4, <1>5, BootDataAssumption

LEMMA LastValidIsNewest ==
  ASSUME TypeInv, Ordered, Live, NEW p \in Pages, NEW i \in Indices, NEW j \in Indices,
         NEW fe \in 0 .. EntriesPerPage, IsFirstEmpty(flash[p], fe),
         IsLastValid(flash[p], fe, i), Newest(p, j)
  PROVE  j = i
<1>1. j < fe
  BY NewestIsBefore
<1>2. Valid(p, i) /\ Valid(p, j)
  BY DEF IsLastValid, Valid, Newest
<1>3. ~(j > i)
  BY <1>1, <1>2, BootDataAssumption DEF IsLastValid, Valid, Indices
<1>4. ~(j < i)
  <2>1. flash[p][i].ctr <= flash[p][j].ctr
    BY <1>2 DEF Newest
  <2>2. flash[p][i].ctr \in Nat /\ flash[p][j].ctr \in Nat
    BY <1>2, ValidType
  <2> QED BY <1>2, <2>1, <2>2 DEF Ordered
<1> QED BY <1>3, <1>4, BootDataAssumption DEF Indices

\* The two pages never hold newest entries with the same counter.
LEMMA StepScan ==
  ASSUME IInv, NEW p \in Pages, ScanPage(p)
  PROVE  Searched' /\ pc' \in {"scan1", "plan"}
<1> USE DEF IInv
<1>1. PICK fe \in 0 .. EntriesPerPage :
        /\ IsFirstEmpty(flash[p], fe)
        /\ \/ /\ \A i \in 0 .. fe - 1 : ~Check(flash[p][i])
              /\ UNCHANGED info
              /\ Advance(p)
           \/ \E i \in Indices :
                /\ IsLastValid(flash[p], fe, i)
                /\ info.has => flash[p][i].ctr > info.entry.ctr
                /\ info' = [has |-> TRUE, page |-> p, firstEmpty |-> fe,
                            lastValid |-> i, entry |-> Data(flash[p][i])]
                /\ Advance(p)
           \/ \E i \in Indices :
                /\ IsLastValid(flash[p], fe, i)
                /\ info.has /\ flash[p][i].ctr <= info.entry.ctr
                /\ UNCHANGED info
                /\ IF flash[p][i].ctr < info.entry.ctr THEN Advance(p) ELSE Trap
  BY DEF ScanPage
<1>2. flash' = flash /\ \/ p = 0 /\ pc = "scan0"
                        \/ p = 1 /\ pc = "scan1"
  BY DEF ScanPage, Scanning, Pages
<1>3. \A q \in Pages, i \in Indices : Newest(q, i)' <=> Newest(q, i)
  BY <1>2 DEF Newest, Valid
<1>4. /\ pc = "scan0" => ~info.has
      /\ pc = "scan1" =>
           /\ Found
           /\ info.has => info.page = 0
           /\ \A i \in Indices : Newest(0, i) => info.has /\ info.lastValid = i
  BY DEF Searched
<1>5. Advance(p) => pc' = IF p = 0 THEN "scan1" ELSE "plan"
  BY DEF Advance
<1>6. CASE /\ \A i \in 0 .. fe - 1 : ~Check(flash[p][i])
           /\ UNCHANGED info
           /\ Advance(p)
  <2>1. \A i \in Indices : ~Newest(p, i)
    <3> SUFFICES ASSUME NEW i \in Indices, Newest(p, i) PROVE FALSE
      OBVIOUS
    <3>1. i < fe
      BY <1>1, NewestIsBefore
    <3> QED BY <1>6, <3>1, BootDataAssumption DEF Newest, Valid, Indices
  <2>2. Found => Found'
    BY <1>2, <1>6 DEF Found, Valid
  <2>3. CASE p = 0
    BY <1>2, <1>3, <1>4, <1>5, <1>6, <2>1, <2>3 DEF Searched, Found
  <2>4. CASE p = 1
    BY <1>2, <1>3, <1>4, <1>5, <1>6, <2>1, <2>2, <2>4 DEF Searched, Pages
  <2> QED BY <2>3, <2>4 DEF Pages
<1>7. ASSUME NEW i \in Indices,
             IsLastValid(flash[p], fe, i),
             info.has => flash[p][i].ctr > info.entry.ctr,
             info' = [has |-> TRUE, page |-> p, firstEmpty |-> fe,
                      lastValid |-> i, entry |-> Data(flash[p][i])],
             Advance(p)
      PROVE  Searched' /\ pc' \in {"scan1", "plan"}
  <2>1. Valid(p, i)
    BY <1>7 DEF IsLastValid, Valid
  <2>2. Found'
    BY <1>1, <1>2, <1>7, <2>1 DEF Found, Valid
  <2>3. \A j \in Indices : Newest(p, j) => j = i
    BY <1>1, <1>7, LastValidIsNewest
  <2>4. CASE p = 0
    BY <1>2, <1>3, <1>5, <1>7, <2>2, <2>3, <2>4 DEF Searched
  <2>5. CASE p = 1
    <3>1. \A j \in Indices : ~Newest(0, j)
      <4> SUFFICES ASSUME NEW j \in Indices, Newest(0, j) PROVE FALSE
        OBVIOUS
      <4>1. Valid(0, j) /\ info.has /\ info.lastValid = j /\ info.page = 0
        <5>1. info.has /\ info.lastValid = j /\ info.page = 0
          BY <1>2, <1>4, <2>5
        <5> QED BY <5>1 DEF Newest
      <4>2. info.entry.ctr = flash[0][j].ctr
        BY <1>2, <1>4, <2>5, <4>1 DEF Found, Data
      <4>3. flash[p][i].ctr <= flash[0][j].ctr
        BY <2>1 DEF Newest
      <4>4. flash[p][i].ctr \in Nat /\ flash[0][j].ctr \in Nat
        BY <2>1, <4>1, ValidType DEF Pages
      <4> QED BY <1>7, <4>1, <4>2, <4>3, <4>4
    <3> QED BY <1>2, <1>3, <1>5, <1>7, <2>2, <2>3, <2>5, <3>1 DEF Searched, Pages
  <2> QED BY <2>4, <2>5 DEF Pages
<1>8. ASSUME NEW i \in Indices,
             IsLastValid(flash[p], fe, i),
             info.has, flash[p][i].ctr <= info.entry.ctr,
             UNCHANGED info,
             IF flash[p][i].ctr < info.entry.ctr THEN Advance(p) ELSE Trap
      PROVE  Searched' /\ pc' \in {"scan1", "plan"}
  <2>1. Valid(p, i)
    BY <1>8 DEF IsLastValid, Valid
  <2>2. p = 1 /\ pc = "scan1" /\ info.page = 0 /\ Found
    BY <1>2, <1>4, <1>8
  <2>3. /\ info.lastValid \in Indices /\ Valid(0, info.lastValid)
        /\ info.entry.ctr = flash[0][info.lastValid].ctr
    BY <1>8, <2>2 DEF Found, Data, TypeInv, Shape
  <2>4. /\ flash[1][i].ctr \in Nat /\ info.entry.ctr \in Nat
        /\ flash[1][i].ctr # info.entry.ctr
    BY <2>1, <2>2, <2>3, ValidType DEF Pages, Ordered
  <2>5. flash[1][i].ctr < info.entry.ctr /\ Advance(p)
    BY <1>8, <2>2, <2>4
  <2>6. \A j \in Indices : ~Newest(1, j)
    <3> SUFFICES ASSUME NEW j \in Indices, Newest(1, j) PROVE FALSE
      OBVIOUS
    <3>1. j = i
      BY <1>1, <1>8, <2>2, LastValidIsNewest
    <3>2. flash[0][info.lastValid].ctr <= flash[1][i].ctr
      BY <2>3, <3>1 DEF Newest, Pages
    <3> QED BY <2>3, <2>4, <2>5, <3>2
  <2>7. Found'
    BY <1>2, <1>8, <2>2 DEF Found, Valid
  <2> QED BY <1>2, <1>3, <1>4, <1>5, <1>8, <2>2, <2>5, <2>6, <2>7 DEF Searched, Pages
<1> QED BY <1>1, <1>6, <1>7, <1>8

-----------------------------------------------------------------------------
(* The steps of a write *)

\* Whatever a call leaves behind when it ends, nothing is left of its knowledge.
LEMMA EndKeeps ==
  ASSUME pc' = "idle", perms' = NoPerms
  PROVE  Searched' /\ WriteInv' /\ Opened' /\ NoTrap'
  BY DEF Searched, WriteInv, Writing, Opened, NoPerms, NoTrap

LEMMA StepPlan ==
  ASSUME IInv, Plan
  PROVE  Searched' /\ WriteInv' /\ Opened' /\ NoTrap'
<1> USE DEF IInv
<1>1. /\ info \in Infos /\ call.ver \in Versions /\ flash' = flash /\ info' = info
      /\ info.has => info.entry \in Content /\ info.lastValid \in Indices
      /\ pc = "plan" /\ Found
      /\ \A p \in Pages, i \in Indices :
           Newest(p, i) => info.has /\ info.page = p /\ info.lastValid = i
  BY DEF Plan, Searched, TypeInv, TypeOK, Shape, Calls
<1>2. /\ job' = [page  |-> TargetPage,
                 idx   |-> IF NeedsErase THEN 0 ELSE info.firstEmpty,
                 entry |-> [ctr |-> NextCounter, ver |-> call.ver]]
      /\ pc' = IF NeedsErase THEN "erase" ELSE "digest"
      /\ perms' = Only(TargetPage,
                       {"read", "write"} \cup IF NeedsErase THEN {"erase"} ELSE {})
  BY DEF Plan
<1>3. \A p \in Pages, i \in Indices : Valid(p, i) =>
        /\ info.has
        /\ flash[p][i].ctr \in Nat
        /\ flash[p][i].ctr <= flash[info.page][info.lastValid].ctr
        /\ flash[p][i].ctr < NextCounter
  <2> SUFFICES ASSUME NEW p \in Pages, NEW i \in Indices, Valid(p, i)
               PROVE  /\ info.has
                      /\ flash[p][i].ctr \in Nat
                      /\ flash[p][i].ctr <= flash[info.page][info.lastValid].ctr
                      /\ flash[p][i].ctr < NextCounter
    OBVIOUS
  <2>1. PICK q \in Pages, j \in Indices : Newest(q, j) /\ NoHoles(q)
    BY DEF Live
  <2>2. info.has /\ info.page = q /\ info.lastValid = j
    BY <1>1, <2>1
  <2>3. flash[p][i].ctr <= flash[q][j].ctr /\ Valid(q, j)
    BY <2>1 DEF Newest
  <2>4. flash[p][i].ctr \in Nat /\ flash[q][j].ctr \in Nat
    BY <2>3, ValidType
  <2>5. NextCounter = flash[q][j].ctr + 1
    BY <1>1, <2>2 DEF Found, Data, NextCounter
  <2> QED BY <2>2, <2>3, <2>4, <2>5
<1>4. TargetPage \in Pages /\ (info.has /\ NeedsErase => TargetPage # info.page)
  BY <1>1 DEF TargetPage, NeedsErase, OtherPage, Infos, Pages
<1>5. Replaces'
  <2>1. \A p \in Pages, i \in Indices : ~IsTarget(p, i)'
    BY <1>2 DEF IsTarget
  <2>2. info.has => Valid(info.page, info.lastValid)
    BY <1>1 DEF Found
  <2>3. job'.entry.ctr = NextCounter
    BY <1>2
  <2>4. \A p \in Pages, i \in Indices : Valid(p, i)' <=> Valid(p, i)
    BY <1>1 DEF Valid
  <2>5. info.has => Valid(info.page, info.lastValid)'
    BY <1>1, <2>2 DEF Valid
  <2>6. info.has => ~IsTarget(info.page, info.lastValid)'
    BY <1>2 DEF IsTarget
  <2> QED BY <1>1, <1>3, <2>1, <2>3, <2>4, <2>5, <2>6 DEF Replaces
<1>6. CASE NeedsErase
  <2>1. pc' = "erase" /\ job'.idx = 0 /\ job'.page = TargetPage
    BY <1>2, <1>6
  <2>2. WriteInv'
    BY <1>1, <1>4, <1>5, <1>6, <2>1 DEF WriteInv, Written0
  <2>3. Opened'
    BY <1>1, <1>2, <1>4, <1>6, <2>1 DEF Opened, Only
  <2> QED BY <2>1, <2>2, <2>3 DEF Searched, NoTrap
<1>7. CASE ~NeedsErase
  <2>1. /\ info.has /\ info.firstEmpty \in Indices
        /\ pc' = "digest" /\ job'.idx = info.firstEmpty /\ job'.page = info.page
    BY <1>1, <1>2, <1>7, BootDataAssumption DEF NeedsErase, TargetPage, Infos, Indices
  <2>2. Appends' /\ Written0'
    <3>1. NoHoles(info.page)
      <4>1. Valid(info.page, info.lastValid)
        BY <1>1, <2>1 DEF Found
      <4>2. PICK q \in Pages, j \in Indices : Newest(q, j) /\ NoHoles(q)
        BY <1>1, <2>1, <4>1 DEF Live, Infos
      <4> QED BY <1>1, <4>2
    <3>2. IsFirstEmpty(flash[info.page], info.firstEmpty)
      BY <1>1, <2>1 DEF Found
    <3>3. /\ \A i \in Indices : i < info.firstEmpty => ~IsEmpty(flash[info.page][i])
          /\ IsEmpty(flash[info.page][info.firstEmpty])
      BY <2>1, <3>2, BootDataAssumption DEF IsFirstEmpty, Indices
    <3>4. \A i \in Indices : i > info.firstEmpty => IsEmpty(flash[info.page][i])
      BY <2>1, <3>1, <3>3 DEF NoHoles
    <3>5. Appends'
      BY <1>1, <2>1, <3>3, <3>4 DEF Appends
    <3>6. Target' = EmptyEntry
      BY <1>1, <2>1, <3>3 DEF Target, IsEmpty
    <3> QED BY <2>1, <3>5, <3>6 DEF Written0
  <2>3. WriteInv'
    BY <1>5, <2>1, <2>2 DEF WriteInv
  <2>4. Opened'
    BY <1>2, <1>7, <2>1 DEF Opened, Only
  <2> QED BY <2>1, <2>3, <2>4 DEF Searched, NoTrap
<1> QED BY <1>6, <1>7

\* What stays of Replaces when valid entries other than the old one disappear.
LEMMA ReplacesShrinks ==
  ASSUME TypeInv, WriteInv, pc \in Before,
         pc' \in {"digest", "rest"}, UNCHANGED <<info, job>>,
         \A p \in Pages, i \in Indices :
           Valid(p, i)' => flash'[p][i] = flash[p][i],
         info.has => flash'[info.page][info.lastValid] = flash[info.page][info.lastValid]
  PROVE  Replaces'
<1>1. Replaces /\ \A p \in Pages, i \in Indices : ~IsTarget(p, i)
  BY DEF WriteInv, Writing, Before, IsTarget
<1>2. \A p \in Pages, i \in Indices : ~IsTarget(p, i)'
  BY DEF IsTarget
<1>3. \A p \in Pages, i \in Indices : Valid(p, i)' => Valid(p, i)
  BY DEF Valid
<1>4. info.has => Valid(info.page, info.lastValid)'
  BY <1>1 DEF Replaces, Valid
<1>5. info.has => ~IsTarget(info.page, info.lastValid)'
  BY DEF IsTarget
<1> QED BY <1>1, <1>2, <1>3, <1>4, <1>5 DEF Replaces

LEMMA StepErase ==
  ASSUME IInv, Erase
  PROVE  Ordered' /\ Live' /\ Kept /\ WriteInv'
<1> USE DEF IInv
<1>1. /\ pc = "erase" /\ pc' = "digest" /\ info' = info /\ job' = job
      /\ job \in Jobs /\ job.page \in Pages /\ job.idx = 0 /\ 0 \in Indices
      /\ info.page \in Pages
      /\ info.has => job.page # info.page
  BY BootDataAssumption
     DEF Erase, TypeInv, TypeOK, Shape, Writing, WriteInv, Jobs, Infos, Indices
<1> DEFINE Blank == [i \in Indices |-> EmptyEntry]
<1>2. flash' = PutPage(job.page, Blank)
  BY DEF Erase
<1>3. Blank \in [Indices -> Entries] /\ \A i \in Indices : ~Check(Blank[i])
  <2>1. EmptyEntry.dig = Erased /\ Erased \notin Content
    BY DistinctAssumption DEF EmptyEntry, Entry, Content
  <2> QED BY <2>1, EmptyType, TornInvalid
<1>4. Ordered' /\ Live' /\ Kept
  BY <1>1, <1>2, <1>3, EraseKeeps
<1>5. \A p \in Pages : flash'[p] = IF p = job.page THEN Blank ELSE flash[p]
  BY <1>1, <1>2 DEF PutPage, TypeInv, TypeOK
<1>6. Replaces'
  <2>1. \A p \in Pages, i \in Indices : Valid(p, i)' => flash'[p][i] = flash[p][i]
    BY <1>3, <1>5 DEF Valid
  <2>2. info.has => flash'[info.page][info.lastValid] = flash[info.page][info.lastValid]
    BY <1>1, <1>5
  <2> QED BY <1>1, <2>1, <2>2, ReplacesShrinks DEF Before
<1>7. Appends'
  BY <1>1, <1>5, BootDataAssumption DEF Appends, IsEmpty, Indices
<1>8. Written0'
  BY <1>1, <1>5 DEF Written0, Target
<1> QED BY <1>1, <1>4, <1>6, <1>7, <1>8 DEF WriteInv

\* Other entries than the target are as they were.
LEMMA AppendsStays ==
  ASSUME TypeInv, WriteInv, pc \in {"digest", "rest"}, UNCHANGED job,
         NEW e \in Entries, flash' = Put(job.page, job.idx, e)
  PROVE  Appends' /\ Target' = e
<1>1. job.page \in Pages /\ job.idx \in Indices /\ Appends
  BY Programming
<1>2. \A i \in Indices :
        flash'[job.page][i] = IF i = job.idx THEN e ELSE flash[job.page][i]
  BY <1>1, PutAt
<1>3. \A i \in Indices : i < job.idx \/ i > job.idx => flash'[job.page][i] = flash[job.page][i]
  BY <1>1, <1>2, BootDataAssumption DEF Indices
<1> QED BY <1>1, <1>2, <1>3 DEF Appends, Target

LEMMA StepDigest ==
  ASSUME IInv, ProgramDigest
  PROVE  Ordered' /\ Live' /\ Kept /\ WriteInv'
<1> USE DEF IInv
<1>1. /\ pc = "digest" /\ pc' = "rest" /\ info' = info /\ job' = job
      /\ info \in Infos /\ (info.has => info.lastValid \in Indices)
  BY DEF ProgramDigest, TypeInv, TypeOK, Shape
<1>2. /\ job.page \in Pages /\ job.idx \in Indices /\ job.entry \in Content
      /\ Target \in Entries /\ ~Check(Target) /\ Target.valid
      /\ Target.ctr = Erased /\ Target.ver = Erased
  BY <1>1, Programming
<1>3. Target.dig = Erased
  BY <1>1 DEF WriteInv, Writing, Written0, EmptyEntry, Entry
<1>4. PICK d \in Weak(Target.dig, job.entry) :
        flash' = Put(job.page, job.idx, Entry(d, Target.valid, Target.ctr, Target.ver))
  BY DEF ProgramDigest
<1>5. d \in {job.entry, Torn}
  BY <1>3, <1>4 DEF Weak
<1> DEFINE e == Entry(d, TRUE, Erased, Erased)
<1>6. e \in Entries /\ flash' = Put(job.page, job.idx, e) /\ e.dig = d /\ e.ctr = Erased
  <2>1. Target.valid = TRUE
    BY <1>2, EntryFields
  <2>2. e \in Entries
    BY <1>2, <1>5, EntryType
  <2>3. e.dig = d /\ e.ctr = Erased
    BY DEF Entry
  <2> QED BY <1>2, <1>4, <2>1, <2>2, <2>3
<1> HIDE DEF e
<1>7. ~Check(e) /\ ~IsEmpty(e)
  <2>1. Erased \notin Nat /\ d # Erased
    BY <1>2, <1>5, DistinctAssumption DEF Content
  <2>2. EmptyEntry.dig = Erased
    BY DEF EmptyEntry, Entry
  <2> QED BY <1>6, <2>1, <2>2, TornInvalid DEF IsEmpty
<1>8. Ordered' /\ Live' /\ Kept
  BY <1>1, <1>6, <1>7, PartKeeps
<1>9. Replaces'
  <2>1. \A p \in Pages, i \in Indices :
          flash'[p][i] = IF p = job.page /\ i = job.idx THEN e ELSE flash[p][i]
    BY <1>2, <1>6, PutAt
  <2>2. \A p \in Pages, i \in Indices : Valid(p, i)' => flash'[p][i] = flash[p][i]
    BY <1>7, <2>1 DEF Valid
  <2>3. info.has => flash'[info.page][info.lastValid] = flash[info.page][info.lastValid]
    <3>1. info.has => Check(flash[info.page][info.lastValid])
      BY <1>1 DEF WriteInv, Writing, Replaces, Valid
    <3> QED BY <1>1, <1>2, <2>1, <3>1 DEF Infos, Target
  <2> QED BY <1>1, <2>2, <2>3, ReplacesShrinks DEF Before
<1>10. Appends' /\ Target' = e
  BY <1>1, <1>6, AppendsStays
<1>11. Written0'
  BY <1>1, <1>5, <1>10 DEF Written0, Programmed, e
<1> QED BY <1>1, <1>8, <1>9, <1>10, <1>11 DEF WriteInv

LEMMA StepRest ==
  ASSUME IInv, ProgramRest
  PROVE  /\ Ordered' /\ Live' /\ WriteInv'
         /\ Kept \/ flash' = Put(job.page, job.idx, Written)
<1> USE DEF IInv
<1>1. /\ pc = "rest" /\ pc' = "check" /\ info' = info /\ job' = job
      /\ info \in Infos /\ (info.has => info.lastValid \in Indices)
  BY DEF ProgramRest, TypeInv, TypeOK, Shape
<1>2. /\ job.page \in Pages /\ job.idx \in Indices /\ job.entry \in Content
      /\ job.entry.ctr \in Nat /\ job.entry.ver \in Versions
      /\ Target \in Entries /\ ~Check(Target) /\ Target.valid
      /\ Target.ctr = Erased /\ Target.ver = Erased
  BY <1>1, Programming
<1>3. Target.dig \in {job.entry, Torn}
  BY <1>1 DEF WriteInv, Writing, Written0, Programmed, Entry
<1>4. PICK c \in Weak(Target.ctr, job.entry.ctr), v \in Weak(Target.ver, job.entry.ver) :
        flash' = Put(job.page, job.idx, Entry(Target.dig, Target.valid, c, v))
  BY DEF ProgramRest
<1>5. c \in {job.entry.ctr, Torn} /\ v \in {job.entry.ver, Torn}
  BY <1>2, <1>4 DEF Weak
<1> DEFINE e == Entry(Target.dig, TRUE, c, v)
<1>6. /\ e \in Entries /\ flash' = Put(job.page, job.idx, e)
      /\ e.dig = Target.dig /\ e.ctr = c /\ e.ver = v
  <2>1. Target.valid = TRUE
    BY <1>2, EntryFields
  <2>2. e \in Entries
    BY <1>2, <1>3, <1>5, EntryType
  <2>3. e.dig = Target.dig /\ e.ctr = c /\ e.ver = v
    BY DEF Entry
  <2> QED BY <1>4, <2>1, <2>2, <2>3
<1>7. e = Written \/ (~Check(e) /\ ~IsEmpty(e))
  <2>1. CASE e.dig = job.entry /\ c = job.entry.ctr /\ v = job.entry.ver
    BY <1>6, <2>1 DEF Written
  <2>2. CASE e.dig = Torn \/ c = Torn \/ v = Torn
    <3>1. Torn \notin Content /\ Torn \notin Nat /\ Torn \notin Versions
      BY DistinctAssumption DEF Content
    <3>2. Erased # Torn /\ Erased \notin Content
      BY DistinctAssumption DEF Content
    <3>3. EmptyEntry.dig = Erased
      BY DEF EmptyEntry, Entry
    <3>4. e.dig # Erased
      BY <1>2, <1>3, <1>6, <3>2
    <3> QED BY <1>6, <2>2, <3>1, <3>3, <3>4, TornInvalid DEF IsEmpty
  <2> QED BY <1>3, <1>5, <1>6, <2>1, <2>2
<1>8. /\ Ordered' /\ Live'
      /\ Kept \/ flash' = Put(job.page, job.idx, Written)
  BY <1>1, <1>6, <1>7, PartKeeps, WrittenKeeps
<1> HIDE DEF e
<1>9. \A p \in Pages, i \in Indices :
        flash'[p][i] = IF p = job.page /\ i = job.idx THEN e ELSE flash[p][i]
  BY <1>2, <1>6, PutAt
<1>10. Replaces'
  <2>1. Replaces /\ \A p \in Pages, i \in Indices : ~IsTarget(p, i)
    BY <1>1 DEF WriteInv, Writing, IsTarget
  <2>2. \A p \in Pages, i \in Indices : IsTarget(p, i)' <=> p = job.page /\ i = job.idx
    BY <1>1 DEF IsTarget
  <2>3. \A p \in Pages, i \in Indices :
          ~(p = job.page /\ i = job.idx) => flash'[p][i] = flash[p][i]
    BY <1>9
  <2>4. info.has => /\ ~(info.page = job.page /\ info.lastValid = job.idx)
                    /\ info.page \in Pages
    BY <1>1, <1>2, <2>1 DEF Replaces, Valid, Target, Infos
  <2>5. info.has => Valid(info.page, info.lastValid)' /\ ~IsTarget(info.page, info.lastValid)'
    BY <1>1, <2>1, <2>3, <2>4 DEF Replaces, Valid, IsTarget
  <2>6. \A p \in Pages, i \in Indices : Valid(p, i)' /\ ~IsTarget(p, i)' =>
          /\ flash'[p][i].ctr < job.entry.ctr
          /\ info.has
          /\ flash'[p][i].ctr <= flash'[info.page][info.lastValid].ctr
    BY <1>1, <2>1, <2>2, <2>3, <2>4 DEF Replaces, Valid
  <2> QED BY <1>1, <2>5, <2>6 DEF Replaces
<1>11. Appends' /\ Target' = e
  BY <1>1, <1>6, AppendsStays
<1>12. Written0'
  BY <1>1, <1>3, <1>5, <1>11 DEF Written0, Programmed, e
<1> QED BY <1>1, <1>8, <1>10, <1>11, <1>12 DEF WriteInv

LEMMA StepReadBack ==
  ASSUME IInv, ReadBack
  PROVE  Ordered' /\ Live' /\ Searched' /\ WriteInv' /\ Opened' /\ NoTrap'
<1> USE DEF IInv
<1>1. Ordered' /\ Live'
  BY FlashKept DEF ReadBack
<1>2. ASSUME NEW res, Return(res, None) PROVE Searched' /\ WriteInv' /\ Opened' /\ NoTrap'
  BY <1>2, EndKeeps DEF Return
<1>3. CASE /\ ReadsBack /\ info.has
           /\ pc' = "invalidate" /\ perms' = Only(info.page, {"write"})
           /\ UNCHANGED <<call, info, job, ret>>
  <2>1. pc = "check" /\ flash' = flash /\ info' = info /\ job' = job
    BY <1>3 DEF ReadBack
  <2>2. \A p \in Pages, i \in Indices :
          /\ IsTarget(p, i)' <=> IsTarget(p, i)
          /\ Valid(p, i)' <=> Valid(p, i)
    BY <1>3, <2>1 DEF IsTarget, Valid
  <2>3. Replaces /\ Appends
    BY <2>1 DEF WriteInv, Writing
  <2>4. Replaces'
    BY <1>3, <2>1, <2>3 DEF Replaces, Valid, IsTarget
  <2>5. Appends'
    BY <2>1, <2>3 DEF Appends
  <2>6. Target' = Written'
    BY <1>3, <2>1 DEF ReadsBack, Target, Written
  <2>7. WriteInv'
    BY <1>3, <2>4, <2>5, <2>6 DEF WriteInv, Written0
  <2>8. Opened'
    BY <1>3 DEF Opened, Only
  <2> QED BY <1>1, <1>3, <2>7, <2>8 DEF Searched, NoTrap
<1> QED BY <1>1, <1>2, <1>3 DEF ReadBack

\* While it is read back or after, the target is the newest entry when it is valid.
LEMMA TargetIsNewest ==
  ASSUME TypeInv, WriteInv, pc \in {"check", "invalidate"}, Target = Written,
         NEW p \in Pages, NEW i \in Indices, p = job.page, i = job.idx
  PROVE  Newest(p, i) /\ Appends /\ ~IsEmpty(flash[p][i])
<1>1. job \in Jobs /\ job.entry \in Content /\ job.entry.ctr \in Nat
  BY DEF TypeInv, Shape, Writing, Jobs, Content
<1>2. job.entry = [ctr |-> job.entry.ctr, ver |-> job.entry.ver]
  BY <1>1 DEF Content
<1>3. Valid(p, i) /\ flash[p][i].ctr = job.entry.ctr
  BY <1>2 DEF Valid, Target, Written, Check, Data, Entry
<1>4. Replaces /\ Appends
  BY DEF WriteInv, Writing
<1>5. \A q \in Pages, j \in Indices : Valid(q, j) => flash[q][j].ctr <= flash[p][i].ctr
  <2> SUFFICES ASSUME NEW q \in Pages, NEW j \in Indices, Valid(q, j)
               PROVE  flash[q][j].ctr <= flash[p][i].ctr
    OBVIOUS
  <2>1. CASE IsTarget(q, j)
    BY <1>1, <1>3, <2>1 DEF IsTarget
  <2>2. CASE ~IsTarget(q, j)
    <3>1. flash[q][j].ctr \in Nat
      BY ValidType
    <3> QED BY <1>1, <1>3, <1>4, <2>2, <3>1 DEF Replaces
  <2> QED BY <2>1, <2>2
<1> QED BY <1>3, <1>4, <1>5, ValidType DEF Newest

LEMMA StepInvalidate ==
  ASSUME IInv, Invalidate
  PROVE  Ordered' /\ Live' /\ Kept /\ Searched' /\ WriteInv' /\ Opened' /\ NoTrap'
<1> USE DEF IInv
<1>1. Searched' /\ WriteInv' /\ Opened' /\ NoTrap'
  BY EndKeeps DEF Invalidate, Return
<1>2. /\ pc = "invalidate" /\ job \in Jobs /\ job.page \in Pages /\ job.idx \in Indices
      /\ info.has /\ info.page \in Pages /\ info.lastValid \in Indices
  BY DEF Invalidate, TypeInv, TypeOK, Shape, Writing, Jobs, Infos
<1>3. Target = Written /\ Replaces
  BY <1>2 DEF WriteInv, Writing, Written0
<1>4. CASE UNCHANGED flash
  BY <1>1, <1>4, FlashKept
<1>5. ASSUME flash' = Put(info.page, info.lastValid,
                          Entry(flash[info.page][info.lastValid].dig, FALSE,
                                flash[info.page][info.lastValid].ctr,
                                flash[info.page][info.lastValid].ver))
      PROVE  Ordered' /\ Live' /\ Kept
  <2> DEFINE old == flash[info.page][info.lastValid]
             e == Entry(old.dig, FALSE, old.ctr, old.ver)
  <2>1. old \in Entries /\ e \in Entries /\ ~e.valid
    <3>1. old \in Entries
      BY <1>2 DEF TypeInv, TypeOK
    <3>2. e \in Entries
      BY <3>1, EntryFields, EntryType
    <3>3. ~e.valid
      BY DEF Entry
    <3> QED BY <3>1, <3>2, <3>3
  <2>2. ~Check(e) /\ ~IsEmpty(e)
    BY <2>1 DEF Check, IsEmpty, EmptyEntry, Entry
  <2>3. flash' = Put(info.page, info.lastValid, e)
    BY <1>5
  <2>4. ~IsEmpty(old)
    BY <1>2, <1>3, ValidType DEF Replaces
  <2> HIDE DEF old, e
  <2>5. \A p \in Pages, i \in Indices :
          flash'[p][i] = IF p = info.page /\ i = info.lastValid THEN e ELSE flash[p][i]
    BY <1>2, <2>1, <2>3, PutAt
  <2>6. \A p \in Pages, i \in Indices : Valid(p, i)' => flash'[p][i] = flash[p][i]
    BY <2>2, <2>5 DEF Valid
  <2>7. Ordered'
    BY <2>6, OrderedShrinks
  <2>8. PICK p \in Pages, i \in Indices : p = job.page /\ i = job.idx
    BY <1>2
  <2>9. Newest(p, i) /\ Appends /\ ~IsEmpty(flash[p][i])
    BY <1>2, <1>3, <2>8, TargetIsNewest
  <2>10. ~(p = info.page /\ i = info.lastValid)
    BY <1>2, <1>3, <2>8 DEF Replaces, IsTarget
  <2>11. flash'[p][i] = flash[p][i]
    BY <2>5, <2>10
  <2>12. NoHoles(p)'
    <3>1. \A j \in Indices : IsEmpty(flash'[p][j]) <=> IsEmpty(flash[p][j])
      BY <2>2, <2>4, <2>5 DEF old
    <3> SUFFICES ASSUME NEW j \in Indices, NEW k \in Indices, j < k, IsEmpty(flash[p][j])
                 PROVE  IsEmpty(flash[p][k])
      BY <3>1 DEF NoHoles
    <3>2. j # i /\ ~(j < i)
      BY <2>8, <2>9 DEF Appends
    <3>3. k > i
      BY <3>2, BootDataAssumption DEF Indices
    <3> QED BY <2>8, <2>9, <3>3 DEF Appends
  <2>13. Live'
    BY <2>6, <2>9, <2>11, <2>12, LiveShrinks
  <2>14. Kept
    BY <2>6, <2>9, <2>11, UniqueNewest DEF Kept
  <2> QED BY <2>7, <2>13, <2>14
<1> QED BY <1>1, <1>4, <1>5 DEF Invalidate

-----------------------------------------------------------------------------
(* The invariant *)

LEMMA InvInit == Init => IInv
<1> SUFFICES ASSUME Init PROVE IInv
  OBVIOUS
<1>1. TypeInv
  BY TypeInit
<1>2. \A p \in Pages, i \in Indices : ~Valid(p, i)
  <2>1. EmptyEntry.dig = Erased /\ Erased \notin Content
    BY DistinctAssumption DEF EmptyEntry, Entry, Content
  <2>2. ~Check(EmptyEntry)
    BY <2>1, EmptyType, TornInvalid
  <2> QED BY <2>2 DEF Init, Valid
<1>3. Ordered /\ Live
  BY <1>2 DEF Ordered, Live
<1>4. Searched /\ WriteInv /\ Opened /\ NoTrap
  BY DEF Init, Searched, WriteInv, Writing, Opened, NoPerms, NoTrap
<1> QED BY <1>1, <1>3, <1>4 DEF IInv

LEMMA InvNext == IInv /\ [Next]_vars => IInv'
<1> SUFFICES ASSUME IInv, [Next]_vars PROVE IInv'
  OBVIOUS
<1> USE DEF IInv
<1>1. TypeInv'
  BY TypeNext
<1>2. ASSUME NEW c, Start(c) PROVE IInv'
  <2>1. Ordered' /\ Live'
    BY <1>2, FlashKept DEF Start
  <2>2. Searched' /\ WriteInv' /\ Opened' /\ NoTrap'
    <3>1. pc' = "scan0" /\ info' = info /\ perms' = Only(0, {"read"}) /\ ~info.has
      BY <1>2 DEF Start, TypeInv, TypeOK, Shape, Opened
    <3> QED BY <3>1 DEF Searched, WriteInv, Writing, Opened, Only, NoTrap
  <2> QED BY <1>1, <2>1, <2>2
<1>3. ASSUME NEW p \in Pages, ScanPage(p) PROVE IInv'
  <2>1. Ordered' /\ Live'
    BY <1>3, FlashKept DEF ScanPage
  <2>2. Searched' /\ pc' \in {"scan1", "plan"}
    BY <1>3, StepScan
  <2>3. \A q \in Pages : "erase" \notin perms'[q]
    BY <1>3, <2>2 DEF ScanPage, Advance, Trap, Only, NoPerms
  <2> QED BY <1>1, <2>1, <2>2, <2>3 DEF WriteInv, Writing, Opened, NoTrap
<1>4. CASE ReadReturn
  <2>1. Ordered' /\ Live'
    BY <1>4, FlashKept DEF ReadReturn
  <2> QED BY <1>1, <1>4, <2>1, EndKeeps DEF ReadReturn, Return
<1>5. CASE Plan
  <2>1. Ordered' /\ Live'
    BY <1>5, FlashKept DEF Plan
  <2> QED BY <1>1, <1>5, <2>1, StepPlan
<1>6. CASE Erase \/ ProgramDigest \/ ProgramRest
  <2>1. Ordered' /\ Live' /\ WriteInv'
    BY <1>6, StepErase, StepDigest, StepRest
  <2>2. /\ pc \in {"erase", "digest", "rest"} /\ pc' \in {"digest", "rest", "check"}
        /\ UNCHANGED <<perms, info, job>>
    BY <1>6 DEF Erase, ProgramDigest, ProgramRest
  <2>3. Searched' /\ Opened' /\ NoTrap'
    BY <2>2 DEF Searched, Opened, NoTrap
  <2> QED BY <1>1, <2>1, <2>3
<1>7. CASE ReadBack
  BY <1>1, <1>7, StepReadBack
<1>8. CASE Invalidate
  BY <1>1, <1>8, StepInvalidate
<1>9. CASE FlashError \/ Reset
  <2>1. flash' \in PartialFlash /\ pc' = "idle" /\ perms' = NoPerms
    BY <1>9 DEF FlashError, Reset, Return
  <2> QED BY <1>1, <2>1, TornKeeps, EndKeeps
<1>10. CASE UNCHANGED vars
  <2> USE <1>10 DEF vars
  <2>1. Ordered' /\ Live'
    BY FlashKept
  <2>2. Searched'
    BY DEF Searched, Found, Newest, Valid
  <2>3. Replaces => Replaces'
    BY DEF Replaces, IsTarget, Valid
  <2>4. Written0 => Written0'
    BY DEF Written0, Target, Written
  <2>5. WriteInv'
    BY <2>3, <2>4 DEF WriteInv, Appends
  <2>6. Opened' /\ NoTrap'
    BY DEF Opened, NoTrap
  <2> QED BY <1>1, <2>1, <2>2, <2>5, <2>6
<1> QED BY <1>2, <1>3, <1>4, <1>5, <1>6, <1>7, <1>8, <1>9, <1>10
     DEF Next, StartRead, StartWrite

\* The inductive invariant: counters order the valid entries, the newest one is
\* where the searches find it, and a write knows the old entry and its target.
THEOREM Invariant == Spec => []IInv
  BY InvInit, InvNext, PTL DEF Spec

\* boot_data_page_info_update_impl() never finds two newest entries that carry
\* the same counter: its HARDENED_CHECK_LT holds after any torn writes and erases.
THEOREM NeverTraps == Spec => []NoTrap
<1>1. IInv => NoTrap
  BY DEF IInv
<1> QED BY <1>1, Invariant, PTL

\* boot_data_entry_write() never opens the page of the newest entry for erasing.
THEOREM NewestNotErased == Spec => []ErasureSparesNewest
<1>1. IInv => ErasureSparesNewest
  <2> SUFFICES ASSUME IInv PROVE ErasureSparesNewest
    OBVIOUS
  <2> USE DEF IInv
  <2> SUFFICES ASSUME NEW p \in Pages, "erase" \in perms[p],
                      NEW i \in Indices, Newest(p, i)
               PROVE  pc = "check" /\ i = job.idx
    BY DEF ErasureSparesNewest, Opened
  <2>1. /\ pc \in {"erase", "digest", "rest", "check"} /\ p = job.page
        /\ info.has => p # info.page
    BY DEF Opened
  <2>2. Replaces /\ Valid(p, i)
    BY <2>1 DEF WriteInv, Writing, Newest
  <2>3. IsTarget(p, i)
    <3> SUFFICES ASSUME ~IsTarget(p, i) PROVE FALSE
      OBVIOUS
    <3>1. /\ info.has /\ Valid(info.page, info.lastValid)
          /\ flash[p][i].ctr <= flash[info.page][info.lastValid].ctr
      BY <2>2 DEF Replaces
    <3>2. info.page \in Pages /\ info.lastValid \in Indices
      BY <3>1 DEF TypeInv, TypeOK, Shape, Infos
    <3>3. flash[info.page][info.lastValid].ctr <= flash[p][i].ctr
      BY <3>1, <3>2 DEF Newest
    <3>4. flash[info.page][info.lastValid].ctr \in Nat /\ flash[p][i].ctr \in Nat
      BY <2>2, <3>1, <3>2, ValidType
    <3>5. flash[info.page][info.lastValid].ctr = flash[p][i].ctr
      BY <3>1, <3>3, <3>4
    <3> QED BY <2>1, <2>2, <3>1, <3>2, <3>5 DEF Ordered
  <2> QED BY <2>1, <2>3 DEF IsTarget
<1> QED BY <1>1, Invariant, PTL

\* boot_data_entry_write_impl() only programs flash words that are erased.
THEOREM WordsErased == Spec => []ProgramsErasedWords
<1>1. IInv => ProgramsErasedWords
  BY Programming DEF IInv, ProgramsErasedWords, WriteInv, Writing, Written0
<1> QED BY <1>1, Invariant, PTL

-----------------------------------------------------------------------------
(* BootData implements BootDataSpec *)

(* The register *)

LEMMA StoredNewest ==
  TypeInv /\ Ordered =>
    \A p \in Pages, i \in Indices : Newest(p, i) =>
      Stored = Data(flash[p][i]) /\ Stored \in Content
<1> SUFFICES ASSUME TypeInv, Ordered, NEW p \in Pages, NEW i \in Indices, Newest(p, i)
             PROVE  Stored = Data(flash[p][i]) /\ Stored \in Content
  OBVIOUS
<1> DEFINE at == CHOOSE x \in Pages \X Indices : Newest(x[1], x[2])
<1>1. \E x \in Pages \X Indices : Newest(x[1], x[2])
  <2>1. <<p, i>> \in Pages \X Indices /\ Newest(<<p, i>>[1], <<p, i>>[2])
    OBVIOUS
  <2> QED BY <2>1
<1>2. at \in Pages \X Indices /\ Newest(at[1], at[2])
  BY <1>1
<1>3. at[1] = p /\ at[2] = i
  BY <1>2, UniqueNewest
<1>4. Valid(p, i)
  BY DEF Newest
<1>5. Stored = Data(flash[at[1]][at[2]])
  BY <1>4 DEF Stored
<1> QED BY <1>3, <1>4, <1>5, ValidType

LEMMA StoredNone ==
  (\A p \in Pages, i \in Indices : ~Valid(p, i)) => Stored = None
  BY DEF Stored

LEMMA StoredNewestNext ==
  (TypeInv /\ Ordered =>
    \A p \in Pages, i \in Indices : Newest(p, i) =>
      Stored = Data(flash[p][i]) /\ Stored \in Content)'
  BY StoredNewest, PTL

LEMMA StoredNoneNext ==
  ((\A p \in Pages, i \in Indices : ~Valid(p, i)) => Stored = None)'
  BY StoredNone, PTL

LEMMA NoneIsNoContent == None \notin Content
  BY DistinctAssumption DEF Content

LEMMA NoneIsNoCall == None \notin Calls
  BY DistinctAssumption DEF Calls

\* A step that keeps the newest entry keeps the register.
LEMMA KeptStored ==
  ASSUME TypeInv, Ordered, Live, TypeInv', Ordered', Kept
  PROVE  Stored' = Stored
<1>1. CASE \A p \in Pages, i \in Indices : ~Valid(p, i)
  <2>1. \A p \in Pages, i \in Indices : ~Valid(p, i)'
    BY <1>1 DEF Kept, Valid
  <2> QED BY <1>1, <2>1, StoredNone, StoredNoneNext
<1>2. ASSUME NEW p \in Pages, NEW i \in Indices, Newest(p, i) PROVE Stored' = Stored
  <2>1. flash'[p][i] = flash[p][i]
    BY <1>2 DEF Kept
  <2>2. Newest(p, i)'
    BY <1>2, <2>1 DEF Kept, Newest, Valid
  <2>3. Stored' = Data(flash'[p][i])
    BY <2>2, StoredNewestNext
  <2> QED BY <1>2, <2>1, <2>3, StoredNewest
<1> QED BY <1>1, <1>2 DEF Live

LEMMA SameStored ==
  ASSUME TypeInv, Ordered, Live, TypeInv', Ordered', UNCHANGED flash
  PROVE  Stored' = Stored
  BY FlashKept, KeptStored

\* Before the new entry is complete the register holds the old entry.
LEMMA StoredBefore ==
  ASSUME RInv, pc \in Before
  PROVE  /\ Stored = IF info.has THEN info.entry ELSE None
         /\ job.entry = Register!Replacement(Stored, call.ver)
         /\ ~Committed
<1> USE DEF RInv, IInv
<1>1. /\ info.has => Newest(info.page, info.lastValid)
      /\ ~info.has => \A p \in Pages, i \in Indices : ~Valid(p, i)
      /\ job \in Jobs /\ info.page \in Pages
      /\ info.has => info.lastValid \in Indices
  BY OldIsNewest
<1>2. /\ job.entry.ver = call.ver
      /\ job.entry.ctr = (IF info.has THEN info.entry.ctr ELSE DefaultCounter) + 1
      /\ info.has => info.entry = Data(flash[info.page][info.lastValid])
  BY DEF Asked, Writing, Before
<1>3. Stored = IF info.has THEN info.entry ELSE None
  BY <1>1, <1>2, StoredNewest, StoredNone
<1>4. info.has => info.entry # None
  BY NoneIsNoContent DEF TypeInv, Shape
<1>5. job.entry = [ctr |-> job.entry.ctr, ver |-> job.entry.ver]
  BY <1>1 DEF Jobs, Content
<1> QED BY <1>2, <1>3, <1>4, <1>5 DEF Register!Replacement, Committed, Before

\* After that it holds the new one, if what was programmed reads back.
LEMMA StoredAfter ==
  ASSUME RInv, pc \in {"check", "invalidate"}
  PROVE  Committed <=> Target = Written
<1> USE DEF RInv, IInv
<1>1. /\ job \in Jobs /\ job.page \in Pages /\ job.idx \in Indices
      /\ job.entry \in Content /\ job.entry.ctr \in Nat
  BY DEF TypeInv, Shape, Writing, Jobs, Content
<1>2. job.entry = [ctr |-> job.entry.ctr, ver |-> job.entry.ver]
  BY <1>1 DEF Content
<1>3. PICK p \in Pages, i \in Indices : p = job.page /\ i = job.idx
  BY <1>1
<1>4. CASE Target = Written
  <2>1. Newest(p, i)
    BY <1>3, <1>4, TargetIsNewest
  <2>2. Stored = Data(Written)
    BY <1>3, <1>4, <2>1, StoredNewest DEF Target
  <2> QED BY <1>2, <1>4, <2>2 DEF Data, Written, Entry, Committed
<1>5. CASE Target # Written
  <2>1. Written0 /\ Replaces /\ pc = "check"
    BY <1>5 DEF WriteInv, Writing, Written0
  <2>2. PICK d \in Programmed({job.entry}), c \in Programmed({job.entry.ctr}),
             v \in Programmed({job.entry.ver}) : Target = Entry(d, TRUE, c, v)
    BY <2>1 DEF Written0
  <2>3. ~Check(Target)
    <3> SUFFICES ASSUME Check(Target) PROVE FALSE
      OBVIOUS
    <3>1. d = [ctr |-> c, ver |-> v] /\ Target.ctr = c /\ Target.ver = v
      BY <2>2 DEF Check, Data, Entry
    <3>2. Target \in Entries
      BY <1>1 DEF Target, TypeInv, TypeOK
    <3>3. c \in Nat /\ v \in Versions /\ d \in Content
      BY <3>1, <3>2, CheckedEntry DEF Content
    <3>4. d = job.entry
      BY <3>3, DistinctAssumption DEF Programmed, Content
    <3>5. c = job.entry.ctr /\ v = job.entry.ver
      BY <1>2, <3>1, <3>4
    <3> QED BY <1>5, <2>2, <3>4, <3>5 DEF Written
  <2>4. \A q \in Pages, j \in Indices : Valid(q, j) => flash[q][j].ctr < job.entry.ctr
    BY <2>1, <2>3 DEF Replaces, IsTarget, Valid, Target
  <2>5. Stored # job.entry
    <3>1. CASE \A q \in Pages, j \in Indices : ~Valid(q, j)
      BY <1>1, <3>1, StoredNone, NoneIsNoContent
    <3>2. ASSUME NEW q \in Pages, NEW j \in Indices, Newest(q, j) PROVE Stored # job.entry
      <4>1. Valid(q, j) /\ flash[q][j].ctr < job.entry.ctr /\ flash[q][j].ctr \in Nat
        BY <2>4, <3>2, ValidType DEF Newest
      <4>2. Stored.ctr = flash[q][j].ctr
        BY <3>2, StoredNewest DEF Data
      <4> QED BY <1>1, <4>1, <4>2
    <3> QED BY <3>1, <3>2 DEF Live
  <2> QED BY <1>5, <2>5 DEF Committed
<1> QED BY <1>4, <1>5

-----------------------------------------------------------------------------
(* The invariant of the refinement *)

LEMMA RInvInit == Init => RInv
  BY InvInit DEF Init, RInv, Asked, Writing

LEMMA RInvNext == RInv /\ [Next]_vars => RInv'
<1> SUFFICES ASSUME RInv, [Next]_vars PROVE RInv'
  OBVIOUS
<1> USE DEF RInv
<1>1. IInv'
  BY InvNext
<1>2. CASE /\ pc' = "idle" /\ call' = None
  BY <1>1, <1>2 DEF Asked, Writing
<1>3. CASE pc' \in {"scan0", "scan1", "plan", "trap"}
  BY <1>1, <1>3 DEF Asked, Writing
<1>4. CASE Plan
  <2>1. /\ info' = info /\ call' = call /\ flash' = flash /\ call.op = "write"
        /\ job'.entry = [ctr |-> NextCounter, ver |-> call.ver]
        /\ pc' \in {"erase", "digest"}
    BY <1>4 DEF Plan
  <2>2. info.has => info.entry = Data(flash[info.page][info.lastValid])
    BY <1>4 DEF Plan, IInv, Searched, Found
  <2> QED BY <1>1, <2>1, <2>2 DEF Asked, Writing, NextCounter
<1>5. CASE Erase \/ ProgramDigest
  <2>1. Kept /\ pc \in Before /\ pc' \in {"digest", "rest"} /\ UNCHANGED <<call, info, job>>
    BY <1>5, StepErase, StepDigest DEF Erase, ProgramDigest, Before
  <2>2. info.has => flash'[info.page][info.lastValid] = flash[info.page][info.lastValid]
    BY <2>1, OldIsNewest DEF Kept, IInv
  <2> QED BY <1>1, <2>1, <2>2 DEF Asked, Writing, Before
<1>6. CASE ProgramRest \/ ReadBack
  <2>1. CASE pc' \in {"check", "invalidate"} /\ UNCHANGED <<call, info, job>>
    BY <1>1, <1>6, <2>1 DEF ProgramRest, ReadBack, Asked, Writing
  <2> QED BY <1>2, <1>6, <2>1 DEF ProgramRest, ReadBack, Return
<1>7. CASE UNCHANGED vars
  BY <1>1, <1>7 DEF vars, Asked
<1>8. ASSUME NEW c, Start(c) PROVE RInv'
  BY <1>3, <1>8 DEF Start
<1>9. ASSUME NEW p \in Pages, ScanPage(p) PROVE RInv'
  BY <1>3, <1>9, StepScan DEF ScanPage
<1>10. CASE ReadReturn \/ Invalidate \/ FlashError \/ Reset
  BY <1>2, <1>10 DEF ReadReturn, Invalidate, FlashError, Reset, Return
<1> QED BY <1>4, <1>5, <1>6, <1>7, <1>8, <1>9, <1>10 DEF Next, StartRead, StartWrite

-----------------------------------------------------------------------------
(* The refinement *)

LEMMA RefinesInit == Init => Register!Init
<1> SUFFICES ASSUME Init PROVE Register!Init
  OBVIOUS
<1>1. \A p \in Pages, i \in Indices : ~Valid(p, i)
  <2>1. EmptyEntry.dig = Erased /\ Erased \notin Content
    BY DistinctAssumption DEF EmptyEntry, Entry, Content
  <2>2. ~Check(EmptyEntry)
    BY <2>1, EmptyType, TornInvalid
  <2> QED BY <2>2 DEF Init, Valid
<1> QED BY <1>1, StoredNone DEF Init, Register!Init, Committed

\* The register after a transaction that is cut off.
LEMMA TornWhollyOrNot ==
  ASSUME RInv, RInv', flash' \in PartialFlash
  PROVE  Register!WhollyOrNotAtAll
<1> USE DEF RInv, IInv
<1>1. CASE Kept
  BY <1>1, KeptStored DEF Register!WhollyOrNotAtAll
<1>2. CASE pc = "rest" /\ flash' = Put(job.page, job.idx, Written)
  <2>1. Stored' = job.entry
    <3>1. PICK p \in Pages, i \in Indices : p = job.page /\ i = job.idx
      BY <1>2, Programming
    <3>2. Newest(p, i)'
      BY <1>2, <3>1, WrittenKeeps
    <3>3. flash'[p][i] = Written
      BY <1>2, <3>1, Programming DEF Put, TypeInv, TypeOK
    <3>4. Stored' = Data(Written)
      BY <3>2, <3>3, StoredNewestNext
    <3>5. job.entry = [ctr |-> job.entry.ctr, ver |-> job.entry.ver]
      BY <1>2, Programming DEF Content
    <3> QED BY <3>4, <3>5 DEF Data, Written, Entry
  <2>2. job.entry = Register!Replacement(Stored, call.ver) /\ ~Committed
    BY <1>2, StoredBefore DEF Before
  <2>3. call # None /\ call.op = "write"
    BY <1>2, NoneIsNoCall DEF TypeInv, Shape, InFlash, Asked, Writing
  <2> QED BY <2>1, <2>2, <2>3 DEF Register!WhollyOrNotAtAll
<1> QED BY <1>1, <1>2, TornKeeps

LEMMA RefinesStep ==
  ASSUME RInv, RInv', Next
  PROVE  Register!Next \/ UNCHANGED Register!vars
<1> USE DEF RInv, IInv
<1>1. ASSUME NEW c \in Calls, Start(c) PROVE Register!Call(c) /\ c \in Register!Calls
  <2>1. pc = "idle" /\ pc' = "scan0" /\ UNCHANGED flash /\ call = None
    BY <1>1 DEF Start, Asked
  <2>2. Stored' = Stored /\ Committed = FALSE /\ Committed' = FALSE
    BY <2>1, SameStored DEF Committed
  <2>3. c \in Register!Calls
    BY BootDataAssumption DEF Calls, Register!Calls, Register!LcStates
  <2> QED BY <1>1, <2>1, <2>2, <2>3 DEF Register!Call, Start
<1>2. CASE (\E lc \in LcArgs : StartRead(lc)) \/ (\E v \in Versions : StartWrite(v))
  <2>1. ASSUME NEW lc \in LcArgs, StartRead(lc) PROVE Register!Next
    <3>1. [op |-> "read", lc |-> lc] \in Calls
      BY DEF Calls
    <3> QED BY <1>1, <2>1, <3>1 DEF StartRead, Register!Next
  <2>2. ASSUME NEW v \in Versions, StartWrite(v) PROVE Register!Next
    <3>1. [op |-> "write", ver |-> v] \in Calls
      BY DEF Calls
    <3> QED BY <1>1, <2>2, <3>1 DEF StartWrite, Register!Next
  <2> QED BY <1>2, <2>1, <2>2
<1>3. ASSUME pc \notin {"check", "invalidate"}, pc' \notin {"check", "invalidate"},
             UNCHANGED <<call, ret>>, Stored' = Stored
      PROVE  UNCHANGED Register!vars
  BY <1>3 DEF Register!vars, Committed
<1>4. ASSUME NEW p \in Pages, ScanPage(p) PROVE UNCHANGED Register!vars
  <2>1. /\ pc \in {"scan0", "scan1"} /\ pc' \in {"scan1", "plan"} /\ UNCHANGED flash
        /\ UNCHANGED <<call, ret>>
    BY <1>4, StepScan DEF ScanPage, Scanning
  <2> QED BY <1>3, <2>1, SameStored
<1>5. CASE Plan \/ Erase \/ ProgramDigest
  <2>1. /\ pc \in {"plan", "erase", "digest"} /\ pc' \in {"erase", "digest", "rest"}
        /\ UNCHANGED <<call, ret>>
    BY <1>5 DEF Plan, Erase, ProgramDigest
  <2>2. Stored' = Stored
    <3>1. Kept \/ UNCHANGED flash
      BY <1>5, StepErase, StepDigest DEF Plan
    <3> QED BY <3>1, KeptStored, SameStored
  <2> QED BY <1>3, <2>1, <2>2
<1>6. CASE ReadReturn
  <2>1. /\ pc = "plan" /\ pc' = "idle" /\ UNCHANGED flash /\ call \in Calls /\ call # None
        /\ call.op = "read" /\ call' = None /\ Found
        /\ \A p \in Pages, i \in Indices :
             Newest(p, i) => info.has /\ info.page = p /\ info.lastValid = i
    BY <1>6 DEF ReadReturn, Return, Searched, TypeInv, Shape
  <2>2. Stored' = Stored /\ Committed = FALSE /\ Committed' = FALSE
    BY <2>1, SameStored DEF Committed
  <2>3. Stored = IF info.has THEN info.entry ELSE None
    <3>1. CASE \A p \in Pages, i \in Indices : ~Valid(p, i)
      <4>1. ~info.has
        BY <2>1, <3>1 DEF Found, TypeInv, TypeOK, Shape, Infos
      <4> QED BY <3>1, <4>1, StoredNone
    <3>2. ASSUME NEW p \in Pages, NEW i \in Indices, Newest(p, i)
          PROVE  Stored = IF info.has THEN info.entry ELSE None
      BY <2>1, <3>2, StoredNewest DEF Found
    <3> QED BY <3>1, <3>2 DEF Live
  <2>4. info.has => info.entry # None
    BY NoneIsNoContent DEF TypeInv, Shape
  <2>5. ret' = Register!ReadResult(Stored, call.lc)
    BY <1>6, <2>1, <2>3, <2>4
       DEF ReadReturn, Return, Register!ReadResult, DefaultAllowed, Default,
           Register!DefaultAllowed, Register!Default
  <2> QED BY <2>1, <2>2, <2>5 DEF Register!Next, Register!ReturnRead
<1>7. CASE ProgramRest
  <2>1. /\ pc = "rest" /\ pc' = "check" /\ UNCHANGED <<call, info, job, ret>>
        /\ call # None /\ call.op = "write" /\ flash' \in [Pages -> [Indices -> Entries]]
    BY <1>7, NoneIsNoCall DEF ProgramRest, TypeInv, TypeOK, Shape, InFlash, Asked, Writing
  <2>2. job.entry = Register!Replacement(Stored, call.ver) /\ ~Committed
    BY <2>1, StoredBefore DEF Before
  <2>3. CASE Stored' = job.entry
    <3>1. Committed' = TRUE
      BY <2>1, <2>3 DEF Committed
    <3> QED BY <2>1, <2>2, <2>3, <3>1 DEF Register!Next, Register!Commit
  <2>4. CASE Stored' = Stored /\ Stored' # job.entry
    <3>1. ~Committed'
      BY <2>1, <2>4 DEF Committed
    <3>2. Committed' = Committed
      BY <2>2, <3>1 DEF Committed
    <3> QED BY <2>1, <2>4, <3>2 DEF Register!vars
  <2>5. Stored' = Stored \/ Stored' = job.entry
    <3>1. CASE Kept
      BY <3>1, KeptStored
    <3>2. CASE flash' = Put(job.page, job.idx, Written)
      <4>1. PICK p \in Pages, i \in Indices : p = job.page /\ i = job.idx
        BY <2>1, Programming
      <4>2. Newest(p, i)'
        BY <2>1, <3>2, <4>1, WrittenKeeps
      <4>3. flash'[p][i] = Written
        BY <2>1, <3>2, <4>1, Programming DEF Put, TypeInv, TypeOK
      <4>4. Stored' = Data(Written)
        BY <4>2, <4>3, StoredNewestNext
      <4>5. job.entry = [ctr |-> job.entry.ctr, ver |-> job.entry.ver]
        BY <2>1, Programming DEF Content
      <4> QED BY <4>4, <4>5 DEF Data, Written, Entry
    <3> QED BY <1>7, <3>1, <3>2, StepRest
  <2> QED BY <2>3, <2>4, <2>5
<1>8. CASE ReadBack
  <2>1. /\ pc = "check" /\ UNCHANGED flash /\ call \in Calls /\ call # None
        /\ call.op = "write"
    BY <1>8, NoneIsNoCall DEF ReadBack, TypeInv, Shape, InFlash, Asked, Writing
  <2>2. Stored' = Stored /\ (Committed <=> ReadsBack)
    BY <2>1, SameStored, StoredAfter DEF ReadsBack
  <2>3. CASE ~ReadsBack /\ Return("WriteCheck", None)
    <3>1. Committed' = FALSE /\ call' = None
      BY <2>3 DEF Return, Committed
    <3>2. Register!Fail("WriteCheck")
      BY <2>1, <2>2, <2>3, <3>1 DEF Return, Register!Fail, Register!WhollyOrNotAtAll
    <3> QED BY <3>2 DEF Register!Next, Register!Errors
  <2>4. CASE ReadsBack /\ Return("Ok", None)
    <3>1. Committed' = FALSE /\ call' = None
      BY <2>4 DEF Return, Committed
    <3>2. Register!ReturnWrite
      BY <2>1, <2>2, <2>4, <3>1 DEF Return, Register!ReturnWrite
    <3> QED BY <3>2 DEF Register!Next
  <2>5. CASE ReadsBack /\ pc' = "invalidate" /\ UNCHANGED <<call, info, job, ret>>
    <3>1. Committed' = Committed
      BY <2>1, <2>2, <2>5 DEF Committed
    <3> QED BY <2>2, <2>5, <3>1 DEF Register!vars
  <2> QED BY <1>8, <2>3, <2>4, <2>5 DEF ReadBack
<1>9. CASE Invalidate
  <2>1. /\ pc = "invalidate" /\ call \in Calls /\ call # None /\ call.op = "write"
        /\ Return("Ok", None)
    BY <1>9, NoneIsNoCall DEF Invalidate, TypeInv, Shape, InFlash, Asked, Writing
  <2>2. Committed
    <3>1. Target = Written
      BY <2>1 DEF WriteInv, Writing, Written0
    <3> QED BY <2>1, <3>1, StoredAfter
  <2>3. Stored' = Stored
    BY <1>9, StepInvalidate, KeptStored
  <2>4. Committed' = FALSE /\ call' = None
    BY <2>1 DEF Return, Committed
  <2> QED BY <2>1, <2>2, <2>3, <2>4 DEF Return, Register!ReturnWrite, Register!Next
<1>10. CASE FlashError
  <2>1. /\ flash' \in PartialFlash /\ call \in Calls /\ call # None
        /\ Return("FlashError", None)
    BY <1>10, NoneIsNoCall DEF FlashError, TypeInv, Shape
  <2>2. Committed' = FALSE /\ call' = None
    BY <2>1 DEF Return, Committed
  <2>3. Register!Fail("FlashError")
    BY <2>1, <2>2, TornWhollyOrNot DEF Return, Register!Fail
  <2> QED BY <2>3 DEF Register!Next, Register!Errors
<1>11. CASE Reset
  <2>1. flash' \in PartialFlash /\ call' = None /\ ret' = None /\ pc' = "idle"
    BY <1>11 DEF Reset
  <2>2. Committed' = FALSE
    BY <2>1 DEF Committed
  <2>3. Register!Reset
    BY <2>1, <2>2, TornWhollyOrNot DEF Register!Reset
  <2> QED BY <2>3 DEF Register!Next
<1> QED BY <1>2, <1>4, <1>5, <1>6, <1>7, <1>8, <1>9, <1>10, <1>11 DEF Next

\* boot_data_read() and boot_data_write() implement a register that survives
\* resets, torn writes and erases, flash errors and silent program failures.
THEOREM IsCrashAtomic == Spec => CrashAtomic
<1>1. UNCHANGED vars => UNCHANGED Register!vars
  <2> SUFFICES ASSUME UNCHANGED vars PROVE UNCHANGED Register!vars
    OBVIOUS
  <2>1. UNCHANGED <<flash, pc, job, call, ret>>
    BY DEF vars
  <2>2. Stored' = Stored
    BY <2>1 DEF Stored, Newest, Valid
  <2>3. Committed' = Committed
    BY <2>1, <2>2 DEF Committed
  <2> QED BY <2>1, <2>2, <2>3 DEF Register!vars
<1>2. RInv /\ RInv' /\ [Next]_vars => [Register!Next]_(Register!vars)
  BY <1>1, RefinesStep
<1> QED BY <1>2, RInvInit, RInvNext, RefinesInit, PTL
        DEF Spec, CrashAtomic, Register!Spec
==============================================================================
