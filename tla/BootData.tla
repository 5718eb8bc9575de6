------------------------------ MODULE BootData ------------------------------
(***************************************************************************)
(* Boot data storage: lib/boot_data.c on flash info pages 0 and 1 of bank 1.*)
(* Each page is an append-only log of entries.  A write appends an entry   *)
(* with the next counter to the active page (the page of the newest valid  *)
(* entry), or erases the other page when the active one is full, and then  *)
(* zeroes is_valid of the entry it replaces.                               *)
(*                                                                         *)
(* One step is one flash transaction, with the permission changes around   *)
(* it, because nothing else runs between two transactions.  A reset or a   *)
(* reported flash error may stop a transaction after any flash word        *)
(* (PartialFlash), and a program transaction that reports success may have *)
(* left a field that does not hold its value (Weak) when WeakFlash holds.  *)
(*                                                                         *)
(* An entry is four fields in the order of boot_data_t: the digest, the    *)
(* is_valid word, the flash word of identifier and counter, and the        *)
(* security versions.  A digest is the content it was computed over.       *)
(***************************************************************************)
EXTENDS Integers

CONSTANTS
  EntriesPerPage,  \* kBootDataEntriesPerPage (32)
  Versions, DefaultVersion, DefaultCounter, ProdDefaultEn, None,
  WeakFlash,       \* whether a program transaction may fail silently
  LcArgs,          \* life cycle states passed to boot_data_read()
  Erased,          \* a field of erased flash words
  Torn,            \* a programmed field that holds no value ever written
  MaxCounter       \* bound: no write starts when the counter has this value

ASSUME BootDataAssumption ==
  /\ EntriesPerPage \in Nat \ {0}
  /\ DefaultVersion \in Versions
  /\ DefaultCounter \in Nat
  /\ ProdDefaultEn \in BOOLEAN
  /\ WeakFlash \in BOOLEAN
  /\ MaxCounter \in Nat
  /\ LcArgs \subseteq {"Test", "Dev", "Prod", "ProdEnd", "Rma"}

ASSUME DistinctAssumption ==
  /\ Erased # Torn
  /\ {Erased, Torn, None} \cap (Nat \cup Versions) = {}
  /\ {Erased, Torn, None} \cap [ctr : Nat \cup {Erased, Torn},
                                 ver : Versions \cup {Erased, Torn}] = {}
  /\ None \notin [op : {"read"}, lc : LcArgs] \cup [op : {"write"}, ver : Versions]

VARIABLES
  flash,  \* flash[p][i] is entry i of info page p
  perms,  \* perms[p]: enabled permissions of page p (INFO_PAGE_CFG registers)
  pc,     \* the transaction that comes next, "idle" between calls
  call,   \* the call in progress, or None
  info,   \* active_page_info_t and the newest entry found so far
  job,    \* where a write puts which content, or None before it is planned
  ret     \* what the last call returned, None after a reset

vars == <<flash, perms, pc, call, info, job, ret>>

Pages   == {0, 1}
Indices == 0 .. EntriesPerPage - 1
Content == [ctr : Nat, ver : Versions]
Entries == [dig   : Content \cup {Erased, Torn},
            valid : BOOLEAN,  \* whether is_valid is kBootDataValidEntry
            ctr   : Nat \cup {Erased, Torn},
            ver   : Versions \cup {Erased, Torn}]

Entry(d, b, c, v) == [dig |-> d, valid |-> b, ctr |-> c, ver |-> v]

EmptyEntry == Entry(Erased, TRUE, Erased, Erased)
NoInfo     == [has |-> FALSE, page |-> 0, firstEmpty |-> EntriesPerPage,
               lastValid |-> EntriesPerPage, entry |-> None]
NoPerms    == [p \in Pages |-> {}]
Only(p, s) == [q \in Pages |-> IF q = p THEN s ELSE {}]

-----------------------------------------------------------------------------
(* Searching a page *)

\* Mutant: an entry is taken for empty by its sniffed identifier alone.
IsEmptySniffOnly(e) == e.valid /\ e.ctr = Erased

IsEmpty(e) == e = EmptyEntry

Data(e) == [ctr |-> e.ctr, ver |-> e.ver]

\* boot_data_check() of an entry whose sniffed identifier is the right one:
\* the digest covers is_valid, the identifier and the content.
Check(e) == e.valid /\ e.dig = Data(e)

\* The forward search stops at i, or at EntriesPerPage on a full page.
IsFirstEmpty(page, i) ==
  /\ \A j \in 0 .. i - 1 : ~IsEmpty(page[j])
  /\ i < EntriesPerPage => IsEmpty(page[i])

\* The backward search from the first empty entry stops at i.
IsLastValid(page, firstEmpty, i) ==
  /\ i < firstEmpty
  /\ Check(page[i])
  /\ \A j \in i + 1 .. firstEmpty - 1 : ~Check(page[j])

-----------------------------------------------------------------------------
(* What a transaction that does not complete leaves behind *)

\* Erasing goes through the words of a page in ascending order.
PartlyErased(e) ==
  {e, Entry(IF e.dig = Erased THEN Erased ELSE Torn, e.valid, e.ctr, e.ver),
      Entry(Erased, e.valid, e.ctr, e.ver),
      Entry(Erased, TRUE, e.ctr, e.ver),
      Entry(Erased, TRUE, Erased, e.ver)}

ErasedUpTo(page, i, e) ==
  [j \in Indices |-> IF j < i THEN EmptyEntry ELSE IF j = i THEN e ELSE page[j]]

TornErase(page) ==
  UNION {{ErasedUpTo(page, i, e) : e \in PartlyErased(page[i])} : i \in Indices}

\* Programming goes through the words in ascending order, too.
PartlyDigest(e)    == {e, Entry(Torn, e.valid, e.ctr, e.ver)}
PartlyRest(e, new) == {e, Entry(e.dig, e.valid, new.ctr, e.ver),
                          Entry(e.dig, e.valid, new.ctr, new.ver)}

\* The entry a write is about.
Target == flash[job.page][job.idx]

Put(p, i, e) == [flash EXCEPT ![p][i] = e]

PutPage(p, page) == [flash EXCEPT ![p] = page]

PartialFlash ==
  CASE pc = "erase"  -> {PutPage(job.page, x) : x \in TornErase(flash[job.page])}
    [] pc = "digest" -> {Put(job.page, job.idx, e) : e \in PartlyDigest(Target)}
    [] pc = "rest"   -> {Put(job.page, job.idx, e) : e \in PartlyRest(Target, job.entry)}
    [] OTHER         -> {flash}

-----------------------------------------------------------------------------
(* Calls *)

Init ==
  /\ flash = [p \in Pages |-> [i \in Indices |-> EmptyEntry]]
  /\ perms = NoPerms
  /\ pc = "idle"
  /\ call = None
  /\ info = NoInfo
  /\ job = None
  /\ ret = None

\* The end of a call: permissions are closed again, whatever the result.
Return(res, entry) ==
  /\ pc' = "idle"
  /\ perms' = NoPerms
  /\ call' = None
  /\ info' = NoInfo
  /\ job' = None
  /\ ret' = [op |-> call.op, res |-> res, entry |-> entry]

\* Both calls begin with boot_data_active_page_find(), at page 0.
Start(c) ==
  /\ pc = "idle"
  /\ call' = c
  /\ pc' = "scan0"
  /\ perms' = Only(0, {"read"})
  /\ ret' = None
  /\ UNCHANGED <<flash, info, job>>

StartRead(lc) == Start([op |-> "read", lc |-> lc])

StartWrite(v) ==
  /\ \A p \in Pages, i \in Indices : flash[p][i].ctr # MaxCounter  \* bound
  /\ Start([op |-> "write", ver |-> v])

-----------------------------------------------------------------------------
(* boot_data_page_info_update(): one page *)

Scanning(p) == IF p = 0 THEN "scan0" ELSE "scan1"

\* Mutant: the search goes back to the first page.
AdvanceForever(p) ==
  /\ pc' = IF p = 0 THEN "scan1" ELSE "scan0"
  /\ perms' = IF p = 0 THEN Only(1, {"read"}) ELSE Only(0, {"read"})

\* The page is closed and the next one opened, or the search ends.
Advance(p) ==
  /\ pc' = IF p = 0 THEN "scan1" ELSE "plan"
  /\ perms' = IF p = 0 THEN Only(1, {"read"}) ELSE NoPerms

\* A failed HARDENED_CHECK: the processor traps with the page still open.
Trap == pc' = "trap" /\ UNCHANGED perms

\* "Counters cannot be equal if we have two valid entries": the check traps.
ScanPage(p) ==
  /\ pc = Scanning(p)
  /\ UNCHANGED <<flash, call, job, ret>>
  /\ \E firstEmpty \in 0 .. EntriesPerPage :
       /\ IsFirstEmpty(flash[p], firstEmpty)
       /\ \/ /\ \A i \in 0 .. firstEmpty - 1 : ~Check(flash[p][i])
             /\ UNCHANGED info
             /\ Advance(p)
          \/ \E i \in Indices :
               /\ IsLastValid(flash[p], firstEmpty, i)
               /\ info.has => flash[p][i].ctr > info.entry.ctr
               /\ info' = [has |-> TRUE, page |-> p, firstEmpty |-> firstEmpty,
                           lastValid |-> i, entry |-> Data(flash[p][i])]
               /\ Advance(p)
          \/ \E i \in Indices :
               /\ IsLastValid(flash[p], firstEmpty, i)
               /\ info.has /\ flash[p][i].ctr <= info.entry.ctr
               /\ UNCHANGED info
               /\ IF flash[p][i].ctr < info.entry.ctr THEN Advance(p) ELSE Trap

-----------------------------------------------------------------------------
(* The rest of boot_data_read() *)

DefaultAllowed(lc) == lc \in {"Prod", "ProdEnd"} => ProdDefaultEn

Default == [ctr |-> DefaultCounter, ver |-> DefaultVersion]

ReadReturn ==
  /\ pc = "plan"
  /\ call # None /\ call.op = "read"
  /\ UNCHANGED flash
  /\ \/ info.has /\ Return("Ok", info.entry)
     \/ ~info.has /\ DefaultAllowed(call.lc) /\ Return("Ok", Default)
     \/ ~info.has /\ ~DefaultAllowed(call.lc) /\ Return("NotFound", None)

-----------------------------------------------------------------------------
(* The rest of boot_data_write() *)

OtherPage(p) == 1 - p

\* Mutant: a full page is not noticed.
NeedsEraseUninitializedOnly == ~info.has

NeedsErase == ~info.has \/ info.firstEmpty = EntriesPerPage

\* Mutant: a full active page is erased and used again.
TargetPageSame == IF info.has THEN info.page ELSE 0

TargetPage == CASE ~info.has              -> 0
                [] info.has /\ NeedsErase  -> OtherPage(info.page)
                [] info.has /\ ~NeedsErase -> info.page

\* Mutant: the counter of the new entry is the old one.
NextCounterStuck == IF info.has THEN info.entry.ctr ELSE DefaultCounter

NextCounter == (IF info.has THEN info.entry.ctr ELSE DefaultCounter) + 1

\* The new entry and its place; boot_data_entry_write() opens the page.
Plan ==
  /\ pc = "plan"
  /\ call # None /\ call.op = "write"
  /\ job' = [page  |-> TargetPage,
             idx   |-> IF NeedsErase THEN 0 ELSE info.firstEmpty,
             entry |-> [ctr |-> NextCounter, ver |-> call.ver]]
  /\ pc' = IF NeedsErase THEN "erase" ELSE "digest"
  /\ perms' = Only(TargetPage,
                   {"read", "write"} \cup IF NeedsErase THEN {"erase"} ELSE {})
  /\ UNCHANGED <<flash, call, info, ret>>

Erase ==
  /\ pc = "erase"
  /\ flash' = PutPage(job.page, [i \in Indices |-> EmptyEntry])
  /\ pc' = "digest"
  /\ UNCHANGED <<perms, call, info, job, ret>>

\* A field that is programmed without an error holds the value, or is Torn when
\* the flash is weak; one that was not erased is Torn for certain.
Weak(old, new) == IF old # Erased THEN {Torn}
                  ELSE IF WeakFlash THEN {new, Torn} ELSE {new}

ProgramDigest ==
  /\ pc = "digest"
  /\ \E d \in Weak(Target.dig, job.entry) :
       flash' = Put(job.page, job.idx, Entry(d, Target.valid, Target.ctr, Target.ver))
  /\ pc' = "rest"
  /\ UNCHANGED <<perms, call, info, job, ret>>

ProgramRest ==
  /\ pc = "rest"
  /\ \E c \in Weak(Target.ctr, job.entry.ctr), v \in Weak(Target.ver, job.entry.ver) :
       flash' = Put(job.page, job.idx, Entry(Target.dig, Target.valid, c, v))
  /\ pc' = "check"
  /\ UNCHANGED <<perms, call, info, job, ret>>

Written == Entry(job.entry, TRUE, job.entry.ctr, job.entry.ver)

\* Mutant: the new entry is not compared.
ReadsBackUnchecked == TRUE

ReadsBack == Target = Written

\* The new entry is read back; then the page of the old one is opened.
ReadBack ==
  /\ pc = "check"
  /\ UNCHANGED flash
  /\ \/ /\ ~ReadsBack
        /\ Return("WriteCheck", None)
     \/ /\ ReadsBack
        /\ ~info.has
        /\ Return("Ok", None)
     \/ /\ ReadsBack
        /\ info.has
        /\ pc' = "invalidate"
        /\ perms' = Only(info.page, {"write"})
        /\ UNCHANGED <<call, info, job, ret>>

\* is_valid is one flash word; nothing reads it back.
Invalidate ==
  /\ pc = "invalidate"
  /\ \/ LET old == flash[info.page][info.lastValid]
        IN  flash' = Put(info.page, info.lastValid,
                         Entry(old.dig, FALSE, old.ctr, old.ver))
     \/ WeakFlash /\ UNCHANGED flash
  /\ Return("Ok", None)

-----------------------------------------------------------------------------
(* Failures *)

InFlash == {"scan0", "scan1", "erase", "digest", "rest", "check", "invalidate"}

\* wait_for_done() reports an error, which every caller passes on.
FlashError ==
  /\ pc \in InFlash
  /\ flash' \in PartialFlash
  /\ Return("FlashError", None)

\* A reset at any moment, the shutdown after a trap included.
Reset ==
  /\ flash' \in PartialFlash
  /\ perms' = NoPerms
  /\ pc' = "idle"
  /\ call' = None
  /\ info' = NoInfo
  /\ job' = None
  /\ ret' = None

Next ==
  \/ \E lc \in LcArgs : StartRead(lc)
  \/ \E v \in Versions : StartWrite(v)
  \/ \E p \in Pages : ScanPage(p)
  \/ ReadReturn
  \/ Plan
  \/ Erase
  \/ ProgramDigest
  \/ ProgramRest
  \/ ReadBack
  \/ Invalidate
  \/ FlashError
  \/ Reset

Spec == Init /\ [][Next]_vars

\* The processor keeps executing the call in progress.
Step ==
  \/ \E p \in Pages : ScanPage(p)
  \/ ReadReturn \/ Plan \/ Erase \/ ProgramDigest \/ ProgramRest
  \/ ReadBack \/ Invalidate

FairSpec == Spec /\ WF_vars(Step)

-----------------------------------------------------------------------------
(* Properties *)

Jobs  == [page : Pages, idx : Indices, entry : Content]
Infos == [has : BOOLEAN, page : Pages, firstEmpty : 0 .. EntriesPerPage,
          lastValid : 0 .. EntriesPerPage, entry : Content \cup {None}]
Calls == [op : {"read"}, lc : LcArgs] \cup [op : {"write"}, ver : Versions]
Rets  == [op  : {"read", "write"},
          res : {"Ok", "NotFound", "WriteCheck", "FlashError"},
          entry : Content \cup {None}]

\* Every variable keeps its type.
TypeOK ==
  /\ flash \in [Pages -> [Indices -> Entries]]
  /\ perms \in [Pages -> SUBSET {"read", "write", "erase"}]
  /\ pc \in InFlash \cup {"idle", "plan", "trap"}
  /\ call \in Calls \cup {None}
  /\ info \in Infos
  /\ job \in Jobs \cup {None}
  /\ ret \in Rets \cup {None}

Valid(p, i) == Check(flash[p][i])

\* Entry i of page p is the newest valid entry.
Newest(p, i) ==
  /\ Valid(p, i)
  /\ \A q \in Pages, j \in Indices : Valid(q, j) => flash[q][j].ctr <= flash[p][i].ctr

\* The content of the newest entry.
Stored ==
  IF \E p \in Pages, i \in Indices : Valid(p, i)
  THEN LET at == CHOOSE x \in Pages \X Indices : Newest(x[1], x[2])
       IN  Data(flash[at[1]][at[2]])
  ELSE None

Committed == pc \in {"check", "invalidate"} /\ Stored = job.entry

Register == INSTANCE BootDataSpec WITH reg <- Stored, committed <- Committed

\* boot_data_read() and boot_data_write() behave as one register that survives
\* resets: a torn or failed write leaves the old content or the new one, and
\* the counter goes up by one at every replacement and never down.
CrashAtomic == Register!Spec

\* The HARDENED_CHECK_LT of boot_data_page_info_update_impl() never fails: no
\* sequence of torn writes, torn erases and missed invalidations makes the
\* newest entries of the two pages carry the same counter.
NoTrap == pc # "trap"

\* While a page can be erased the newest entry is on the other one, and between
\* calls, after an error as well, no page is open (boot_data_entry_write()).
ErasureSparesNewest ==
  /\ pc = "idle" => perms = NoPerms
  /\ \A p \in Pages : "erase" \in perms[p] =>
       \A i \in Indices : Newest(p, i) => pc = "check" /\ i = job.idx

\* A program transaction only meets erased words, although a torn erase or a
\* torn write may have left programmed words anywhere on the page.
ProgramsErasedWords ==
  /\ pc = "digest" => Target = EmptyEntry
  /\ pc = "rest" => Target.valid /\ Target.ctr = Erased /\ Target.ver = Erased

\* Every call returns, or a reset ends it.
CallsEnd == pc # "idle" ~> pc = "idle"
=============================================================================
