---------------------------- MODULE BootDataInv ----------------------------
(***************************************************************************)
(* The inductive invariant of BootData.                                    *)
(***************************************************************************)
EXTENDS BootData

Writing == {"erase", "digest", "rest", "check", "invalidate"}

\* Which variables hold a value at which step of a call.
Shape ==
  /\ pc \in Writing => job \in Jobs
  /\ pc \in InFlash \cup {"plan"} => call \in Calls
  /\ info.has => info.entry \in Content /\ info.lastValid \in Indices
  /\ pc = "invalidate" => info.has
  /\ pc = "idle" => ~info.has

TypeInv == TypeOK /\ Shape

-----------------------------------------------------------------------------
(* The flash, whatever happens to the call in progress *)

\* The entries of page p are used from the first to the last.
NoHoles(p) ==
  \A i, j \in Indices : i < j /\ IsEmpty(flash[p][i]) => IsEmpty(flash[p][j])

\* Counters increase along a page and differ between the pages.
Ordered ==
  \A p, q \in Pages, i, j \in Indices :
    Valid(p, i) /\ Valid(q, j) /\ (p = q => i < j) =>
      IF p = q THEN flash[p][i].ctr < flash[q][j].ctr
               ELSE flash[p][i].ctr # flash[q][j].ctr

\* A newest entry exists, on a page without holes, or no entry is valid.
Live ==
  \/ \A p \in Pages, i \in Indices : ~Valid(p, i)
  \/ \E p \in Pages, i \in Indices : Newest(p, i) /\ NoHoles(p)

-----------------------------------------------------------------------------
(* What the searches know *)

\* info describes a valid entry of its page.
Found ==
  info.has => /\ Valid(info.page, info.lastValid)
              /\ info.entry = Data(flash[info.page][info.lastValid])
              /\ IsFirstEmpty(flash[info.page], info.firstEmpty)

Searched ==
  /\ pc = "scan0" => ~info.has
  /\ pc = "scan1" =>
       /\ Found
       /\ info.has => info.page = 0
       /\ \A i \in Indices : Newest(0, i) => info.has /\ info.lastValid = i
  /\ pc = "plan" =>
       /\ Found
       /\ \A p \in Pages, i \in Indices :
            Newest(p, i) => info.has /\ info.page = p /\ info.lastValid = i

-----------------------------------------------------------------------------
(* The write in progress *)

IsTarget(p, i) == pc \in {"check", "invalidate"} /\ p = job.page /\ i = job.idx

\* The entry to replace is the newest but for the target, which will be newer.
Replaces ==
  /\ info.has => Valid(info.page, info.lastValid) /\ ~IsTarget(info.page, info.lastValid)
  /\ \A p \in Pages, i \in Indices : Valid(p, i) /\ ~IsTarget(p, i) =>
       /\ flash[p][i].ctr < job.entry.ctr
       /\ info.has
       /\ flash[p][i].ctr <= flash[info.page][info.lastValid].ctr

\* The target is the first entry of its page that is not in use.
Appends ==
  \A i \in Indices : /\ i < job.idx => ~IsEmpty(flash[job.page][i])
                     /\ i > job.idx => IsEmpty(flash[job.page][i])

Programmed(values) == values \cup {Torn}

Written0 ==
  /\ pc = "digest" => Target = EmptyEntry
  /\ pc = "rest" => \E d \in Programmed({job.entry}) :
                     Target = Entry(d, TRUE, Erased, Erased)
  /\ pc = "check" => \E d \in Programmed({job.entry}),
                        c \in Programmed({job.entry.ctr}),
                        v \in Programmed({job.entry.ver}) :
                      Target = Entry(d, TRUE, c, v)
  /\ pc = "invalidate" => Target = Written

WriteInv ==
  pc \in Writing =>
    /\ Replaces
    /\ pc = "erase" => job.idx = 0 /\ (info.has => job.page # info.page)
    /\ pc # "erase" => Appends
    /\ Written0

\* Only the page to write is ever open for erasing, never that of the old entry.
Opened ==
  /\ pc = "idle" => perms = NoPerms
  /\ \A p \in Pages : "erase" \in perms[p] =>
       /\ pc \in {"erase", "digest", "rest", "check"}
       /\ p = job.page
       /\ info.has => p # info.page

\* boot_data.c keeps counters in order on flash, finds the newest entry, and
\* writes next to it without ever opening its page for erasing.
IInv == TypeInv /\ Ordered /\ Live /\ Searched /\ WriteInv /\ Opened /\ NoTrap

\* What the content of the new entry has to do with the call and the old entry.
Asked ==
  /\ pc = "idle" => call = None
  /\ pc \in Writing =>
       /\ call.op = "write"
       /\ job.entry.ver = call.ver
       /\ job.entry.ctr = (IF info.has THEN info.entry.ctr ELSE DefaultCounter) + 1
  /\ pc \in {"erase", "digest", "rest"} /\ info.has =>
       info.entry = Data(flash[info.page][info.lastValid])

\* The invariant under which BootData implements BootDataSpec.
RInv == IInv /\ Asked
============================================================================
