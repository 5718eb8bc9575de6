---------------------------- MODULE SecMmioInv ------------------------------
(* The inductive invariant of SecMmio. *)
EXTENDS SecMmio, FiniteSets

\* Nothing is staged in a register that nothing else has touched.
Settled == \A r \in Regs : r \notin alien => hw[r].staged = None

\* The loop of a check is inside the table.
InLoop == pc = "check" => i <= last /\ (last > 0 => offset < last)

\* The value to compare is the one in the table.
Recorded == pc = "compare" => \E s \in Used : addrs[s] = cur.addr /\ values[s] = cur.masked

\* The table has as many entries as it names registers.
Counted == pc # "off" => Cardinality(Names) = last /\ IsFiniteSet(Names)

\* sec_mmio.c: a call in progress and a check in progress are about entries of
\* the table, whose registers hold what it says unless something else changed
\* them.
IInv == TypeOK /\ OneSlotEach /\ Tracked /\ Settled /\ InLoop /\ Recorded /\ Counted
=============================================================================
