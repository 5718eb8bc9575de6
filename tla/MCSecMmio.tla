----------------------------- MODULE MCSecMmio -----------------------------
EXTENDS SecMmioInv

Flip == [v \in Values |-> 1 - v]

\* SRAM as a reset left it: one content that looks like a table, one that is
\* beyond it.
Leftover ==
  {[addrs |-> [s \in Slots |-> "b"], values |-> [s \in Slots |-> 0],
    last |-> l, writes |-> 1, announced |-> 0, checks |-> 1] : l \in {1, 7}}
=============================================================================
