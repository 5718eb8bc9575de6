----------------------------- MODULE MCDualCore -----------------------------
EXTENDS DualCore

\* Words of two bits.
MCWords == 0 .. 3
MCSucc  == [w \in MCWords |-> (w + 1) % 4]
MCFlip  == [w \in MCWords |-> 3 - w]

\* Behind an Exposed cycle nothing is promised, so nothing is explored.
NotBlind == ~blind
=============================================================================
