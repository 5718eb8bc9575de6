---------------------------- MODULE MCResetPath -----------------------------
(***************************************************************************)
(* Instance for TLC: counters of ten values, so that 9/8 of one of the     *)
(* thresholds of OTP overflows.                                            *)
(***************************************************************************)
EXTENDS ResetPathInv

Chip(t, b, s) == [timed |-> t, threshold |-> b, signals |-> s]

MCChips == {Chip(TRUE, 1, 1), Chip(TRUE, 2, 2), Chip(TRUE, 2, 4), Chip(TRUE, 0, 3),
            Chip(FALSE, 2, 0)}
=============================================================================
