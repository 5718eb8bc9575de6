----------------------------- MODULE MCBootData -----------------------------
(***************************************************************************)
(* BootData on small flash pages.                                          *)
(***************************************************************************)
EXTENDS BootDataInv
=============================================================================
