----------------------------- MODULE MCRomBoot -----------------------------
EXTENDS RomBootInv

M(f, v, k, s, a) == [form |-> f, ver |-> v, key |-> k, sig |-> s, at |-> a]

\* Good images of two versions, and one for each way to be refused.
SmallManifests ==
  {M(TRUE, 1, "prod", TRUE, "off"), M(TRUE, 2, "prod", TRUE, "on"),
   M(TRUE, 1, "dev", TRUE, "on"), M(TRUE, 2, "revoked", TRUE, "malformed"),
   M(TRUE, 2, "prod", FALSE, "off"), M(FALSE, 2, "test", TRUE, "off")}

C(lc, sw, bs, wd, meas, mask) ==
  [lc |-> lc, swRsa |-> sw, bootstrapEn |-> bs, wdogEn |-> wd, romExtMeas |-> meas,
   wipeMask |-> mask]

SmallChips ==
  {C("Test", FALSE, TRUE, TRUE, FALSE, {}),
   C("Dev", TRUE, FALSE, TRUE, TRUE, {}),
   C("Prod", FALSE, TRUE, TRUE, TRUE, {"Watchdog"}),
   C("ProdEnd", TRUE, FALSE, FALSE, FALSE, {}),
   C("Rma", FALSE, FALSE, FALSE, FALSE, {"Software"})}
=============================================================================
