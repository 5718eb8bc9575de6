SPECIFICATION Spec
CONSTANTS
  NoSlot = NoSlot
  Versions = {1, 2}
  Manifests <- SmallManifests
  Chips <- SmallChips
  Causes = {"Watchdog", "Software"}
INVARIANTS IInv ChecksAgree OneImage RetentionReady
PROPERTIES ReasonsKept SecureBoot
