SPECIFICATION Spec
CONSTANTS
  Names = {1, 2, 3, 4}
  DirNames = {3, 4}
  LineLen = 1
  Sealed = TRUE
  MaxPending = 1
  Manifests <- MCManifests
INVARIANTS
  RoundTrip
  PatchesClean
PROPERTIES
  IDsChain
  PatchesMinimal
  DiffAgreesWithPatch
