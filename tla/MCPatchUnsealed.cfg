SPECIFICATION Spec
CONSTANTS
  Names = {1, 2, 3, 4}
  DirNames = {3, 4}
  LineLen = 1
  Sealed = FALSE
  MaxPending = 1
  Manifests <- MCManifests
INVARIANTS
  RoundTrip
