SPECIFICATION Spec
CONSTANTS
  kRepublishIntervalMs = 3
  MaxTime = 9
  MaxGlitches = 3
INVARIANTS
  ChangesArePublished
  NeverSilentForLong
