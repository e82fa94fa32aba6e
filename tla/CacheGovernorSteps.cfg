\* Passes over a cache that is written to, pinned and removed from.
SPECIFICATION GovernorFairSpec
CONSTANTS
  MinBytes = 2  FloorFreeBytes = 2  MaxReserveBytes = 2  Null = Null
  Limits = {2, 8}
  DiskTotal = 10
  Others = {0, 5}
  TrimStepBytes = 2
  MaxChanges = 2
PROPERTIES TrimsAreSteps Settles
