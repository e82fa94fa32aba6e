SPECIFICATION FairSpec
CONSTANTS
  Members = {m1, m2}
  Leavers = {m1}
  MaxRuns = 2
  MaxErrors = 1
  MaxStops = 1
  Nobody = Nobody
INVARIANTS OneExecution RemovedIsStopped
PROPERTIES RunsEnd
