\* Two owners pin two pieces while two goroutines have their files open,
\* files are removed and evicted under them, and limits change.
SPECIFICATION Spec
CONSTANTS
  h1 = h1  h2 = h2  done = done  c1 = c1  t1 = t1  t2 = t2  o1 = o1  o2 = o2
  Hex = {h1, h2}
  Key <- TwoPieces
  Complete = done
  Owner = {o1, o2}
  Thread = {t1, t2}
  MaxSize = 1
  Capacities <- CapacityNone
  Reserves = {0}
  MaxGen = 0
  NoKey = NoKey
  NoTrim = NoTrim
SYMMETRY OwnersAndThreads
INVARIANTS AccountingExact FilesAreItems NeverUndercounts
PROPERTIES TrimReachesCapacity
