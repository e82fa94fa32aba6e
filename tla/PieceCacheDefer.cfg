\* Deferred trims: restarts, Ready, and timers that fire late; over a piece
\* that is complete and also has a chunk.
SPECIFICATION FairSpec
CONSTANTS
  h1 = h1  h2 = h2  done = done  c1 = c1  t1 = t1  t2 = t2  o1 = o1  o2 = o2
  Hex = {h1, h2}
  Key <- OnePiece
  Complete = done
  Owner = {o1}
  Thread = {t1}
  MaxSize = 1
  Capacities <- CapacityOne
  Reserves = {1}
  MaxGen = 2
  NoKey = NoKey
  NoTrim = NoTrim
PROPERTIES ImplementsPinStore OnlyOwnTimerEndsDeferral DeferralEnds
