SPECIFICATION Spec
CONSTANTS
  Torrents = {h1}
  Pieces = {p1, p2}
  Callers = {c1, c2}
  StartPaused = {TRUE, FALSE}
  MaxChanges = 2
  Nobody = Nobody
INVARIANTS NoOrphans PausedIsQuiet PausesAgree
PROPERTIES IdleIsUnread RemovalLeavesOnlyWhatFailed
SYMMETRY Symmetry
