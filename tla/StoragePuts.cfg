\* PUTs beside the Keeps, releases and passes of two downloads that share a
\* file, with another file assigned and unassigned between the steps of a
\* Keep, failing passes and restarts with another config.yaml.
SPECIFICATION FairSpec
CONSTANTS
  MinBytes = 4  FloorFreeBytes = 2  MaxReserveBytes = 3  DiskTotal = 20
  Null = Null  Free = Free
  p1 = p1  p2 = p2  d1 = d1  d2 = d2  f1 = f1  f2 = f2  f3 = f3
  Putter = {p1, p2}
  Limits = {8}
  KeptCaps = {5}
  SmartCaps = {4}
  Patches <- Bodies
  Configs <- TwoConfigs
  Download = {d1, d2}
  File = {f1, f2, f3}
  Size <- Sizes
  Covers <- Sharing
  Late = {f1}
  Failing = TRUE
PROPERTIES PutStoresWhatItChecked CapsStayFit PutSparesAdmitted  PutsReturn
