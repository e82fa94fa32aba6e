\* Two torrents assigned to one episode, one with two files for it.
SPECIFICATION FairSpec
CONSTANTS
  h1 = h1  h2 = h2  e1 = e1  w1 = w1  w2 = w2
  Torrents = {h1, h2}
  FilesOf <- TwoFiles
  Episodes = {e1}
  NoEpisode = NoEpisode
  Extra = Extra
  Workers = {w1}
  MaxJobs = 2
  MaxChanges = 2
  Readings <- Mixed
  AIModes = {"auto"}
  Answers <- SomeAnswers
  Nobody = Nobody
CHECK_DEADLOCK FALSE
INVARIANTS OneActiveRow SettledAgrees
PROPERTIES UserDecisionStands AppliedIsAccepted JobsSettle
