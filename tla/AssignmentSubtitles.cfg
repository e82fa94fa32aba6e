\* Two torrents, one file each, applied to one episode by two requests.
SPECIFICATION Spec
CONSTANTS
  h1 = h1  h2 = h2  e1 = e1  w1 = w1  w2 = w2
  Torrents = {h1, h2}
  FilesOf <- OneFileEach
  Episodes = {e1}
  NoEpisode = NoEpisode
  Extra = Extra
  Workers = {w1, w2}
  MaxJobs = 2
  MaxChanges = 0
  Readings <- AllSure
  AIModes = {"off"}
  Answers <- SomeAnswers
  Nobody = Nobody
CHECK_DEADLOCK FALSE
INVARIANT SubtitlesFollow
