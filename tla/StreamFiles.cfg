SPECIFICATION Spec
CONSTANTS
  Handles = {h1, h2}
  Size = 3
  Asks <- MCAsks
  MaxCalls = 3
  NextPieces = {5}
  Header = 1
  Footer = 1
  Urgent = 1
  Readahead = 1
  Moov = {1, 2}
  MaxSkip = 1
  NoBody = NoBody
SYMMETRY Alike
INVARIANTS SeekIsFree OnlyDetectionsAsk
PROPERTIES ReadsWhatIsAsked
