\* One torrent of two files in one piece.
SPECIFICATION FairSpec
CONSTANTS
  t1 = t1  f1 = f1  f2 = f2  p1 = p1
  Torrent = {t1}
  File = {f1, f2}
  Piece = {p1}
  TorrentOf <- OneTorrent
  PiecesOf <- SharedPiece
  MaxChanges = 2
PROPERTIES AdmittedSurvives OnlySlotsFetch AdmittedIsFetched
