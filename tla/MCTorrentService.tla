---------------------------- MODULE MCTorrentService -------------------------
(* TorrentService for TLC: callers are alike, and so are pieces.             *)
EXTENDS TorrentService, TLC

Symmetry == Permutations(Callers) \cup Permutations(Pieces)
==============================================================================
