--------------------------- MODULE MCPieceCache ---------------------------
(* Small instances of PieceCache for TLC. *)
EXTENDS PieceCache, TLC

CONSTANTS h1, h2, done, c1, t1, t2, o1, o2

\* Two complete pieces, and one that is complete and also has a chunk.
TwoPieces == {<<h1, done>>, <<h2, done>>}
OnePiece == {<<h1, done>>, <<h1, c1>>}

\* Unlimited, nothing at all, and one file.
CapacityOne == {-1, 1}
CapacityNone == {-1, 0, 1}
OwnersAndThreads == Permutations({t1, t2}) \cup Permutations({o1, o2})
=============================================================================
