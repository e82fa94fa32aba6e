---------------------------- MODULE MCStreamFiles ----------------------------
(* StreamFiles for TLC: a file of three pieces, read from its start, on from *)
(* where a read stopped, after a gap, to its end and past it.                *)
EXTENDS StreamFiles, TLC

MCAsks == {<<0, 1>>, <<1, 2>>, <<2, 2>>, <<3, 1>>}
Alike == Permutations(Handles)
==============================================================================
