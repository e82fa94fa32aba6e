---------------------------- MODULE MCDownloads ----------------------------
(* A small instance of Downloads for TLC: two small files in one piece. *)
EXTENDS Downloads, TLC

CONSTANTS t1, f1, f2, p1

OneTorrent == f1 :> t1 @@ f2 :> t1
SharedPiece == f1 :> {p1} @@ f2 :> {p1}
=============================================================================
