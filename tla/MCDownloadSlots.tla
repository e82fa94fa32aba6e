-------------------------- MODULE MCDownloadSlots --------------------------
(* Small instances of DownloadSlots for TLC. *)
EXTENDS DownloadSlots, TLC

CONSTANTS dead1, dead2, live1, live2

\* The dead ones come first.
DeadFirst ==
    [t \in Planned |-> CASE t = dead1 -> 1 [] t = dead2 -> 2 [] t = live1 -> 3 [] t = live2 -> 4]
=============================================================================
