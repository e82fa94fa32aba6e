------------------------------ MODULE ReadCalls ------------------------------
(***************************************************************************)
(* The calls in progress on the files WebDAV requests have open            *)
(* (webdav/server.go, vfs/interface.go). A request has a handle of its own *)
(* (vfs.File), reads with it one ReadAt after another (webdavFile.Read and *)
(* Seek, under their mutex) and closes it. Offsets and lengths count in    *)
(* pieces of a torrent; bytes are told apart by the piece they are in.     *)
(***************************************************************************)
EXTENDS Integers, Sequences

CONSTANTS
  Handles,
  Size,
  Asks,      \* what a ReadAt may ask for: <<offset, length>>
  MaxCalls   \* ReadAts in a behaviour

ASSUME ReadCallsAssumption ==
  /\ Size \in Nat \ {0} /\ MaxCalls \in Nat
  /\ Asks \subseteq (0..Size) \X (Nat \ {0})

VARIABLES
  file,   \* what each handle has open: "none", "torrent" or "remote"
  call,   \* its call: "idle", at a step of ReadAt, "returned" or "closes"
  calls   \* ReadAts so far

Free == [at |-> "idle"]
Offsets == 0..Size

(* Between two calls of its request.                                       *)
Ready(h, kind) == file[h] = kind /\ call[h].at \in {"idle", "returned"}

OpenFile(h, kind) ==
  /\ file[h] = "none"
  /\ file' = [file EXCEPT ![h] = kind]
  /\ UNCHANGED <<call, calls>>

Begins(h, step, off, want) ==
  /\ calls < MaxCalls /\ calls' = calls + 1
  /\ call' = [call EXCEPT ![h] = [at |-> step, off |-> off, want |-> want, got |-> <<>>,
                                  again |-> FALSE]]

Returns(h, got, result) ==
  call' = [call EXCEPT ![h] = [at |-> "returned", off |-> @.off, want |-> @.want,
                               got |-> got, result |-> result]]

(* The request is over and closes its file.                                *)
RequestEnds(h, kind) ==
  /\ Ready(h, kind)
  /\ call' = [call EXCEPT ![h] = [at |-> "closes"]]
  /\ UNCHANGED <<file, calls>>

Closes(h) ==
  /\ call[h].at = "closes"
  /\ file' = [file EXCEPT ![h] = "none"]
  /\ call' = [call EXCEPT ![h] = Free]
==============================================================================
