------------------------------ MODULE FileReads ------------------------------
(***************************************************************************)
(* What vfs.File promises a WebDAV request: ReadAt gives the bytes from    *)
(* the offset it was asked for, in order and all of them, or fewer with an *)
(* error; the end of the file is reported only there. The request ends     *)
(* with Close.                                                             *)
(***************************************************************************)
EXTENDS Naturals, Sequences

CONSTANTS
  Handles,   \* the requests served at a time
  Size,      \* the file's, in units
  Asks       \* what is asked for: <<offset, length>>

VARIABLE call

Closed == [at |-> "closed"]
Idle == [at |-> "idle"]
Asked(off, want, got) == [at |-> "asked", off |-> off, want |-> want, got |-> got]
Returned(off, want, got, result) ==
  [at |-> "returned", off |-> off, want |-> want, got |-> got, result |-> result]

BytesFrom(off, n) == [i \in 1..n |-> off + i - 1]

Init == call = [h \in Handles |-> Closed]

Open(h) ==
  /\ call[h] = Closed
  /\ call' = [call EXCEPT ![h] = Idle]

Ask(h) ==
  /\ call[h].at \in {"idle", "returned"}
  /\ \E ask \in Asks : call' = [call EXCEPT ![h] = Asked(ask[1], ask[2], <<>>)]

(* The bytes a call has after a step: those it had, and what follows them. *)
More(c) == {BytesFrom(c.off, n) : n \in Len(c.got)..c.want}

Give(h) ==
  /\ call[h].at = "asked"
  /\ \E got \in More(call[h]) : call' = [call EXCEPT ![h].got = got]

Return(h) ==
  /\ call[h].at = "asked"
  /\ \E got \in More(call[h]), result \in {"ok", "eof", "error"} :
       /\ result = "ok" => Len(got) = call[h].want
       /\ result = "eof" => call[h].off + Len(got) = Size
       /\ call' = [call EXCEPT ![h] = Returned(@.off, @.want, got, result)]

Close(h) ==
  /\ call[h].at \in {"idle", "returned"}
  /\ call' = [call EXCEPT ![h] = Closed]

Crash == call' = [h \in Handles |-> Closed]

Next ==
  \/ \E h \in Handles : Open(h) \/ Ask(h) \/ Give(h) \/ Return(h) \/ Close(h)
  \/ Crash

Spec == Init /\ [][Next]_call
==============================================================================
