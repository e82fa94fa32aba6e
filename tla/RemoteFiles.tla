----------------------------- MODULE RemoteFiles -----------------------------
(***************************************************************************)
(* RemoteFile (vfs/remote_file.go): a file streamed over the network       *)
(* through one body, which a read continues, moves on by discarding a      *)
(* short gap, or opens again at its offset. Closing a body from the        *)
(* watchdog ends a blocked read, so a read of the body ends in one of the  *)
(* ways of BodyRead and Discards.                                          *)
(***************************************************************************)
EXTENDS ReadCalls

CONSTANTS
  MaxSkip,   \* the longest gap a read discards
  NoBody

VARIABLES
  body,      \* where the open body's next byte is in the file, or NoBody
  pos        \* RemoteFile.pos: where the file takes it to be

remoteVars == <<body, pos>>

RemoteInit ==
  /\ body = [h \in Handles |-> NoBody]
  /\ pos = [h \in Handles |-> 0]

OpenRemote(h) ==
  /\ OpenFile(h, "remote")
  /\ UNCHANGED remoteVars

RemoteReadAt(h, off, want) ==
  /\ Ready(h, "remote")
  /\ Begins(h, "finds", off, want)
  /\ UNCHANGED <<file, remoteVars>>

(* Past the end there is nothing to read.                                  *)
PastEnd(h) ==
  /\ file[h] = "remote" /\ call[h].at = "finds" /\ call[h].off >= Size
  /\ Returns(h, <<>>, "eof")
  /\ UNCHANGED <<file, calls, remoteVars>>

Target(h) == call[h].off + Len(call[h].got)
Wanted(h) == IF call[h].want < Size - call[h].off THEN call[h].want ELSE Size - call[h].off

(* The bytes of the open body skipped on the way to the target: the gap,   *)
(* or fewer before the body breaks or ends.                                *)
Skips(h) ==
  LET gap == Target(h) - pos[h]
  IN  IF gap > 0 /\ gap <= MaxSkip THEN 0..gap ELSE {0}

(* seek: the open body once it is at the target, after the short gap, or   *)
(* a new one there. A body that broke on the way, or the watchdog closed,  *)
(* is opened again; the opening may fail.                                  *)
Reaches(h) ==
  /\ body[h] # NoBody
  /\ \E n \in Skips(h) :
       /\ pos[h] + n = Target(h)
       /\ pos' = [pos EXCEPT ![h] = @ + n]
       /\ body' = [body EXCEPT ![h] = @ + n]
  /\ call' = [call EXCEPT ![h].at = "takes"]

Reopens(h) ==
  /\ pos' = [pos EXCEPT ![h] = Target(h)]
  /\ body' = [body EXCEPT ![h] = Target(h)]
  /\ call' = [call EXCEPT ![h].at = "takes"]

OpenFails(h) ==
  /\ body' = [body EXCEPT ![h] = NoBody]
  /\ \E n \in Skips(h) : pos' = [pos EXCEPT ![h] = IF body[h] = NoBody THEN @ ELSE @ + n]
  /\ Returns(h, call[h].got, "error")

(* An open body at the target is never given up.                           *)
RemoteSeek(h) ==
  /\ file[h] = "remote" /\ call[h].at = "finds" /\ call[h].off < Size
  /\ \/ Reaches(h)
     \/ ~(body[h] # NoBody /\ pos[h] = Target(h)) /\ (Reopens(h) \/ OpenFails(h))
  /\ UNCHANGED <<file, calls>>

(* How a read of the body ends, under the watchdog.                        *)
Outcomes == {"flows", "breaks", "closed"}

(* readBody and the loop around it. The body gives n units and flows on,   *)
(* breaks, or is closed by the watchdog, which a read that has all it      *)
(* wants does not mind. One that broke is opened again where it stopped,   *)
(* once.                                                                   *)
BodyRead(h, n, how) ==
  LET got == call[h].got \o [i \in 1..n |-> body[h] + i - 1]
      whole == Len(got) = Wanted(h)
  IN  /\ whole \/ how # "flows"
      /\ pos' = [pos EXCEPT ![h] = @ + n]
      /\ body' = [body EXCEPT ![h] = IF how = "flows" THEN @ + n ELSE NoBody]
      /\ IF whole /\ ~(how = "breaks" /\ call[h].again)
         THEN Returns(h, got, IF Len(got) < call[h].want THEN "eof" ELSE "ok")
         ELSE IF call[h].again THEN Returns(h, got, "error")
         ELSE call' = [call EXCEPT ![h].at = "finds", ![h].got = got, ![h].again = TRUE]

RemoteRead(h) ==
  /\ file[h] = "remote" /\ call[h].at = "takes"
  /\ \E n \in 0..(Wanted(h) - Len(call[h].got)), how \in Outcomes :
       BodyRead(h, n, how)
  /\ UNCHANGED <<file, calls>>

RemoteClose(h) ==
  /\ file[h] = "remote"
  /\ Closes(h)
  /\ body' = [body EXCEPT ![h] = NoBody]
  /\ pos' = [pos EXCEPT ![h] = 0]
  /\ UNCHANGED calls

RemoteStep(h) == PastEnd(h) \/ RemoteSeek(h) \/ RemoteRead(h) \/ RemoteClose(h)

RemoteNext ==
  \E h \in Handles :
    \/ OpenRemote(h)
    \/ \E ask \in Asks : RemoteReadAt(h, ask[1], ask[2])
    \/ RemoteStep(h)
    \/ RequestEnds(h, "remote") /\ UNCHANGED remoteVars
==============================================================================
