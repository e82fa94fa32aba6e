----------------------------- MODULE StreamFiles -----------------------------
(***************************************************************************)
(* The files WebDAV requests read: torrent files and remote files behind   *)
(* the one interface (vfs.File), each request with a file of either kind.  *)
(***************************************************************************)
EXTENDS TorrentFiles, RemoteFiles

vars == <<file, call, calls, torrentVars, remoteVars>>

Init ==
  /\ file = [h \in Handles |-> "none"]
  /\ call = [h \in Handles |-> Free] /\ calls = 0
  /\ TorrentInit /\ RemoteInit

Crash ==
  /\ \E h \in Handles : Panics(h)
  /\ file' = [h \in Handles |-> "none"]
  /\ call' = [h \in Handles |-> Free] /\ UNCHANGED calls
  /\ TorrentRestart
  /\ body' = [h \in Handles |-> NoBody] /\ pos' = [h \in Handles |-> 0]

Next ==
  \/ TorrentNext /\ UNCHANGED remoteVars
  \/ RemoteNext /\ UNCHANGED torrentVars
  \/ Crash

Spec == Init /\ [][Next]_vars

-----------------------------------------------------------------------------
(* Both kinds of file read as FileReads promises: the bytes a call returns *)
(* are those from its offset on, whatever reads timed out, drained, broke, *)
(* skipped or were tried again before it, and all of them unless it fails; *)
(* the end is reported at the end of the file only.                        *)
AsRead(h) ==
  LET c == call[h]
  IN  IF file[h] = "none" \/ c.at = "closes" THEN [at |-> "closed"]
      ELSE IF c.at \in {"idle", "returned"} THEN c
      ELSE [at |-> "asked", off |-> c.off, want |-> c.want, got |-> c.got]

FileRead == INSTANCE FileReads WITH call <- [h \in Handles |-> AsRead(h)]

ReadsWhatIsAsked == FileRead!Spec

(* Once the last reader of a file, open for long, is closed and until it   *)
(* is read again, its prioritizers leave no piece raised, and all the      *)
(* swarm is asked for of it is what detections still under way read. Their *)
(* readers outlive a Close, and a read a timeout left behind may start one *)
(* after it; neither it nor such a read leaves anything asked for when it  *)
(* ends.                                                                   *)
OnlyDetectionsAsk ==
  quiet => /\ raised \cap Pieces = {}
           /\ Demand \cap Pieces \subseteq UNION {DetectionWants(h) : h \in Handles}

(* A Seek never waits for the lock of the library's reader, which a read   *)
(* holds until a piece arrives and no timeout of the seek would end: what  *)
(* a timed-out read left behind has been waited for, within the timeout.   *)
SeekIsFree ==
  \A h \in Handles :
    file[h] = "torrent" /\ call[h].at = "seeks" => read[h].at = "none"
==============================================================================
