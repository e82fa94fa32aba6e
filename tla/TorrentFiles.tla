---------------------------- MODULE TorrentFiles ----------------------------
(***************************************************************************)
(* TorrentFile (vfs/torrent_file.go) and the PriorityReader it reads with  *)
(* (streaming/reader.go, prioritizer.go), for requests of one file of one  *)
(* torrent. A read runs in a goroutine of its own, which a timeout leaves  *)
(* behind on the library's reader: the next read must drain it first. The  *)
(* prioritizer raises pieces of the file, the client's readers want those  *)
(* at their positions, and the swarm is asked for both.                    *)
(***************************************************************************)
EXTENDS ReadCalls

CONSTANTS
  NextPieces,  \* of the next file's header and footer; {} without one
  Header,      \* the sizes of streaming.Config
  Footer,
  Urgent,
  Readahead,
  Moov         \* the pieces of the format's index at the file's end

ASSUME TorrentFilesAssumption ==
  /\ NextPieces \cap (0..Size) = {} /\ Moov \subseteq 0..(Size - 1)
  /\ {Header, Footer, Urgent, Readahead} \subseteq Nat

VARIABLES
  reader,    \* per handle: whether it has a PriorityReader
  at,        \* the library's reader's position
  tracked,   \* TorrentFile.readerPos
  seek,      \* Prioritizer.lastSeekOffset, -1 before the first
  read,      \* the read goroutine, and whether it is a call's pendingRead
  detector,  \* format detection, once for a reader: "no", "runs" or "over"
  raised,    \* pieces the prioritizer gave a priority
  quiet      \* history: no reader since the last one, open for long, closed

perHandle == <<reader, at, tracked, seek, read, detector>>
torrentVars == <<perHandle, raised, quiet>>

Pieces == 0..(Size - 1)
NoRead == [at |-> "none", pending |-> FALSE]
(* A read's outcome, which nobody looks at once its call has timed out.    *)
Done(data, err) == [at |-> "done", pending |-> FALSE, data |-> data, err |-> err]
Left == [at |-> "done", pending |-> TRUE]

TorrentInit ==
  /\ reader = [h \in Handles |-> FALSE]
  /\ at = [h \in Handles |-> 0] /\ tracked = [h \in Handles |-> 0]
  /\ seek = [h \in Handles |-> -1]
  /\ read = [h \in Handles |-> NoRead]
  /\ detector = [h \in Handles |-> "no"]
  /\ raised = {} /\ quiet = FALSE

Smaller(a, b) == IF a < b THEN a ELSE b

-----------------------------------------------------------------------------
(* Prioritizer.                                                            *)

PieceRange(from, end) == from..(end - 1)

(* The header and the footer, and those of the next file.                  *)
InitialPrioritize ==
  raised \cup PieceRange(0, Smaller(Header, Size))
         \cup PieceRange(IF Size > Footer THEN Size - Footer ELSE 0, Size)
         \cup NextPieces

WindowEnd(off) == Smaller(off + Urgent + Readahead, Size)

(* What a downgrade of a range may leave: the complete pieces are lowered. *)
(* Pieces complete and are evicted at any time, so any may be.             *)
Downgrades(old, range) == {old \ done : done \in SUBSET (old \cap range)}

(* A move of less than a piece is left alone. Otherwise the last window is *)
(* downgraded where it is behind the new one, or beyond it.                *)
UpdateForSeek(h, old, off) ==
  LET last == seek[h]
      end == IF last < 0 THEN 0 ELSE WindowEnd(last)
      passed == PieceRange(last, Smaller(end, off)) \cup PieceRange(WindowEnd(off), end)
  IN  /\ seek' = [seek EXCEPT ![h] = off]
      /\ IF last = off THEN raised' = old
         ELSE \E kept \in Downgrades(old, passed) :
                raised' = kept \cup PieceRange(off, WindowEnd(off))

ResetPriorities == raised \ Pieces
SetFormatInfo(moov) == raised \cup moov

(* What the swarm is asked for besides: a handle's open reader wants the   *)
(* pieces from its position to the end of the urgent buffer, its           *)
(* readahead, and so does the one a detection opens for itself, which      *)
(* seeks anywhere in the file and stays open until the detection ends,     *)
(* whatever became of its handle.                                          *)
ReaderWants(h) ==
  IF reader[h] THEN PieceRange(at[h], Smaller(at[h] + Urgent + 1, Size)) ELSE {}
DetectionWants(h) == IF detector[h] = "runs" THEN Pieces ELSE {}
Demand == raised \cup UNION {ReaderWants(h) \cup DetectionWants(h) : h \in Handles}

-----------------------------------------------------------------------------
(* A handle.                                                               *)

(* A handle is another request's once nothing of the last one runs.        *)
OpenTorrent(h) ==
  /\ read[h].at = "none" /\ detector[h] # "runs"
  /\ OpenFile(h, "torrent")
  /\ detector' = [detector EXCEPT ![h] = "no"]
  /\ UNCHANGED <<reader, at, tracked, seek, read, raised, quiet>>

EnsureReader(h) == IF reader[h] THEN raised ELSE InitialPrioritize

(* As if a read left behind were drained after the seek.                   *)
BugTorrentReadAt(h, off, want) ==
  /\ Ready(h, "torrent")
  /\ Begins(h, "seeks", off, want)
  /\ reader' = [reader EXCEPT ![h] = TRUE]
  /\ UpdateForSeek(h, EnsureReader(h), off)
  /\ quiet' = FALSE
  /\ UNCHANGED <<file, at, tracked, read, detector>>

(* ReadAt up to the drain: the first one creates the reader, and each      *)
(* raises the pieces from its offset.                                      *)
TorrentReadAt(h, off, want) ==
  /\ Ready(h, "torrent")
  /\ Begins(h, IF read[h].pending THEN "drains" ELSE "seeks", off, want)
  /\ reader' = [reader EXCEPT ![h] = TRUE]
  /\ UpdateForSeek(h, EnsureReader(h), off)
  /\ quiet' = FALSE
  /\ UNCHANGED <<file, at, tracked, read, detector>>

(* As if the position were known after a drain.                            *)
BugDrain(h) ==
  /\ file[h] = "torrent" /\ call[h].at = "drains"
  /\ read[h].at = "done"
  /\ read' = [read EXCEPT ![h] = NoRead]
  /\ call' = [call EXCEPT ![h].at = "seeks"]
  /\ UNCHANGED <<file, calls, reader, at, tracked, seek, detector, raised, quiet>>

(* seekAndReadAtLeast: the goroutine a timeout left behind is waited for.  *)
Drain(h) ==
  /\ file[h] = "torrent" /\ call[h].at = "drains"
  /\ read[h].at = "done"
  /\ read' = [read EXCEPT ![h] = NoRead]
  /\ call' = [call EXCEPT ![h].at = "seeks", ![h].again = TRUE]
  /\ UNCHANGED <<file, calls, reader, at, tracked, seek, detector, raised, quiet>>

DrainTimesOut(h) ==
  /\ file[h] = "torrent" /\ call[h].at = "drains"
  /\ Returns(h, <<>>, "error")
  /\ UNCHANGED <<file, calls, torrentVars>>

(* The position is known but after a drain. The library's reader is locked *)
(* by a read.                                                              *)
Seek(h) ==
  /\ file[h] = "torrent" /\ call[h].at = "seeks"
  /\ IF call[h].off = tracked[h] /\ ~call[h].again
     THEN UNCHANGED <<at, seek, raised>>
     ELSE /\ read[h].at # "reading"
          /\ at' = [at EXCEPT ![h] = call[h].off]
          /\ UpdateForSeek(h, raised, call[h].off)
  /\ call' = [call EXCEPT ![h].at = "reads", ![h].again = FALSE]
  /\ UNCHANGED <<file, calls, reader, tracked, read, detector, quiet>>

(* readContext, in the loop around it.                                     *)
StartRead(h) ==
  /\ file[h] = "torrent" /\ call[h].at = "reads" /\ read[h].at = "none"
  /\ read' = [read EXCEPT ![h] = [at |-> "spawned", pending |-> FALSE]]
  /\ UNCHANGED <<file, call, calls, reader, at, tracked, seek, detector, raised, quiet>>

(* What the goroutine read joins what the call has. It ends with all it    *)
(* was asked for, or with the goroutine's error. An "eof" after some bytes *)
(* is the code's io.ErrUnexpectedEOF: the call came to the end of the file *)
(* either way.                                                             *)
TakeResult(h) ==
  /\ file[h] = "torrent" /\ call[h].at = "reads" /\ read[h].at = "done"
  /\ LET got == call[h].got \o read[h].data
         all == Len(got) >= call[h].want
     IN  IF all \/ read[h].err # "ok"
         THEN /\ Returns(h, got, IF all THEN "ok" ELSE read[h].err)
              /\ tracked' = [tracked EXCEPT ![h] = call[h].off + Len(got)]
         ELSE /\ call' = [call EXCEPT ![h].got = got]
              /\ UNCHANGED tracked
  /\ read' = [read EXCEPT ![h] = NoRead]
  /\ UNCHANGED <<file, calls, reader, at, seek, detector, raised, quiet>>

(* The timeout may win over a result that is there.                        *)
ReadTimesOut(h) ==
  /\ file[h] = "torrent" /\ call[h].at = "reads" /\ read[h].at # "none"
  /\ read' = [read EXCEPT ![h] = IF @.at = "done" THEN Left ELSE [@ EXCEPT !.pending = TRUE]]
  /\ Returns(h, call[h].got, "error")
  /\ tracked' = [tracked EXCEPT ![h] = call[h].off + Len(call[h].got)]
  /\ UNCHANGED <<file, calls, reader, at, seek, detector, raised, quiet>>

(* Close, with the reader's: one open for long lowers the file's pieces. A *)
(* read and a detection under way go on.                                   *)
TorrentClose(h, long) ==
  /\ file[h] = "torrent"
  /\ Closes(h)
  /\ reader' = [reader EXCEPT ![h] = FALSE]
  /\ at' = [at EXCEPT ![h] = 0] /\ tracked' = [tracked EXCEPT ![h] = 0]
  /\ seek' = [seek EXCEPT ![h] = -1]
  /\ raised' = IF reader[h] /\ long THEN ResetPriorities ELSE raised
  /\ quiet' = IF reader[h] THEN long /\ \A k \in Handles \ {h} : ~reader[k] ELSE quiet
  /\ read' = [read EXCEPT ![h] = IF @.at = "done" THEN NoRead ELSE @]
  /\ UNCHANGED <<calls, detector>>

TorrentStep(h) ==
  \/ Drain(h) \/ DrainTimesOut(h) \/ Seek(h) \/ StartRead(h)
  \/ TakeResult(h) \/ ReadTimesOut(h)
  \/ \E long \in BOOLEAN : TorrentClose(h, long)

-----------------------------------------------------------------------------
(* What runs beside the requests.                                          *)

Reads(h) == read[h].at = "reading" /\ reader[h]
Ends(h, data, err) ==
  read' = [read EXCEPT ![h] = IF @.pending THEN Left ELSE Done(data, err)]

(* The goroutine reads TorrentFile.reader as it starts.                    *)
GoroutineStarts(h) ==
  /\ read[h].at = "spawned" /\ reader[h]
  /\ read' = [read EXCEPT ![h].at = "reading"]
  /\ UNCHANGED <<file, call, calls, reader, at, tracked, seek, detector, raised, quiet>>

(* Enough bytes start the detection of the format, once.                   *)
MaybeStartFormatDetection(h) ==
  \E enough \in BOOLEAN :
    detector' = [detector EXCEPT ![h] = IF enough /\ @ = "no" THEN "runs" ELSE @]

(* The library gives the bytes of a piece once the client has it.          *)
Delivers(h) ==
  /\ Reads(h) /\ at[h] < Size
  /\ Ends(h, <<at[h]>>, "ok")
  /\ at' = [at EXCEPT ![h] = @ + 1]
  /\ MaybeStartFormatDetection(h)
  /\ UNCHANGED <<file, call, calls, reader, tracked, seek, raised, quiet>>

ReadEnds(h) ==
  /\ Reads(h)
  /\ \/ at[h] = Size /\ Ends(h, <<>>, "eof")
     \/ Ends(h, <<>>, "error")
  /\ UNCHANGED <<file, call, calls, reader, at, tracked, seek, detector, raised, quiet>>

(* Closing the library's reader does not wake a read that waits for its    *)
(* piece: it ends when the piece comes, or fails. With bytes it may start  *)
(* the detection on the closed file.                                       *)
LateReadEnds(h) ==
  /\ read[h].at = "reading" /\ ~reader[h]
  /\ read' = [read EXCEPT ![h] = NoRead]
  /\ MaybeStartFormatDetection(h) \/ UNCHANGED detector
  /\ UNCHANGED <<file, call, calls, reader, at, tracked, seek, raised, quiet>>

(* As if the detection did not look whether its reader is closed.          *)
BugDetectFormat(h) ==
  /\ detector[h] = "runs"
  /\ detector' = [detector EXCEPT ![h] = "over"]
  /\ \E moov \in {{}, Moov} : raised' = SetFormatInfo(moov)
  /\ UNCHANGED <<file, call, calls, reader, at, tracked, seek, read, quiet>>

(* detectFormat ends: its reader is closed, and the index it found raised  *)
(* unless the handle's reader is closed by now.                            *)
DetectFormat(h) ==
  /\ detector[h] = "runs"
  /\ detector' = [detector EXCEPT ![h] = "over"]
  /\ \/ reader[h] /\ \E moov \in {{}, Moov} : raised' = SetFormatInfo(moov)
     \/ ~reader[h] /\ UNCHANGED raised
  /\ UNCHANGED <<file, call, calls, reader, at, tracked, seek, read, quiet>>

(* A goroutine that starts once its file is closed finds no reader: the    *)
(* process ends, and another starts.                                       *)
Panics(h) == read[h].at = "spawned" /\ ~reader[h]

TorrentRestart ==
  /\ reader' = [h \in Handles |-> FALSE]
  /\ at' = [h \in Handles |-> 0] /\ tracked' = [h \in Handles |-> 0]
  /\ seek' = [h \in Handles |-> -1]
  /\ read' = [h \in Handles |-> NoRead]
  /\ detector' = [h \in Handles |-> "no"]
  /\ raised' = {} /\ quiet' = FALSE

TorrentNext ==
  \E h \in Handles :
    \/ OpenTorrent(h)
    \/ \E ask \in Asks : TorrentReadAt(h, ask[1], ask[2])
    \/ TorrentStep(h)
    \/ RequestEnds(h, "torrent") /\ UNCHANGED torrentVars
    \/ GoroutineStarts(h) \/ Delivers(h) \/ ReadEnds(h) \/ LateReadEnds(h)
    \/ DetectFormat(h)
=============================================================================
