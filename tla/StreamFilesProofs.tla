--------------------------- MODULE StreamFilesProofs ---------------------------
(***************************************************************************)
(* What StreamFiles' runs check on small instances, proved for every file, *)
(* handle, request and number of calls: its types, its safety properties,  *)
(* and that it implements FileReads, step by step.                         *)
(*                                                                         *)
(* The invariant says of each handle what its call has read so far         *)
(* (Bytes), whose the read goroutine is, the call's own or one a timeout   *)
(* left behind (Reader), where the position tracked and the library        *)
(* reader's agree (Position), and where a remote file's body is (Body);    *)
(* and of the file that no priority is left once its last reader is gone   *)
(* (QuietInv).  Each action has one lemma: what it does to its handle      *)
(* (Keeps) is the step of FileReads and the invariant at once.             *)
(***************************************************************************)
EXTENDS StreamFiles, SequenceTheorems, TLAPS

-----------------------------------------------------------------------------
\* The records call and read hold.
TorrentSteps == {"drains", "seeks", "reads"}
RemoteSteps == {"finds", "takes"}
OpenCall == [at : TorrentSteps \cup RemoteSteps, off : Offsets, want : Nat \ {0},
             got : Seq(Int), again : BOOLEAN]
OverCall == [at : {"returned"}, off : Offsets, want : Nat \ {0}, got : Seq(Int),
             result : {"ok", "eof", "error"}]
Running == [at : {"none", "spawned", "reading"}, pending : BOOLEAN]
DoneRead == [at : {"done"}, pending : {FALSE}, data : Seq(Int), err : {"ok", "eof", "error"}]

CallTyped(c) == c = Free \/ c = [at |-> "closes"] \/ c \in OpenCall \/ c \in OverCall
ReadTyped(r) == r \in Running \/ r = Left \/ r \in DoneRead

TypeOK ==
  /\ file \in [Handles -> {"none", "torrent", "remote"}]
  /\ DOMAIN call = Handles /\ \A h \in Handles : CallTyped(call[h])
  /\ calls \in 0..MaxCalls
  /\ reader \in [Handles -> BOOLEAN]
  /\ at \in [Handles -> Offsets] /\ tracked \in [Handles -> Int] /\ seek \in [Handles -> Int]
  /\ DOMAIN read = Handles /\ \A h \in Handles : ReadTyped(read[h])
  /\ detector \in [Handles -> {"no", "runs", "over"}]
  /\ raised \subseteq Pieces \cup NextPieces /\ quiet \in BOOLEAN
  /\ DOMAIN body = Handles /\ pos \in [Handles -> Int]

\* A call is at a step of its kind of file, and a closed handle has none.
Kinds(h) ==
  /\ file[h] = "none" => call[h] = Free
  /\ file[h] = "torrent" => call[h].at \notin RemoteSteps
  /\ file[h] = "remote" => call[h].at \notin TorrentSteps

\* A call's bytes are those from its offset on, all of them when it says so.
Bytes(h) ==
  LET c == call[h]
  IN  /\ c.at \in TorrentSteps \cup RemoteSteps \cup {"returned"} =>
           /\ c.got = FileRead!BytesFrom(c.off, Len(c.got))
           /\ Len(c.got) <= c.want
           /\ c.off + Len(c.got) <= Size
      /\ c.at \in {"drains", "seeks"} => c.got = <<>>
      /\ c.at = "reads" => Len(c.got) < c.want
      /\ c.at = "takes" => c.off < Size

\* The read goroutine is the call's own or one a timeout left behind, which
\* the next call drains before it seeks.
Reader(h) ==
  /\ read[h].at = "none" => read[h] = NoRead
  /\ file[h] = "torrent" =>
       /\ call[h].at \in {"idle", "seeks"} => read[h] = NoRead
       /\ call[h].at = "drains" => read[h].pending
       /\ call[h].at = "reads" => ~read[h].pending
       /\ call[h].at \in {"returned", "closes"} => read[h] = NoRead \/ read[h].pending
       /\ call[h].at \in TorrentSteps \cup {"returned"} => reader[h]
  /\ file[h] # "torrent" => ~reader[h] /\ read[h].at # "done"

\* The position tracked is the library reader's, but while a read is left
\* behind or has just been drained; the call's own read goes on from there.
Position(h) ==
  /\ file[h] = "torrent" /\ read[h] = NoRead /\ call[h].at \in {"idle", "returned"} =>
       tracked[h] = at[h]
  /\ file[h] = "torrent" /\ call[h].at = "seeks" /\ ~call[h].again => tracked[h] = at[h]
  /\ file[h] # "torrent" => tracked[h] = at[h]
  /\ file[h] = "torrent" /\ call[h].at = "reads" =>
       LET next == call[h].off + Len(call[h].got)
       IN  /\ read[h].at # "done" => at[h] = next
           /\ read[h].at = "done" =>
                \/ read[h].data = <<next>> /\ read[h].err = "ok" /\ at[h] = next + 1
                \/ read[h].data = <<>> /\ read[h].err = "eof" /\ at[h] = next /\ next = Size
                \/ read[h].data = <<>> /\ read[h].err = "error" /\ at[h] = next

\* A remote file's position is its body's, which a read that takes has at its target.
Body(h) ==
  /\ body[h] = NoBody \/ body[h] = pos[h]
  /\ file[h] = "remote" /\ call[h].at = "takes" => body[h] = Target(h) /\ pos[h] = Target(h)
  /\ file[h] # "remote" => body[h] = NoBody

HandleInv(h) == Kinds(h) /\ Bytes(h) /\ Reader(h) /\ Position(h) /\ Body(h)
\* Without a reader nothing raises a piece of the file.
QuietInv == quiet => (\A h \in Handles : ~reader[h]) /\ raised \cap Pieces = {}
IInv == TypeOK /\ (\A h \in Handles : HandleInv(h)) /\ QuietInv

\* Nothing of a handle but its next seek and its detector moves.
Same(h) ==
  /\ file'[h] = file[h] /\ call'[h] = call[h] /\ reader'[h] = reader[h] /\ at'[h] = at[h]
  /\ tracked'[h] = tracked[h] /\ read'[h] = read[h] /\ body'[h] = body[h] /\ pos'[h] = pos[h]

\* What FileReads lets a handle's call do in a step.
ReadStep(v, w) ==
  \/ w = v
  \/ v = FileRead!Closed /\ w = FileRead!Idle
  \/ /\ v.at \in {"idle", "returned"}
     /\ \/ w = FileRead!Closed
        \/ \E ask \in Asks : w = FileRead!Asked(ask[1], ask[2], <<>>)
  \/ /\ v.at = "asked"
     /\ \E got \in FileRead!More(v) :
          \/ w = [v EXCEPT !.got = got]
          \/ \E result \in {"ok", "eof", "error"} :
               /\ result = "ok" => Len(got) = v.want
               /\ result = "eof" => v.off + Len(got) = Size
               /\ w = FileRead!Returned(v.off, v.want, got, result)

\* What each action does, to handle h.
Keeps(h) ==
  /\ TypeOK' /\ HandleInv(h)' /\ QuietInv'
  /\ \A k \in Handles \ {h} : Same(k)
  /\ ReadStep(AsRead(h), AsRead(h)')

-----------------------------------------------------------------------------
(* Lemmas about bytes, records and windows.                                *)

LEMMA BytesKinds ==
    ASSUME NEW off \in Nat, NEW n \in Nat
    PROVE  /\ FileRead!BytesFrom(off, n) \in Seq(Int)
           /\ Len(FileRead!BytesFrom(off, n)) = n
           /\ \A i \in 1..n : FileRead!BytesFrom(off, n)[i] = off + i - 1
<1>1. FileRead!BytesFrom(off, n) \in [1..n -> Int]
  BY DEF FileRead!BytesFrom
<1>2. FileRead!BytesFrom(off, n) \in Seq(Int)
  BY <1>1, SeqDef
<1>3. Len(FileRead!BytesFrom(off, n)) = n
  BY <1>1, <1>2, LenProperties
<1> QED BY <1>2, <1>3 DEF FileRead!BytesFrom

\* The n bytes from an offset on.
AreBytes(s, off, n) == s \in Seq(Int) /\ Len(s) = n /\ s = FileRead!BytesFrom(off, n)

\* Bytes that go on where those held end.
LEMMA BytesGrow ==
    ASSUME NEW off \in Nat, NEW k \in Nat, NEW m \in Nat, NEW next, NEW n, NEW got, NEW more,
           AreBytes(got, off, k), AreBytes(more, next, m), next = off + k, n = k + m
    PROVE  AreBytes(got \o more, off, n)
<1> DEFINE l == Len(got)
           all == FileRead!BytesFrom(off, l + m)
<1>1. /\ l = k /\ l \in Nat /\ l + m \in Nat /\ off + l \in Nat /\ next = off + l
      /\ got \in Seq(Int) /\ got = FileRead!BytesFrom(off, l)
  BY DEF AreBytes
<1>2. more \in Seq(Int) /\ more = FileRead!BytesFrom(next, m)
  BY DEF AreBytes
<1>3. Len(more) = m
  BY DEF AreBytes
<1>4. \A i \in 1..m : more[i] = off + l + i - 1
  <2>1. \A i \in 1..m : more[i] = next + i - 1
    BY <1>1, <1>2, BytesKinds
  <2> QED BY <1>1, <2>1
<1>5. \A i \in 1..l : got[i] = off + i - 1
  <2>1. \A i \in 1..l : FileRead!BytesFrom(off, l)[i] = off + i - 1
    BY <1>1, BytesKinds
  <2> HIDE DEF l
  <2> QED BY <1>1, <2>1
<1>6. all \in Seq(Int) /\ Len(all) = l + m
  BY <1>1, BytesKinds
<1>7. \A i \in 1..(l + m) : all[i] = off + i - 1
  BY <1>1, BytesKinds
<1>8. got \o more \in Seq(Int)
  BY <1>1, <1>2, ConcatProperties
<1>9. Len(got \o more) = l + m
  <2>1. Len(got \o more) = Len(got) + Len(more)
    BY <1>1, <1>2, ConcatProperties
  <2> QED BY <1>3, <2>1
<1>10. \A i \in 1..(l + m) : (got \o more)[i] = IF i <= l THEN got[i] ELSE more[i - l]
  BY <1>1, <1>2, <1>3, ConcatProperties
<1> HIDE DEF all, l
<1>11. \A i \in 1..(l + m) : (got \o more)[i] = all[i]
  <2> SUFFICES ASSUME NEW i \in 1..(l + m) PROVE (got \o more)[i] = off + i - 1
    BY <1>7
  <2>0. i \in Int /\ l \in Int /\ off \in Int
    BY <1>1
  <2>1. CASE i <= l
    <3>1. i \in 1..l
      BY <2>0, <2>1
    <3> QED BY <1>5, <1>10, <2>1, <3>1
  <2>2. CASE ~(i <= l)
    <3>1. i - l \in 1..m
      BY <1>1, <2>2
    <3>2. more[i - l] = off + l + (i - l) - 1
      BY <1>4, <3>1
    <3>3. off + l + (i - l) - 1 = off + i - 1
      BY <2>0
    <3> QED BY <1>10, <2>2, <3>2, <3>3
  <2> QED BY <2>1, <2>2
<1>12. got \o more = all
  BY <1>6, <1>8, <1>9, <1>11, SeqEqual
<1>13. n = l + m
  BY <1>1
<1> QED BY <1>8, <1>9, <1>12, <1>13 DEF all, AreBytes

LEMMA OneByte == ASSUME NEW x \in Nat PROVE <<x>> = FileRead!BytesFrom(x, 1)
<1>1. /\ FileRead!BytesFrom(x, 1) \in Seq(Int) /\ Len(FileRead!BytesFrom(x, 1)) = 1
      /\ FileRead!BytesFrom(x, 1)[1] = x
  <2>1. 1 \in Nat /\ 1 \in 1..1 /\ x + 1 - 1 = x
    OBVIOUS
  <2> QED BY <2>1, BytesKinds
<1>2. <<x>> \in Seq(Int) /\ Len(<<x>>) = 1 /\ <<x>>[1] = x
  OBVIOUS
<1> QED BY <1>1, <1>2, SeqEqual

LEMMA NoBytes == ASSUME NEW x \in Nat PROVE <<>> = FileRead!BytesFrom(x, 0)
<1>1. FileRead!BytesFrom(x, 0) \in Seq(Int) /\ Len(FileRead!BytesFrom(x, 0)) = 0
  BY BytesKinds
<1> QED BY <1>1, EmptySeq

LEMMA MoreBytes ==
    ASSUME NEW v, v.off \in Nat, v.want \in Nat, v.got \in Seq(Int),
           NEW n \in Nat, Len(v.got) <= n, n <= v.want
    PROVE  FileRead!BytesFrom(v.off, n) \in FileRead!More(v)
<1>1. Len(v.got) \in Nat
  BY LenProperties
<1> QED BY <1>1 DEF FileRead!More

LEMMA CallFields ==
    ASSUME NEW c, CallTyped(c)
    PROVE  /\ c.at \in TorrentSteps \cup RemoteSteps => c \in OpenCall
           /\ c.at = "returned" => c \in OverCall
           /\ c.at = "idle" => c = Free
           /\ c.at \in {"idle", "closes", "returned"} \cup TorrentSteps \cup RemoteSteps
<1>1. Free.at = "idle" /\ [at |-> "closes"].at = "closes"
  BY DEF Free
<1> QED BY <1>1 DEF CallTyped, OpenCall, OverCall, TorrentSteps, RemoteSteps

LEMMA ReadFields ==
    ASSUME NEW r, ReadTyped(r)
    PROVE  /\ r.at \in {"none", "spawned", "reading"} => r \in Running
           /\ r.at = "done" /\ ~r.pending => r \in DoneRead
           /\ r.at = "done" /\ r.pending => r = Left
           /\ r.at \in {"none", "spawned", "reading", "done"}
           /\ r.pending \in BOOLEAN
<1>1. Left.at = "done" /\ Left.pending = TRUE
  BY DEF Left
<1> QED BY <1>1 DEF ReadTyped, Running, DoneRead

\* What a call has once it takes what its goroutine, or its body, gave.
TorrentGot(h) == call[h].got \o read[h].data
BodyGot(h, n) == call[h].got \o [i \in 1..n |-> body[h] + i - 1]

LEMMA TakenBytes ==
    ASSUME TypeOK, NEW h \in Handles, HandleInv(h),
           file[h] = "torrent", call[h].at = "reads", read[h].at = "done"
    PROVE  /\ TorrentGot(h) \in Seq(Int) /\ Len(TorrentGot(h)) \in Nat /\ call[h].got \in Seq(Int)
           /\ Len(call[h].got) <= Len(TorrentGot(h)) /\ Len(TorrentGot(h)) <= call[h].want
           /\ call[h].off + Len(TorrentGot(h)) = at[h] /\ call[h].off + Len(TorrentGot(h)) <= Size
           /\ TorrentGot(h) = FileRead!BytesFrom(call[h].off, Len(TorrentGot(h)))
           /\ read[h].err \in {"ok", "eof", "error"} /\ (read[h].err = "eof" => at[h] = Size)
<1> DEFINE s == call[h].got
           off == call[h].off
           want == call[h].want
           more == read[h].data
           err == read[h].err
           next == off + Len(s)
<1>1. call[h] \in OpenCall /\ read[h] \in DoneRead
  <2>1. CallTyped(call[h]) /\ ReadTyped(read[h])
    BY DEF TypeOK
  <2>2. ~read[h].pending
    BY DEF HandleInv, Reader
  <2> QED BY <2>1, <2>2, CallFields, ReadFields DEF TorrentSteps
<1>2. /\ s \in Seq(Int) /\ Len(s) \in Nat /\ off \in Nat /\ want \in Nat
      /\ err \in {"ok", "eof", "error"}
  <2>1. s \in Seq(Int) /\ off \in Offsets /\ want \in Nat
    BY <1>1 DEF OpenCall
  <2>2. err \in {"ok", "eof", "error"}
    BY <1>1 DEF DoneRead
  <2>3. off \in Nat
    BY <2>1, ReadCallsAssumption DEF Offsets
  <2> HIDE DEF s, off, want, err
  <2> QED BY <2>1, <2>2, <2>3, LenProperties
<1>3. s = FileRead!BytesFrom(off, Len(s)) /\ Len(s) < want
  BY DEF HandleInv, Bytes, TorrentSteps
<1>4. at[h] \in Nat /\ at[h] <= Size /\ Size \in Nat
  BY ReadCallsAssumption DEF TypeOK, Offsets
<1>5. \/ more = <<next>> /\ err = "ok" /\ at[h] = next + 1
      \/ more = <<>> /\ err = "eof" /\ at[h] = next /\ next = Size
      \/ more = <<>> /\ err = "error" /\ at[h] = next
  BY DEF HandleInv, Position
<1>6. TorrentGot(h) = s \o more
  BY DEF TorrentGot
<1> HIDE DEF s, off, want, more, err, next
<1>7. next \in Nat /\ next = off + Len(s)
  BY <1>2 DEF next
<1>8. <<next>> = FileRead!BytesFrom(next, 1) /\ <<>> = FileRead!BytesFrom(next, 0)
  BY <1>7, OneByte, NoBytes
<1>9. PICK m \in {0, 1} : more = FileRead!BytesFrom(next, m) /\ at[h] = next + m
  BY <1>5, <1>7, <1>8
<1>10. AreBytes(s \o more, off, Len(s) + m)
  <2>1. AreBytes(s, off, Len(s)) /\ m \in Nat
    BY <1>2, <1>3 DEF AreBytes
  <2>2. AreBytes(more, next, m)
    BY <1>7, <1>9, <2>1, BytesKinds DEF AreBytes
  <2> QED BY <1>2, <1>7, <2>1, <2>2, BytesGrow
<1>11. /\ TorrentGot(h) \in Seq(Int) /\ Len(TorrentGot(h)) = Len(s) + m
       /\ TorrentGot(h) = FileRead!BytesFrom(off, Len(TorrentGot(h)))
  BY <1>6, <1>10 DEF AreBytes
<1>12. /\ Len(TorrentGot(h)) \in Nat /\ Len(s) <= Len(TorrentGot(h)) /\ Len(TorrentGot(h)) <= want
       /\ off + Len(TorrentGot(h)) = at[h] /\ off + Len(TorrentGot(h)) <= Size
  BY <1>2, <1>3, <1>4, <1>7, <1>9, <1>11
<1>13. err = "eof" => at[h] = Size
  BY <1>5
<1> QED BY <1>2, <1>11, <1>12, <1>13 DEF s, off, want, err

LEMMA BodyBytes ==
    ASSUME TypeOK, NEW h \in Handles, HandleInv(h), file[h] = "remote", call[h].at = "takes",
           NEW n \in 0..(Wanted(h) - Len(call[h].got))
    PROVE  /\ BodyGot(h, n) \in Seq(Int) /\ Len(BodyGot(h, n)) \in Nat /\ call[h].got \in Seq(Int)
           /\ Len(call[h].got) <= Len(BodyGot(h, n)) /\ Len(BodyGot(h, n)) <= call[h].want
           /\ call[h].off + Len(BodyGot(h, n)) <= Size
           /\ BodyGot(h, n) = FileRead!BytesFrom(call[h].off, Len(BodyGot(h, n)))
           /\ body[h] + n = call[h].off + Len(BodyGot(h, n))
           /\ pos[h] + n = call[h].off + Len(BodyGot(h, n)) /\ pos[h] + n \in Int
           /\ Wanted(h) \in Nat /\ Wanted(h) <= call[h].want
           /\ Wanted(h) < call[h].want => call[h].off + Wanted(h) = Size
<1> DEFINE s == call[h].got
           off == call[h].off
           want == call[h].want
           more == [i \in 1..n |-> body[h] + i - 1]
           w == Wanted(h)
<1>1. call[h] \in OpenCall
  <2>1. CallTyped(call[h])
    BY DEF TypeOK
  <2> QED BY <2>1, CallFields DEF RemoteSteps
<1>2. s \in Seq(Int) /\ Len(s) \in Nat /\ off \in Nat /\ want \in Nat /\ Size \in Nat
  BY <1>1, LenProperties, ReadCallsAssumption DEF OpenCall, Offsets
<1>3. s = FileRead!BytesFrom(off, Len(s)) /\ Len(s) <= want /\ off < Size
  BY DEF HandleInv, Bytes, RemoteSteps
<1>4. body[h] = off + Len(s) /\ pos[h] = off + Len(s)
  BY DEF HandleInv, Body, Target
<1>5. w = IF want < Size - off THEN want ELSE Size - off
  BY DEF Wanted
<1>6. n \in 0..(w - Len(s))
  OBVIOUS
<1>7. more = FileRead!BytesFrom(off + Len(s), n)
  BY <1>4 DEF FileRead!BytesFrom
<1>8. BodyGot(h, n) = s \o more
  BY DEF BodyGot
<1> HIDE DEF s, off, want, more, w
<1>9. w \in Nat /\ w <= want /\ off + w <= Size /\ (w < want => off + w = Size)
  BY <1>2, <1>3, <1>5
<1>10. n \in Nat /\ Len(s) + n <= w
  BY <1>2, <1>6, <1>9
<1>11. AreBytes(s \o more, off, Len(s) + n)
  <2>1. AreBytes(s, off, Len(s)) /\ off + Len(s) \in Nat
    BY <1>2, <1>3 DEF AreBytes
  <2>2. AreBytes(more, off + Len(s), n)
    BY <1>7, <1>10, <2>1, BytesKinds DEF AreBytes
  <2> QED BY <1>2, <1>10, <2>1, <2>2, BytesGrow
<1>12. /\ BodyGot(h, n) \in Seq(Int) /\ Len(BodyGot(h, n)) = Len(s) + n
       /\ BodyGot(h, n) = FileRead!BytesFrom(off, Len(BodyGot(h, n)))
  BY <1>8, <1>11 DEF AreBytes
<1>13. /\ Len(BodyGot(h, n)) \in Nat /\ Len(s) <= Len(BodyGot(h, n)) /\ Len(BodyGot(h, n)) <= want
       /\ off + Len(BodyGot(h, n)) <= Size
  BY <1>2, <1>9, <1>10, <1>12
<1>14. /\ body[h] + n = off + Len(BodyGot(h, n)) /\ pos[h] + n = off + Len(BodyGot(h, n))
       /\ pos[h] + n \in Int
  BY <1>2, <1>4, <1>10, <1>12
<1> QED BY <1>2, <1>9, <1>12, <1>13, <1>14 DEF s, off, want, w

LEMMA SeekRaises ==
    ASSUME NEW h, NEW off \in Offsets, NEW old, old \subseteq Pieces \cup NextPieces,
           UpdateForSeek(h, old, off)
    PROVE  /\ seek' = [seek EXCEPT ![h] = off]
           /\ raised' \subseteq Pieces \cup NextPieces
<1>1. WindowEnd(off) <= Size
  BY ReadCallsAssumption, TorrentFilesAssumption DEF WindowEnd, Smaller, Offsets
<1>2. PieceRange(off, WindowEnd(off)) \subseteq Pieces
  <2>1. WindowEnd(off) \in Int
    BY ReadCallsAssumption, TorrentFilesAssumption DEF WindowEnd, Smaller, Offsets
  <2> QED BY <1>1, <2>1, ReadCallsAssumption DEF PieceRange, Pieces, Offsets
<1>3. \A range : \A kept \in Downgrades(old, range) : kept \subseteq old
  BY DEF Downgrades
<1> QED BY <1>2, <1>3 DEF UpdateForSeek

LEMMA InitialRaises ==
    ASSUME NEW h, raised \subseteq Pieces \cup NextPieces
    PROVE  EnsureReader(h) \subseteq Pieces \cup NextPieces
<1>1. PieceRange(0, Smaller(Header, Size)) \subseteq Pieces
  BY ReadCallsAssumption, TorrentFilesAssumption DEF PieceRange, Smaller, Pieces
<1>2. PieceRange(IF Size > Footer THEN Size - Footer ELSE 0, Size) \subseteq Pieces
  BY ReadCallsAssumption, TorrentFilesAssumption DEF PieceRange, Pieces
<1> QED BY <1>1, <1>2 DEF EnsureReader, InitialPrioritize

\* Between two calls, what is seen of a handle is its call.
LEMMA SeenIdle ==
    ASSUME NEW h \in Handles, file[h] # "none", CallTyped(call[h])
    PROVE  /\ call[h].at = "idle" => AsRead(h) = FileRead!Idle
           /\ call[h].at = "returned" => AsRead(h) = call[h]
           /\ call[h].at = "closes" => AsRead(h) = FileRead!Closed
           /\ call[h].at \in TorrentSteps \cup RemoteSteps =>
                /\ AsRead(h) = [at |-> "asked", off |-> call[h].off, want |-> call[h].want,
                                got |-> call[h].got]
BY CallFields DEF AsRead, Free, FileRead!Idle, FileRead!Closed, TorrentSteps, RemoteSteps

LEMMA SameKeeps ==
    ASSUME NEW h \in Handles, HandleInv(h), Same(h)
    PROVE  HandleInv(h)' /\ AsRead(h)' = AsRead(h)
<1>1. Kinds(h)'
  BY DEF HandleInv, Same, Kinds
<1>2. Bytes(h)'
  BY DEF HandleInv, Same, Bytes
<1>3. Reader(h)'
  BY DEF HandleInv, Same, Reader
<1>4. Position(h)'
  BY DEF HandleInv, Same, Position
<1>5. Body(h)'
  BY DEF HandleInv, Same, Body, Target
<1>6. AsRead(h)' = AsRead(h)
  BY DEF Same, AsRead
<1> QED BY <1>1, <1>2, <1>3, <1>4, <1>5, <1>6 DEF HandleInv

LEMMA StepIsRead ==
    ASSUME NEW h \in Handles, ReadStep(AsRead(h), AsRead(h)'),
           \A k \in Handles \ {h} : AsRead(k)' = AsRead(k)
    PROVE  [FileRead!Next]_([k \in Handles |-> AsRead(k)])
<1> DEFINE old == [k \in Handles |-> AsRead(k)]
           new == [k \in Handles |-> AsRead(k)']
           v == AsRead(h)
           w == AsRead(h)'
<1>1. new = [old EXCEPT ![h] = w] /\ old[h] = v
  OBVIOUS
<1>2. CASE w = v
  <2>1. new = old
    BY <1>2
  <2> QED BY <2>1
<1>3. CASE v = FileRead!Closed /\ w = FileRead!Idle
  BY <1>1, <1>3 DEF FileRead!Next, FileRead!Open
<1>4. CASE v.at \in {"idle", "returned"} /\ w = FileRead!Closed
  BY <1>1, <1>4 DEF FileRead!Next, FileRead!Close
<1>5. CASE v.at \in {"idle", "returned"} /\ \E ask \in Asks : w = FileRead!Asked(ask[1], ask[2], <<>>)
  <2>1. FileRead!Ask(h)
    BY <1>1, <1>5 DEF FileRead!Ask
  <2> QED BY <2>1 DEF FileRead!Next
<1>6. CASE v.at = "asked" /\ \E got \in FileRead!More(v) : w = [v EXCEPT !.got = got]
  <2>1. FileRead!Give(h)
    BY <1>1, <1>6 DEF FileRead!Give
  <2> QED BY <2>1 DEF FileRead!Next
<1>7. ASSUME v.at = "asked", NEW got \in FileRead!More(v), NEW result \in {"ok", "eof", "error"},
             result = "ok" => Len(got) = v.want,
             result = "eof" => v.off + Len(got) = Size,
             w = FileRead!Returned(v.off, v.want, got, result)
      PROVE  FileRead!Next
  <2>1. new = [old EXCEPT ![h] = FileRead!Returned(old[h].off, old[h].want, got, result)]
    BY <1>1, <1>7
  <2>2. old[h].at = "asked" /\ got \in FileRead!More(old[h])
    BY <1>1, <1>7
  <2> HIDE DEF old, new
  <2>3. FileRead!Return(h)
    BY <1>1, <1>7, <2>1, <2>2 DEF FileRead!Return, old, new
  <2> QED BY <2>3 DEF FileRead!Next
<1> QED BY <1>2, <1>3, <1>4, <1>5, <1>6, <1>7 DEF ReadStep

\* A file opens, on a handle of which nothing runs.
LEMMA OpenTorrentStep ==
    ASSUME TypeOK, QuietInv, NEW h \in Handles, HandleInv(h), UNCHANGED remoteVars, OpenTorrent(h)
    PROVE  Keeps(h)
<1>0. CallTyped(call[h]) /\ ReadTyped(read[h]) /\ DOMAIN call = Handles /\ DOMAIN read = Handles
  BY DEF TypeOK
<1> DEFINE c == call[h]
<1>1. /\ file' = [file EXCEPT ![h] = "torrent"]
      /\ detector' \in [Handles -> {"no", "runs", "over"}]
      /\ UNCHANGED <<call, calls, reader, at, tracked, seek, read, raised, quiet, body, pos>>
  <2>1. detector' \in [Handles -> {"no", "runs", "over"}]
    BY DEF OpenTorrent, TypeOK
  <2> QED BY <1>0, <2>1 DEF OpenTorrent, OpenFile, remoteVars
<1>a. file[h] = "none" /\ read[h].at = "none"
  BY DEF OpenTorrent, OpenFile
<1>b. call[h] = Free /\ read[h] = NoRead
  BY <1>a DEF HandleInv, Kinds, Reader
<1>4. \A k \in Handles \ {h} : Same(k)
  BY <1>1 DEF Same, TypeOK
<1>5. /\ file'[h] = "torrent"
      /\ call'[h] = call[h]
      /\ reader'[h] = reader[h]
      /\ at'[h] = at[h]
      /\ tracked'[h] = tracked[h]
      /\ read'[h] = read[h]
      /\ body'[h] = body[h]
      /\ pos'[h] = pos[h]
  BY <1>1 DEF TypeOK
<1>6. TypeOK'
  <2>1. \A k \in Handles : CallTyped(call'[k]) /\ ReadTyped(read'[k])
    BY <1>4, <1>5 DEF TypeOK, Same
  <2>2. DOMAIN call' = Handles /\ DOMAIN read' = Handles /\ DOMAIN body' = Handles
    BY <1>1 DEF TypeOK
  <2>3. /\ file' \in [Handles -> {"none", "torrent", "remote"}] /\ reader' \in [Handles -> BOOLEAN]
        /\ at' \in [Handles -> Offsets] /\ tracked' \in [Handles -> Int] /\ seek' \in [Handles -> Int]
        /\ pos' \in [Handles -> Int]
    BY <1>1, <1>b DEF TypeOK, Offsets
  <2>4. /\ detector' \in [Handles -> {"no", "runs", "over"}] /\ quiet' \in BOOLEAN
        /\ raised' \subseteq Pieces \cup NextPieces /\ calls' \in 0..MaxCalls
    BY <1>1, <1>b DEF TypeOK
  <2> QED BY <2>1, <2>2, <2>3, <2>4 DEF TypeOK
<1>7. Kinds(h)'
  BY <1>b, <1>5, CallFields, ReadFields
     DEF HandleInv, Kinds, Reader, TorrentSteps, RemoteSteps, NoRead, Free
<1>8. Bytes(h)'
  BY <1>b, <1>5, CallFields, ReadFields DEF HandleInv, Kinds, Reader, Bytes, Offsets,
     TorrentSteps, RemoteSteps, NoRead, Free
<1>9. Reader(h)'
  BY <1>b, <1>5, CallFields, ReadFields
     DEF HandleInv, Kinds, Reader, TorrentSteps, RemoteSteps, NoRead, Free
<1>10. Position(h)'
  BY <1>b, <1>5, CallFields, ReadFields DEF HandleInv, Kinds, Reader, Position, TorrentSteps,
     RemoteSteps, NoRead, Free
<1>11. Body(h)'
  BY <1>a, <1>b, <1>5, CallFields, ReadFields DEF HandleInv, Kinds, Reader, Body, Target,
     TorrentSteps, RemoteSteps, NoRead, Free
<1>12. QuietInv'
  BY <1>1, <1>b, <1>4, <1>5 DEF QuietInv, Same
<1>13. ReadStep(AsRead(h), AsRead(h)')
  <2>1. AsRead(h) = FileRead!Closed
    BY <1>a DEF AsRead, FileRead!Closed
  <2>2. AsRead(h)' = FileRead!Idle
    BY <1>b, <1>5 DEF AsRead, Free, FileRead!Idle
  <2> QED BY <2>1, <2>2 DEF ReadStep
<1> QED BY <1>4, <1>6, <1>7, <1>8, <1>9, <1>10, <1>11, <1>12, <1>13 DEF Keeps, HandleInv

LEMMA OpenRemoteStep ==
    ASSUME TypeOK, QuietInv, NEW h \in Handles, HandleInv(h), UNCHANGED torrentVars, OpenRemote(h)
    PROVE  Keeps(h)
<1>0. CallTyped(call[h]) /\ ReadTyped(read[h]) /\ DOMAIN call = Handles /\ DOMAIN read = Handles
  BY DEF TypeOK
<1> DEFINE c == call[h]
<1>1. /\ file' = [file EXCEPT ![h] = "remote"]
      /\ UNCHANGED <<call, calls, reader, at, tracked, seek, read, detector, raised, quiet, body, pos>>
  BY <1>0 DEF OpenRemote, OpenFile, torrentVars, perHandle, remoteVars
<1>a. file[h] = "none"
  BY DEF OpenRemote, OpenFile
<1>b. call[h] = Free
  BY <1>a DEF HandleInv, Kinds
<1>4. \A k \in Handles \ {h} : Same(k)
  BY <1>1 DEF Same, TypeOK
<1>5. /\ file'[h] = "remote"
      /\ call'[h] = call[h]
      /\ reader'[h] = reader[h]
      /\ at'[h] = at[h]
      /\ tracked'[h] = tracked[h]
      /\ read'[h] = read[h]
      /\ body'[h] = body[h]
      /\ pos'[h] = pos[h]
  BY <1>1 DEF TypeOK
<1>6. TypeOK'
  <2>1. \A k \in Handles : CallTyped(call'[k]) /\ ReadTyped(read'[k])
    BY <1>4, <1>5 DEF TypeOK, Same
  <2>2. DOMAIN call' = Handles /\ DOMAIN read' = Handles /\ DOMAIN body' = Handles
    BY <1>1 DEF TypeOK
  <2>3. /\ file' \in [Handles -> {"none", "torrent", "remote"}] /\ reader' \in [Handles -> BOOLEAN]
        /\ at' \in [Handles -> Offsets] /\ tracked' \in [Handles -> Int] /\ seek' \in [Handles -> Int]
        /\ pos' \in [Handles -> Int]
    BY <1>1, <1>b DEF TypeOK, Offsets
  <2>4. /\ detector' \in [Handles -> {"no", "runs", "over"}] /\ quiet' \in BOOLEAN
        /\ raised' \subseteq Pieces \cup NextPieces /\ calls' \in 0..MaxCalls
    BY <1>1, <1>b DEF TypeOK
  <2> QED BY <2>1, <2>2, <2>3, <2>4 DEF TypeOK
<1>7. Kinds(h)'
  BY <1>b, <1>5, CallFields, ReadFields
     DEF HandleInv, Kinds, Reader, TorrentSteps, RemoteSteps, NoRead, Free
<1>8. Bytes(h)'
  BY <1>b, <1>5, CallFields, ReadFields DEF HandleInv, Kinds, Reader, Bytes, Offsets,
     TorrentSteps, RemoteSteps, NoRead, Free
<1>9. Reader(h)'
  BY <1>a, <1>b, <1>5, CallFields, ReadFields
     DEF HandleInv, Kinds, Reader, TorrentSteps, RemoteSteps, NoRead, Free
<1>10. Position(h)'
  BY <1>b, <1>5, CallFields, ReadFields DEF HandleInv, Kinds, Reader, Position, TorrentSteps,
     RemoteSteps, NoRead, Free
<1>11. Body(h)'
  BY <1>b, <1>5, CallFields, ReadFields DEF HandleInv, Kinds, Reader, Body, Target, TorrentSteps,
     RemoteSteps, NoRead, Free
<1>12. QuietInv'
  BY <1>1, <1>b, <1>4, <1>5 DEF QuietInv, Same
<1>13. ReadStep(AsRead(h), AsRead(h)')
  <2>1. AsRead(h) = FileRead!Closed
    BY <1>a DEF AsRead, FileRead!Closed
  <2>2. AsRead(h)' = FileRead!Idle
    BY <1>b, <1>5 DEF AsRead, Free, FileRead!Idle
  <2> QED BY <2>1, <2>2 DEF ReadStep
<1> QED BY <1>4, <1>6, <1>7, <1>8, <1>9, <1>10, <1>11, <1>12, <1>13 DEF Keeps, HandleInv

\* A read begins, on top of one that is left behind or of none.
LEMMA TorrentReadAtStep ==
    ASSUME TypeOK, QuietInv, NEW h \in Handles, HandleInv(h), UNCHANGED remoteVars,
           NEW off, NEW want, <<off, want>> \in Asks, TorrentReadAt(h, off, want)
    PROVE  Keeps(h)
<1>0. CallTyped(call[h]) /\ ReadTyped(read[h]) /\ DOMAIN call = Handles /\ DOMAIN read = Handles
  BY DEF TypeOK
<1> DEFINE c == call[h]
<1>a. /\ off \in Offsets /\ want \in Nat \ {0}
      /\ file[h] = "torrent" /\ c.at \in {"idle", "returned"} /\ calls < MaxCalls
  BY ReadCallsAssumption DEF TorrentReadAt, Ready, Begins, Offsets
<1>c. calls + 1 \in 0..MaxCalls
  BY <1>a, ReadCallsAssumption DEF TypeOK
<1>b. seek' = [seek EXCEPT ![h] = off] /\ raised' \subseteq Pieces \cup NextPieces
  <2>1. UpdateForSeek(h, EnsureReader(h), off)
    BY DEF TorrentReadAt
  <2>2. raised \subseteq Pieces \cup NextPieces
    BY DEF TypeOK
  <2> QED BY <1>a, <2>1, <2>2, InitialRaises, SeekRaises
<1> DEFINE l == [at |-> IF read[h].pending THEN "drains" ELSE "seeks", off |-> off, want |-> want,
                 got |-> <<>>, again |-> FALSE]
<1>1. /\ calls' = calls + 1
      /\ reader' = [reader EXCEPT ![h] = TRUE]
      /\ seek' = [seek EXCEPT ![h] = off]
      /\ quiet' = FALSE
      /\ call' = [call EXCEPT ![h] = l]
      /\ raised' \subseteq Pieces \cup NextPieces
      /\ UNCHANGED <<file, at, tracked, read, detector, body, pos>>
  BY <1>b DEF TorrentReadAt, Begins, torrentVars, perHandle, remoteVars
<1>2. /\ CallTyped(l)
      /\ l.at = (IF read[h].pending THEN "drains" ELSE "seeks")
      /\ l.off = off /\ l.want = want /\ l.got = <<>> /\ l.again = FALSE
      /\ l.got = FileRead!BytesFrom(off, Len(l.got)) /\ Len(l.got) = 0
  <2>1. <<>> \in Seq(Int) /\ Len(<<>>) = 0
    OBVIOUS
  <2>2. <<>> = FileRead!BytesFrom(off, 0)
    BY <1>a, NoBytes DEF Offsets
  <2> QED BY <1>a, <2>2 DEF CallTyped, OpenCall, TorrentSteps, RemoteSteps
<1> HIDE DEF l
<1>4. \A k \in Handles \ {h} : Same(k)
  BY <1>1 DEF Same, TypeOK
<1>5. /\ file'[h] = file[h]
      /\ call'[h] = l
      /\ reader'[h] = TRUE
      /\ at'[h] = at[h]
      /\ tracked'[h] = tracked[h]
      /\ read'[h] = read[h]
      /\ body'[h] = body[h]
      /\ pos'[h] = pos[h]
  BY <1>1 DEF TypeOK
<1>6. TypeOK'
  <2>1. \A k \in Handles : CallTyped(call'[k]) /\ ReadTyped(read'[k])
    BY <1>2, <1>4, <1>5 DEF TypeOK, Same
  <2>2. DOMAIN call' = Handles /\ DOMAIN read' = Handles /\ DOMAIN body' = Handles
    BY <1>1 DEF TypeOK
  <2>3. /\ file' \in [Handles -> {"none", "torrent", "remote"}] /\ reader' \in [Handles -> BOOLEAN]
        /\ at' \in [Handles -> Offsets] /\ tracked' \in [Handles -> Int] /\ seek' \in [Handles -> Int]
        /\ pos' \in [Handles -> Int]
    BY <1>1, <1>a, <1>c, <1>b DEF TypeOK, Offsets
  <2>4. /\ detector' \in [Handles -> {"no", "runs", "over"}] /\ quiet' \in BOOLEAN
        /\ raised' \subseteq Pieces \cup NextPieces /\ calls' \in 0..MaxCalls
    BY <1>1, <1>a, <1>c, <1>b DEF TypeOK
  <2> QED BY <2>1, <2>2, <2>3, <2>4 DEF TypeOK
<1>7. Kinds(h)'
  BY <1>2, <1>a, <1>c, <1>b, <1>5, CallFields, ReadFields
     DEF HandleInv, Kinds, Reader, TorrentSteps, RemoteSteps, NoRead, Free
<1>8. Bytes(h)'
  BY <1>2, <1>a, <1>c, <1>b, <1>5, CallFields, ReadFields DEF HandleInv, Kinds, Reader, Bytes,
     Offsets, TorrentSteps, RemoteSteps, NoRead, Free
<1>9. Reader(h)'
  BY <1>2, <1>a, <1>c, <1>b, <1>5, CallFields, ReadFields
     DEF HandleInv, Kinds, Reader, TorrentSteps, RemoteSteps, NoRead, Free
<1>10. Position(h)'
  BY <1>2, <1>a, <1>c, <1>b, <1>5, CallFields, ReadFields DEF HandleInv, Kinds, Reader, Position,
     TorrentSteps, RemoteSteps, NoRead, Free
<1>11. Body(h)'
  BY <1>a, <1>c, <1>b, <1>5, CallFields, ReadFields DEF HandleInv, Kinds, Reader, Body, Target,
     TorrentSteps, RemoteSteps, NoRead, Free
<1>12. QuietInv'
  BY <1>1, <1>a, <1>c, <1>b, <1>4, <1>5 DEF QuietInv, Same
<1>13. ReadStep(AsRead(h), AsRead(h)')
  <2>1. AsRead(h) = c
    BY <1>a, <1>c, <1>b, <1>5 DEF AsRead
  <2>2. AsRead(h)' = FileRead!Asked(off, want, <<>>)
    BY <1>2, <1>a, <1>c, <1>b, <1>5 DEF AsRead, FileRead!Asked
  <2>3. <<off, want>>[1] = off /\ <<off, want>>[2] = want
    OBVIOUS
  <2>4. \E ask \in Asks : AsRead(h)' = FileRead!Asked(ask[1], ask[2], <<>>)
    BY <2>2, <2>3
  <2> QED BY <1>a, <2>1, <2>4 DEF ReadStep
<1> QED BY <1>4, <1>6, <1>7, <1>8, <1>9, <1>10, <1>11, <1>12, <1>13 DEF Keeps, HandleInv

\* What a timeout left behind is waited for.
LEMMA DrainStep ==
    ASSUME TypeOK, QuietInv, NEW h \in Handles, HandleInv(h), UNCHANGED remoteVars, Drain(h)
    PROVE  Keeps(h)
<1>0. CallTyped(call[h]) /\ ReadTyped(read[h]) /\ DOMAIN call = Handles /\ DOMAIN read = Handles
  BY DEF TypeOK
<1> DEFINE c == call[h]
<1>a. file[h] = "torrent" /\ c.at = "drains"
  BY DEF Drain
<1>o. c \in OpenCall
  BY <1>0, <1>a, CallFields DEF TorrentSteps, RemoteSteps
<1> DEFINE l == [c EXCEPT !.at = "seeks", !.again = TRUE]
           r == NoRead
<1>1. /\ call' = [call EXCEPT ![h] = l]
      /\ read' = [read EXCEPT ![h] = r]
      /\ UNCHANGED <<file, calls, reader, at, tracked, seek, detector, raised, quiet, body, pos>>
  BY <1>0 DEF Drain, remoteVars
<1>2. /\ CallTyped(l)
      /\ l.at = "seeks" /\ l.off = c.off /\ l.want = c.want /\ l.got = c.got /\ l.again = TRUE
  BY <1>o DEF CallTyped, OpenCall, TorrentSteps, RemoteSteps
<1>3. /\ ReadTyped(r) /\ r = NoRead
  BY DEF ReadTyped, Running, NoRead
<1> HIDE DEF l, r
<1>4. \A k \in Handles \ {h} : Same(k)
  BY <1>1 DEF Same, TypeOK
<1>5. /\ file'[h] = file[h]
      /\ call'[h] = l
      /\ reader'[h] = reader[h]
      /\ at'[h] = at[h]
      /\ tracked'[h] = tracked[h]
      /\ read'[h] = r
      /\ body'[h] = body[h]
      /\ pos'[h] = pos[h]
  BY <1>1 DEF TypeOK
<1>6. TypeOK'
  <2>1. \A k \in Handles : CallTyped(call'[k]) /\ ReadTyped(read'[k])
    BY <1>2, <1>3, <1>4, <1>5 DEF TypeOK, Same
  <2>2. DOMAIN call' = Handles /\ DOMAIN read' = Handles /\ DOMAIN body' = Handles
    BY <1>1 DEF TypeOK
  <2>3. /\ file' \in [Handles -> {"none", "torrent", "remote"}] /\ reader' \in [Handles -> BOOLEAN]
        /\ at' \in [Handles -> Offsets] /\ tracked' \in [Handles -> Int] /\ seek' \in [Handles -> Int]
        /\ pos' \in [Handles -> Int]
    BY <1>1, <1>3, <1>a, <1>o DEF TypeOK, Offsets
  <2>4. /\ detector' \in [Handles -> {"no", "runs", "over"}] /\ quiet' \in BOOLEAN
        /\ raised' \subseteq Pieces \cup NextPieces /\ calls' \in 0..MaxCalls
    BY <1>1, <1>3, <1>a, <1>o DEF TypeOK
  <2> QED BY <2>1, <2>2, <2>3, <2>4 DEF TypeOK
<1>7. Kinds(h)'
  BY <1>2, <1>3, <1>a, <1>o, <1>5, CallFields, ReadFields
     DEF HandleInv, Kinds, Reader, TorrentSteps, RemoteSteps, NoRead, Free
<1>8. Bytes(h)'
  BY <1>2, <1>3, <1>a, <1>o, <1>5, CallFields, ReadFields DEF HandleInv, Kinds, Reader, Bytes,
     Offsets, TorrentSteps, RemoteSteps, NoRead, Free
<1>9. Reader(h)'
  BY <1>2, <1>3, <1>a, <1>o, <1>5, CallFields, ReadFields
     DEF HandleInv, Kinds, Reader, TorrentSteps, RemoteSteps, NoRead, Free
<1>10. Position(h)'
  BY <1>2, <1>3, <1>a, <1>o, <1>5, CallFields, ReadFields DEF HandleInv, Kinds, Reader, Position,
     TorrentSteps, RemoteSteps, NoRead, Free
<1>11. Body(h)'
  BY <1>3, <1>a, <1>o, <1>5, CallFields, ReadFields DEF HandleInv, Kinds, Reader, Body, Target,
     TorrentSteps, RemoteSteps, NoRead, Free
<1>12. QuietInv'
  BY <1>1, <1>3, <1>a, <1>o, <1>4, <1>5 DEF QuietInv, Same
<1>13. ReadStep(AsRead(h), AsRead(h)')
  <2>1. AsRead(h)' = AsRead(h)
    BY <1>2, <1>3, <1>a, <1>o, <1>5, CallFields
       DEF AsRead, HandleInv, Kinds, TorrentSteps, RemoteSteps, Free
  <2> QED BY <2>1 DEF ReadStep
<1> QED BY <1>4, <1>6, <1>7, <1>8, <1>9, <1>10, <1>11, <1>12, <1>13 DEF Keeps, HandleInv

LEMMA DrainTimesOutStep ==
    ASSUME TypeOK, QuietInv, NEW h \in Handles, HandleInv(h), UNCHANGED remoteVars,
           DrainTimesOut(h)
    PROVE  Keeps(h)
<1>0. CallTyped(call[h]) /\ ReadTyped(read[h]) /\ DOMAIN call = Handles /\ DOMAIN read = Handles
  BY DEF TypeOK
<1> DEFINE c == call[h]
<1>a. file[h] = "torrent" /\ c.at = "drains"
  BY DEF DrainTimesOut
<1>o. c \in OpenCall
  BY <1>0, <1>a, CallFields DEF TorrentSteps, RemoteSteps
<1> DEFINE l == [at |-> "returned", off |-> c.off, want |-> c.want, got |-> <<>>,
                result |-> "error"]
<1>1. /\ call' = [call EXCEPT ![h] = l]
      /\ UNCHANGED <<file, calls, reader, at, tracked, seek, read, detector, raised, quiet, body, pos>>
  BY <1>0 DEF DrainTimesOut, Returns, torrentVars, perHandle, remoteVars
<1>2. /\ CallTyped(l)
      /\ l.at = "returned" /\ l.off = c.off /\ l.want = c.want /\ l.got = <<>> /\ l.result = "error"
      /\ l = FileRead!Returned(c.off, c.want, <<>>, l.result)
      /\ l.got = FileRead!BytesFrom(c.off, Len(l.got)) /\ Len(l.got) = 0
  <2>1. <<>> \in Seq(Int) /\ Len(<<>>) = 0
    OBVIOUS
  <2>2. <<>> = FileRead!BytesFrom(c.off, 0)
    BY <1>o, NoBytes DEF Offsets, OpenCall
  <2> QED BY <1>o, <2>2 DEF FileRead!Returned, CallTyped, OpenCall, OverCall
<1> HIDE DEF l
<1>4. \A k \in Handles \ {h} : Same(k)
  BY <1>1 DEF Same, TypeOK
<1>5. /\ file'[h] = file[h]
      /\ call'[h] = l
      /\ reader'[h] = reader[h]
      /\ at'[h] = at[h]
      /\ tracked'[h] = tracked[h]
      /\ read'[h] = read[h]
      /\ body'[h] = body[h]
      /\ pos'[h] = pos[h]
  BY <1>1 DEF TypeOK
<1>6. TypeOK'
  <2>1. \A k \in Handles : CallTyped(call'[k]) /\ ReadTyped(read'[k])
    BY <1>2, <1>4, <1>5 DEF TypeOK, Same
  <2>2. DOMAIN call' = Handles /\ DOMAIN read' = Handles /\ DOMAIN body' = Handles
    BY <1>1 DEF TypeOK
  <2>3. /\ file' \in [Handles -> {"none", "torrent", "remote"}] /\ reader' \in [Handles -> BOOLEAN]
        /\ at' \in [Handles -> Offsets] /\ tracked' \in [Handles -> Int] /\ seek' \in [Handles -> Int]
        /\ pos' \in [Handles -> Int]
    BY <1>1, <1>a, <1>o DEF TypeOK, Offsets
  <2>4. /\ detector' \in [Handles -> {"no", "runs", "over"}] /\ quiet' \in BOOLEAN
        /\ raised' \subseteq Pieces \cup NextPieces /\ calls' \in 0..MaxCalls
    BY <1>1, <1>a, <1>o DEF TypeOK
  <2> QED BY <2>1, <2>2, <2>3, <2>4 DEF TypeOK
<1>7. Kinds(h)'
  BY <1>2, <1>a, <1>o, <1>5, CallFields, ReadFields
     DEF HandleInv, Kinds, Reader, TorrentSteps, RemoteSteps, NoRead, Free
<1>8. Bytes(h)'
  BY <1>2, <1>a, <1>o, <1>5 DEF OpenCall, Bytes, Offsets, TorrentSteps, RemoteSteps
<1>9. Reader(h)'
  BY <1>2, <1>a, <1>o, <1>5, CallFields, ReadFields
     DEF HandleInv, Kinds, Reader, TorrentSteps, RemoteSteps, NoRead, Free
<1>10. Position(h)'
  BY <1>2, <1>a, <1>o, <1>5, CallFields, ReadFields DEF HandleInv, Kinds, Reader, Position,
     TorrentSteps, RemoteSteps, NoRead, Free
<1>11. Body(h)'
  BY <1>a, <1>o, <1>5, CallFields, ReadFields DEF HandleInv, Kinds, Reader, Body, Target,
     TorrentSteps, RemoteSteps, NoRead, Free
<1>12. QuietInv'
  BY <1>1, <1>a, <1>o, <1>4, <1>5 DEF QuietInv, Same
<1>13. ReadStep(AsRead(h), AsRead(h)')
  <2>1. AsRead(h) = [at |-> "asked", off |-> c.off, want |-> c.want, got |-> c.got]
    BY <1>a, <1>o, <1>5 DEF AsRead, TorrentSteps, RemoteSteps
  <2>2. AsRead(h)' = FileRead!Returned(c.off, c.want, <<>>, l.result)
    BY <1>2, <1>a, <1>o, <1>5 DEF AsRead
  <2>3. <<>> \in FileRead!More(AsRead(h))
    <3>1. c.got = <<>> /\ c.off \in Nat /\ c.want \in Nat
      BY <1>a, <1>o DEF HandleInv, Bytes, OpenCall, Offsets
    <3>2. Len(<<>>) = 0 /\ FileRead!BytesFrom(c.off, 0) = <<>>
      BY <1>2
    <3>3. Len(c.got) = 0 /\ Len(c.got) <= 0 /\ 0 <= c.want /\ 0 \in Nat /\ c.got \in Seq(Int)
      BY <3>1, <3>2
    <3>4. FileRead!BytesFrom(c.off, 0) \in FileRead!More(AsRead(h))
      BY <2>1, <3>1, <3>3, MoreBytes
    <3> QED BY <3>2, <3>4
  <2>4. /\ l.result \in {"ok", "eof", "error"}
        /\ l.result = "ok" => Len(<<>>) = c.want
        /\ l.result = "eof" => c.off + Len(<<>>) = Size
    BY <1>2, <1>a, <1>o, <1>5
  <2> DEFINE v == AsRead(h)
  <2>5. v.at = "asked" /\ v.off = c.off /\ v.want = c.want
    BY <2>1
  <2> QED BY <2>2, <2>3, <2>4, <2>5 DEF ReadStep
<1> QED BY <1>4, <1>6, <1>7, <1>8, <1>9, <1>10, <1>11, <1>12, <1>13 DEF Keeps, HandleInv

LEMMA SeekStep ==
    ASSUME TypeOK, QuietInv, NEW h \in Handles, HandleInv(h), UNCHANGED remoteVars, Seek(h)
    PROVE  Keeps(h)
<1>0. CallTyped(call[h]) /\ ReadTyped(read[h]) /\ DOMAIN call = Handles /\ DOMAIN read = Handles
  BY DEF TypeOK
<1> DEFINE c == call[h]
<1>a. file[h] = "torrent" /\ c.at = "seeks"
  BY DEF Seek
<1>o. c \in OpenCall
  BY <1>0, <1>a, CallFields DEF TorrentSteps, RemoteSteps
<1>b. at' = [at EXCEPT ![h] = c.off]
  <2>1. CASE c.off = tracked[h] /\ ~c.again
    <3>1. at[h] = c.off /\ at' = at
      BY <2>1 DEF HandleInv, Position, Seek
    <3> QED BY <3>1 DEF TypeOK
  <2>2. CASE ~(c.off = tracked[h] /\ ~c.again)
    BY <2>2 DEF Seek
  <2> QED BY <2>1, <2>2
<1>c. seek' \in [Handles -> Int] /\ raised' \subseteq Pieces \cup NextPieces
  <2>1. c.off \in Offsets /\ c.off \in Int /\ raised \subseteq Pieces \cup NextPieces
    BY <1>o DEF OpenCall, TypeOK, Offsets
  <2>2. UNCHANGED <<seek, raised>> \/ UpdateForSeek(h, raised, c.off)
    BY DEF Seek
  <2> QED BY <2>1, <2>2, SeekRaises DEF TypeOK
<1>d. ~quiet
  BY <1>a DEF HandleInv, Reader, QuietInv, TorrentSteps
<1>e. Len(<<>>) = 0 /\ c.got = <<>> /\ c.off \in Nat /\ c.want \in Nat \ {0} /\ c.off \in Offsets
  BY <1>a, <1>o DEF HandleInv, Bytes, OpenCall, Offsets
<1> DEFINE l == [c EXCEPT !.at = "reads", !.again = FALSE]
<1>1. /\ at' = [at EXCEPT ![h] = c.off]
      /\ call' = [call EXCEPT ![h] = l]
      /\ seek' \in [Handles -> Int]
      /\ raised' \subseteq Pieces \cup NextPieces
      /\ UNCHANGED <<file, calls, reader, tracked, read, detector, quiet, body, pos>>
  BY <1>b, <1>c DEF Seek, torrentVars, perHandle, remoteVars
<1>2. /\ CallTyped(l)
      /\ l.at = "reads" /\ l.off = c.off /\ l.want = c.want /\ l.got = c.got /\ l.again = FALSE
  BY <1>o DEF CallTyped, OpenCall, TorrentSteps, RemoteSteps
<1> HIDE DEF l
<1>4. \A k \in Handles \ {h} : Same(k)
  BY <1>1 DEF Same, TypeOK
<1>5. /\ file'[h] = file[h]
      /\ call'[h] = l
      /\ reader'[h] = reader[h]
      /\ at'[h] = c.off
      /\ tracked'[h] = tracked[h]
      /\ read'[h] = read[h]
      /\ body'[h] = body[h]
      /\ pos'[h] = pos[h]
  BY <1>1 DEF TypeOK
<1>6. TypeOK'
  <2>1. \A k \in Handles : CallTyped(call'[k]) /\ ReadTyped(read'[k])
    BY <1>2, <1>4, <1>5 DEF TypeOK, Same
  <2>2. DOMAIN call' = Handles /\ DOMAIN read' = Handles /\ DOMAIN body' = Handles
    BY <1>1 DEF TypeOK
  <2>3. /\ file' \in [Handles -> {"none", "torrent", "remote"}] /\ reader' \in [Handles -> BOOLEAN]
        /\ at' \in [Handles -> Offsets] /\ tracked' \in [Handles -> Int] /\ seek' \in [Handles -> Int]
        /\ pos' \in [Handles -> Int]
    BY <1>1, <1>a, <1>o, <1>b, <1>c, <1>d, <1>e DEF TypeOK, Offsets
  <2>4. /\ detector' \in [Handles -> {"no", "runs", "over"}] /\ quiet' \in BOOLEAN
        /\ raised' \subseteq Pieces \cup NextPieces /\ calls' \in 0..MaxCalls
    BY <1>1, <1>a, <1>o, <1>b, <1>c, <1>d, <1>e DEF TypeOK
  <2> QED BY <2>1, <2>2, <2>3, <2>4 DEF TypeOK
<1>7. Kinds(h)'
  BY <1>2, <1>a, <1>o, <1>b, <1>c, <1>d, <1>e, <1>5, CallFields, ReadFields
     DEF HandleInv, Kinds, Reader, TorrentSteps, RemoteSteps, NoRead, Free
<1>8. Bytes(h)'
  BY <1>2, <1>a, <1>o, <1>b, <1>c, <1>d, <1>e, <1>5, CallFields, ReadFields DEF HandleInv, Kinds,
     Reader, Bytes, Offsets, TorrentSteps, RemoteSteps, NoRead, Free
<1>9. Reader(h)'
  BY <1>2, <1>a, <1>o, <1>b, <1>c, <1>d, <1>e, <1>5, CallFields, ReadFields
     DEF HandleInv, Kinds, Reader, TorrentSteps, RemoteSteps, NoRead, Free
<1>10. Position(h)'
  BY <1>2, <1>a, <1>o, <1>b, <1>c, <1>d, <1>e, <1>5, CallFields, ReadFields DEF HandleInv, Kinds,
     Reader, Position, TorrentSteps, RemoteSteps, NoRead, Free
<1>11. Body(h)'
  BY <1>a, <1>o, <1>b, <1>c, <1>d, <1>e, <1>5, CallFields, ReadFields DEF HandleInv, Kinds,
     Reader, Body, Target, TorrentSteps, RemoteSteps, NoRead, Free
<1>12. QuietInv'
  BY <1>1, <1>a, <1>o, <1>b, <1>c, <1>d, <1>e, <1>4, <1>5 DEF QuietInv, Same
<1>13. ReadStep(AsRead(h), AsRead(h)')
  <2>1. AsRead(h)' = AsRead(h)
    BY <1>2, <1>a, <1>o, <1>b, <1>c, <1>d, <1>e, <1>5, CallFields
       DEF AsRead, HandleInv, Kinds, TorrentSteps, RemoteSteps, Free
  <2> QED BY <2>1 DEF ReadStep
<1> QED BY <1>4, <1>6, <1>7, <1>8, <1>9, <1>10, <1>11, <1>12, <1>13 DEF Keeps, HandleInv

LEMMA StartReadStep ==
    ASSUME TypeOK, QuietInv, NEW h \in Handles, HandleInv(h), UNCHANGED remoteVars, StartRead(h)
    PROVE  Keeps(h)
<1>0. CallTyped(call[h]) /\ ReadTyped(read[h]) /\ DOMAIN call = Handles /\ DOMAIN read = Handles
  BY DEF TypeOK
<1> DEFINE c == call[h]
<1>a. file[h] = "torrent" /\ c.at = "reads" /\ read[h].at = "none"
  BY DEF StartRead
<1>o. c \in OpenCall
  BY <1>0, <1>a, CallFields DEF TorrentSteps, RemoteSteps
<1> DEFINE r == [at |-> "spawned", pending |-> FALSE]
<1>1. /\ read' = [read EXCEPT ![h] = r]
      /\ UNCHANGED <<file, call, calls, reader, at, tracked, seek, detector, raised, quiet, body, pos>>
  BY <1>0 DEF StartRead, remoteVars
<1>3. /\ ReadTyped(r) /\ r.at = "spawned" /\ r.pending = FALSE
  BY DEF ReadTyped, Running
<1> HIDE DEF r
<1>4. \A k \in Handles \ {h} : Same(k)
  BY <1>1 DEF Same, TypeOK
<1>5. /\ file'[h] = file[h]
      /\ call'[h] = call[h]
      /\ reader'[h] = reader[h]
      /\ at'[h] = at[h]
      /\ tracked'[h] = tracked[h]
      /\ read'[h] = r
      /\ body'[h] = body[h]
      /\ pos'[h] = pos[h]
  BY <1>1 DEF TypeOK
<1>6. TypeOK'
  <2>1. \A k \in Handles : CallTyped(call'[k]) /\ ReadTyped(read'[k])
    BY <1>3, <1>4, <1>5 DEF TypeOK, Same
  <2>2. DOMAIN call' = Handles /\ DOMAIN read' = Handles /\ DOMAIN body' = Handles
    BY <1>1 DEF TypeOK
  <2>3. /\ file' \in [Handles -> {"none", "torrent", "remote"}] /\ reader' \in [Handles -> BOOLEAN]
        /\ at' \in [Handles -> Offsets] /\ tracked' \in [Handles -> Int] /\ seek' \in [Handles -> Int]
        /\ pos' \in [Handles -> Int]
    BY <1>1, <1>a, <1>o DEF TypeOK, Offsets
  <2>4. /\ detector' \in [Handles -> {"no", "runs", "over"}] /\ quiet' \in BOOLEAN
        /\ raised' \subseteq Pieces \cup NextPieces /\ calls' \in 0..MaxCalls
    BY <1>1, <1>a, <1>o DEF TypeOK
  <2> QED BY <2>1, <2>2, <2>3, <2>4 DEF TypeOK
<1>7. Kinds(h)'
  BY <1>a, <1>o, <1>5, CallFields, ReadFields
     DEF HandleInv, Kinds, Reader, TorrentSteps, RemoteSteps, NoRead, Free
<1>8. Bytes(h)'
  BY <1>a, <1>o, <1>5, CallFields, ReadFields DEF HandleInv, Kinds, Reader, Bytes, Offsets,
     TorrentSteps, RemoteSteps, NoRead, Free
<1>9. Reader(h)'
  BY <1>3, <1>a, <1>o, <1>5, CallFields, ReadFields
     DEF HandleInv, Kinds, Reader, TorrentSteps, RemoteSteps, NoRead, Free
<1>10. Position(h)'
  BY <1>3, <1>a, <1>o, <1>5, CallFields, ReadFields DEF HandleInv, Kinds, Reader, Position,
     TorrentSteps, RemoteSteps, NoRead, Free
<1>11. Body(h)'
  BY <1>a, <1>o, <1>5, CallFields, ReadFields DEF HandleInv, Kinds, Reader, Body, Target,
     TorrentSteps, RemoteSteps, NoRead, Free
<1>12. QuietInv'
  BY <1>1, <1>a, <1>o, <1>4, <1>5 DEF QuietInv, Same
<1>13. ReadStep(AsRead(h), AsRead(h)')
  <2>1. AsRead(h)' = AsRead(h)
    BY <1>a, <1>o, <1>5, CallFields DEF AsRead, HandleInv, Kinds, TorrentSteps, RemoteSteps, Free
  <2> QED BY <2>1 DEF ReadStep
<1> QED BY <1>4, <1>6, <1>7, <1>8, <1>9, <1>10, <1>11, <1>12, <1>13 DEF Keeps, HandleInv

\* A call takes what its goroutine read, and ends,
LEMMA TakeResultStep ==
    ASSUME TypeOK, QuietInv, NEW h \in Handles, HandleInv(h), UNCHANGED remoteVars,
           Len(TorrentGot(h)) >= call[h].want \/ read[h].err # "ok", TakeResult(h)
    PROVE  Keeps(h)
<1>0. CallTyped(call[h]) /\ ReadTyped(read[h]) /\ DOMAIN call = Handles /\ DOMAIN read = Handles
  BY DEF TypeOK
<1> DEFINE c == call[h]
<1>a. file[h] = "torrent" /\ c.at = "reads" /\ read[h].at = "done"
  BY DEF TakeResult
<1>o. c \in OpenCall
  BY <1>0, <1>a, CallFields DEF TorrentSteps, RemoteSteps
<1>c. c.off \in Nat /\ c.want \in Nat \ {0}
  BY <1>o DEF OpenCall, Offsets
<1> DEFINE got == TorrentGot(h)
<1>g. /\ got \in Seq(Int) /\ Len(got) \in Nat /\ Len(c.got) <= Len(got) /\ Len(got) <= c.want
      /\ c.off + Len(got) = at[h] /\ c.off + Len(got) <= Size
      /\ got = FileRead!BytesFrom(c.off, Len(got)) /\ c.got \in Seq(Int)
  BY <1>a, TakenBytes
<1>e. read[h].err \in {"ok", "eof", "error"} /\ (read[h].err = "eof" => at[h] = Size)
  BY <1>a, TakenBytes
<1> HIDE DEF got
<1>h. Len(got) >= c.want \/ read[h].err # "ok"
  BY DEF got
<1> DEFINE l == [at |-> "returned", off |-> c.off, want |-> c.want, got |-> got,
                result |-> IF Len(got) >= c.want THEN "ok" ELSE read[h].err]
           r == NoRead
<1>1. /\ tracked' = [tracked EXCEPT ![h] = c.off + Len(got)]
      /\ call' = [call EXCEPT ![h] = l]
      /\ read' = [read EXCEPT ![h] = r]
      /\ UNCHANGED <<file, calls, reader, at, seek, detector, raised, quiet, body, pos>>
  BY <1>h DEF TakeResult, Returns, TorrentGot, got, torrentVars, perHandle, remoteVars
<1>2. /\ CallTyped(l)
      /\ l.at = "returned" /\ l.off = c.off /\ l.want = c.want /\ l.got = got
      /\ l.result \in {"ok", "eof", "error"}
      /\ l = FileRead!Returned(c.off, c.want, got, l.result)
      /\ l.result = "ok" => Len(got) = c.want
      /\ l.result = "eof" => c.off + Len(got) = Size
  BY <1>e, <1>g, <1>h, <1>o DEF FileRead!Returned, CallTyped, OverCall, OpenCall
<1>3. /\ ReadTyped(r) /\ r = NoRead
  BY DEF ReadTyped, Running, NoRead
<1> HIDE DEF l, r
<1>4. \A k \in Handles \ {h} : Same(k)
  BY <1>1 DEF Same, TypeOK
<1>5. /\ file'[h] = file[h]
      /\ call'[h] = l
      /\ reader'[h] = reader[h]
      /\ at'[h] = at[h]
      /\ tracked'[h] = c.off + Len(got)
      /\ read'[h] = r
      /\ body'[h] = body[h]
      /\ pos'[h] = pos[h]
  BY <1>1 DEF TypeOK
<1>6. TypeOK'
  <2>1. \A k \in Handles : CallTyped(call'[k]) /\ ReadTyped(read'[k])
    BY <1>2, <1>3, <1>4, <1>5 DEF TypeOK, Same
  <2>2. DOMAIN call' = Handles /\ DOMAIN read' = Handles /\ DOMAIN body' = Handles
    BY <1>1 DEF TypeOK
  <2>3. /\ file' \in [Handles -> {"none", "torrent", "remote"}] /\ reader' \in [Handles -> BOOLEAN]
        /\ at' \in [Handles -> Offsets] /\ tracked' \in [Handles -> Int] /\ seek' \in [Handles -> Int]
        /\ pos' \in [Handles -> Int]
    BY <1>1, <1>3, <1>a, <1>o, <1>c, <1>g, <1>e, <1>h DEF TypeOK, Offsets
  <2>4. /\ detector' \in [Handles -> {"no", "runs", "over"}] /\ quiet' \in BOOLEAN
        /\ raised' \subseteq Pieces \cup NextPieces /\ calls' \in 0..MaxCalls
    BY <1>1, <1>3, <1>a, <1>o, <1>c, <1>g, <1>e, <1>h DEF TypeOK
  <2> QED BY <2>1, <2>2, <2>3, <2>4 DEF TypeOK
<1>7. Kinds(h)'
  BY <1>2, <1>3, <1>a, <1>o, <1>c, <1>g, <1>e, <1>h, <1>5, CallFields, ReadFields
     DEF HandleInv, Kinds, Reader, TorrentSteps, RemoteSteps, NoRead, Free
<1>8. Bytes(h)'
  BY <1>2, <1>3, <1>a, <1>o, <1>c, <1>g, <1>e, <1>h, <1>5, CallFields, ReadFields DEF HandleInv,
     Kinds, Reader, Bytes, Offsets, TorrentSteps, RemoteSteps, NoRead, Free
<1>9. Reader(h)'
  BY <1>2, <1>3, <1>a, <1>o, <1>c, <1>g, <1>e, <1>h, <1>5, CallFields, ReadFields
     DEF HandleInv, Kinds, Reader, TorrentSteps, RemoteSteps, NoRead, Free
<1>10. Position(h)'
  BY <1>2, <1>3, <1>a, <1>o, <1>c, <1>g, <1>e, <1>h, <1>5, CallFields, ReadFields DEF HandleInv,
     Kinds, Reader, Position, TorrentSteps, RemoteSteps, NoRead, Free
<1>11. Body(h)'
  BY <1>3, <1>a, <1>o, <1>c, <1>g, <1>e, <1>h, <1>5, CallFields, ReadFields DEF HandleInv, Kinds,
     Reader, Body, Target, TorrentSteps, RemoteSteps, NoRead, Free
<1>12. QuietInv'
  BY <1>1, <1>3, <1>a, <1>o, <1>c, <1>g, <1>e, <1>h, <1>4, <1>5 DEF QuietInv, Same
<1>13. ReadStep(AsRead(h), AsRead(h)')
  <2>1. AsRead(h) = [at |-> "asked", off |-> c.off, want |-> c.want, got |-> c.got]
    BY <1>3, <1>a, <1>o, <1>c, <1>g, <1>e, <1>h, <1>5 DEF AsRead, TorrentSteps, RemoteSteps
  <2>2. AsRead(h)' = FileRead!Returned(c.off, c.want, got, l.result)
    BY <1>2, <1>3, <1>a, <1>o, <1>c, <1>g, <1>e, <1>h, <1>5 DEF AsRead
  <2>3. got \in FileRead!More(AsRead(h))
    BY <2>1, <1>c, <1>g, MoreBytes
  <2>4. /\ l.result \in {"ok", "eof", "error"}
        /\ l.result = "ok" => Len(got) = c.want
        /\ l.result = "eof" => c.off + Len(got) = Size
    BY <1>2, <1>3, <1>a, <1>o, <1>c, <1>g, <1>e, <1>h, <1>5
  <2> DEFINE v == AsRead(h)
  <2>5. v.at = "asked" /\ v.off = c.off /\ v.want = c.want
    BY <2>1
  <2> QED BY <2>2, <2>3, <2>4, <2>5 DEF ReadStep
<1> QED BY <1>4, <1>6, <1>7, <1>8, <1>9, <1>10, <1>11, <1>12, <1>13 DEF Keeps, HandleInv

\* or goes on.
LEMMA TakeMoreStep ==
    ASSUME TypeOK, QuietInv, NEW h \in Handles, HandleInv(h), UNCHANGED remoteVars,
           ~(Len(TorrentGot(h)) >= call[h].want \/ read[h].err # "ok"), TakeResult(h)
    PROVE  Keeps(h)
<1>0. CallTyped(call[h]) /\ ReadTyped(read[h]) /\ DOMAIN call = Handles /\ DOMAIN read = Handles
  BY DEF TypeOK
<1> DEFINE c == call[h]
<1>a. file[h] = "torrent" /\ c.at = "reads" /\ read[h].at = "done"
  BY DEF TakeResult
<1>o. c \in OpenCall
  BY <1>0, <1>a, CallFields DEF TorrentSteps, RemoteSteps
<1>c. c.off \in Nat /\ c.want \in Nat \ {0}
  BY <1>o DEF OpenCall, Offsets
<1> DEFINE got == TorrentGot(h)
<1>g. /\ got \in Seq(Int) /\ Len(got) \in Nat /\ Len(c.got) <= Len(got) /\ Len(got) <= c.want
      /\ c.off + Len(got) = at[h] /\ c.off + Len(got) <= Size
      /\ got = FileRead!BytesFrom(c.off, Len(got)) /\ c.got \in Seq(Int)
  BY <1>a, TakenBytes
<1>e. read[h].err \in {"ok", "eof", "error"} /\ (read[h].err = "eof" => at[h] = Size)
  BY <1>a, TakenBytes
<1> HIDE DEF got
<1>h. ~(Len(got) >= c.want \/ read[h].err # "ok")
  BY DEF got
<1> DEFINE l == [c EXCEPT !.got = got]
           r == NoRead
<1>1. /\ call' = [call EXCEPT ![h] = l]
      /\ read' = [read EXCEPT ![h] = r]
      /\ UNCHANGED <<file, calls, reader, at, tracked, seek, detector, raised, quiet, body, pos>>
  BY <1>h DEF TakeResult, TorrentGot, got, torrentVars, perHandle, remoteVars
<1>2. /\ CallTyped(l)
      /\ l.at = c.at /\ l.off = c.off /\ l.want = c.want /\ l.got = got /\ l.again = c.again
  BY <1>g, <1>o DEF CallTyped, OpenCall
<1>3. /\ ReadTyped(r) /\ r = NoRead
  BY DEF ReadTyped, Running, NoRead
<1> HIDE DEF l, r
<1>4. \A k \in Handles \ {h} : Same(k)
  BY <1>1 DEF Same, TypeOK
<1>5. /\ file'[h] = file[h]
      /\ call'[h] = l
      /\ reader'[h] = reader[h]
      /\ at'[h] = at[h]
      /\ tracked'[h] = tracked[h]
      /\ read'[h] = r
      /\ body'[h] = body[h]
      /\ pos'[h] = pos[h]
  BY <1>1 DEF TypeOK
<1>6. TypeOK'
  <2>1. \A k \in Handles : CallTyped(call'[k]) /\ ReadTyped(read'[k])
    BY <1>2, <1>3, <1>4, <1>5 DEF TypeOK, Same
  <2>2. DOMAIN call' = Handles /\ DOMAIN read' = Handles /\ DOMAIN body' = Handles
    BY <1>1 DEF TypeOK
  <2>3. /\ file' \in [Handles -> {"none", "torrent", "remote"}] /\ reader' \in [Handles -> BOOLEAN]
        /\ at' \in [Handles -> Offsets] /\ tracked' \in [Handles -> Int] /\ seek' \in [Handles -> Int]
        /\ pos' \in [Handles -> Int]
    BY <1>1, <1>3, <1>a, <1>o, <1>c, <1>g, <1>e, <1>h DEF TypeOK, Offsets
  <2>4. /\ detector' \in [Handles -> {"no", "runs", "over"}] /\ quiet' \in BOOLEAN
        /\ raised' \subseteq Pieces \cup NextPieces /\ calls' \in 0..MaxCalls
    BY <1>1, <1>3, <1>a, <1>o, <1>c, <1>g, <1>e, <1>h DEF TypeOK
  <2> QED BY <2>1, <2>2, <2>3, <2>4 DEF TypeOK
<1>7. Kinds(h)'
  BY <1>2, <1>3, <1>a, <1>o, <1>c, <1>g, <1>e, <1>h, <1>5, CallFields, ReadFields
     DEF HandleInv, Kinds, Reader, TorrentSteps, RemoteSteps, NoRead, Free
<1>8. Bytes(h)'
  BY <1>2, <1>3, <1>a, <1>o, <1>c, <1>g, <1>e, <1>h, <1>5, CallFields, ReadFields DEF HandleInv,
     Kinds, Reader, Bytes, Offsets, TorrentSteps, RemoteSteps, NoRead, Free
<1>9. Reader(h)'
  BY <1>2, <1>3, <1>a, <1>o, <1>c, <1>g, <1>e, <1>h, <1>5, CallFields, ReadFields
     DEF HandleInv, Kinds, Reader, TorrentSteps, RemoteSteps, NoRead, Free
<1>10. Position(h)'
  BY <1>2, <1>3, <1>a, <1>o, <1>c, <1>g, <1>e, <1>h, <1>5, CallFields, ReadFields DEF HandleInv,
     Kinds, Reader, Position, TorrentSteps, RemoteSteps, NoRead, Free
<1>11. Body(h)'
  BY <1>3, <1>a, <1>o, <1>c, <1>g, <1>e, <1>h, <1>5, CallFields, ReadFields DEF HandleInv, Kinds,
     Reader, Body, Target, TorrentSteps, RemoteSteps, NoRead, Free
<1>12. QuietInv'
  BY <1>1, <1>3, <1>a, <1>o, <1>c, <1>g, <1>e, <1>h, <1>4, <1>5 DEF QuietInv, Same
<1>13. ReadStep(AsRead(h), AsRead(h)')
  <2>1. AsRead(h) = [at |-> "asked", off |-> c.off, want |-> c.want, got |-> c.got]
    BY <1>3, <1>a, <1>o, <1>c, <1>g, <1>e, <1>h, <1>5 DEF AsRead, TorrentSteps, RemoteSteps
  <2>0. AsRead(h)' = [at |-> "asked", off |-> c.off, want |-> c.want, got |-> got]
    BY <1>2, <1>3, <1>a, <1>o, <1>c, <1>g, <1>e, <1>h, <1>5 DEF AsRead, TorrentSteps, RemoteSteps
  <2>2. AsRead(h)' = [AsRead(h) EXCEPT !.got = got]
    BY <2>0, <2>1
  <2>3. got \in FileRead!More(AsRead(h))
    BY <2>1, <1>c, <1>g, MoreBytes
  <2>4. AsRead(h).at = "asked"
    BY <2>1
  <2> QED BY <2>2, <2>3, <2>4 DEF ReadStep
<1> QED BY <1>4, <1>6, <1>7, <1>8, <1>9, <1>10, <1>11, <1>12, <1>13 DEF Keeps, HandleInv

\* A timeout leaves its goroutine behind.
LEMMA ReadTimesOutStep ==
    ASSUME TypeOK, QuietInv, NEW h \in Handles, HandleInv(h), UNCHANGED remoteVars,
           ReadTimesOut(h)
    PROVE  Keeps(h)
<1>0. CallTyped(call[h]) /\ ReadTyped(read[h]) /\ DOMAIN call = Handles /\ DOMAIN read = Handles
  BY DEF TypeOK
<1> DEFINE c == call[h]
<1>a. file[h] = "torrent" /\ c.at = "reads" /\ read[h].at # "none"
  BY DEF ReadTimesOut
<1>o. c \in OpenCall
  BY <1>0, <1>a, CallFields DEF TorrentSteps, RemoteSteps
<1>c. c.off \in Nat /\ c.want \in Nat \ {0} /\ c.got \in Seq(Int) /\ Len(c.got) \in Nat
  BY <1>o DEF OpenCall, Offsets
<1>d. c.got = FileRead!BytesFrom(c.off, Len(c.got)) /\ Len(c.got) < c.want
  BY <1>a DEF HandleInv, Bytes, TorrentSteps
<1> DEFINE l == [at |-> "returned", off |-> c.off, want |-> c.want, got |-> c.got,
                result |-> "error"]
           r == IF read[h].at = "done" THEN Left ELSE [read[h] EXCEPT !.pending = TRUE]
<1>1. /\ tracked' = [tracked EXCEPT ![h] = c.off + Len(c.got)]
      /\ call' = [call EXCEPT ![h] = l]
      /\ read' = [read EXCEPT ![h] = r]
      /\ UNCHANGED <<file, calls, reader, at, seek, detector, raised, quiet, body, pos>>
  BY <1>0 DEF ReadTimesOut, Returns, perHandle, remoteVars
<1>2. /\ CallTyped(l)
      /\ l.at = "returned" /\ l.off = c.off /\ l.want = c.want /\ l.got = c.got /\ l.result = "error"
      /\ l = FileRead!Returned(c.off, c.want, c.got, l.result)
  BY <1>o DEF FileRead!Returned, CallTyped, OverCall, OpenCall
<1>3. /\ ReadTyped(r) /\ r.pending = TRUE /\ r.at # "none"
  BY <1>0, <1>a, ReadFields DEF ReadTyped, Running, Left
<1> HIDE DEF l, r
<1>4. \A k \in Handles \ {h} : Same(k)
  BY <1>1 DEF Same, TypeOK
<1>5. /\ file'[h] = file[h]
      /\ call'[h] = l
      /\ reader'[h] = reader[h]
      /\ at'[h] = at[h]
      /\ tracked'[h] = c.off + Len(c.got)
      /\ read'[h] = r
      /\ body'[h] = body[h]
      /\ pos'[h] = pos[h]
  BY <1>1 DEF TypeOK
<1>6. TypeOK'
  <2>1. \A k \in Handles : CallTyped(call'[k]) /\ ReadTyped(read'[k])
    BY <1>2, <1>3, <1>4, <1>5 DEF TypeOK, Same
  <2>2. DOMAIN call' = Handles /\ DOMAIN read' = Handles /\ DOMAIN body' = Handles
    BY <1>1 DEF TypeOK
  <2>3. /\ file' \in [Handles -> {"none", "torrent", "remote"}] /\ reader' \in [Handles -> BOOLEAN]
        /\ at' \in [Handles -> Offsets] /\ tracked' \in [Handles -> Int] /\ seek' \in [Handles -> Int]
        /\ pos' \in [Handles -> Int]
    BY <1>1, <1>3, <1>a, <1>o, <1>c, <1>d DEF TypeOK, Offsets
  <2>4. /\ detector' \in [Handles -> {"no", "runs", "over"}] /\ quiet' \in BOOLEAN
        /\ raised' \subseteq Pieces \cup NextPieces /\ calls' \in 0..MaxCalls
    BY <1>1, <1>3, <1>a, <1>o, <1>c, <1>d DEF TypeOK
  <2> QED BY <2>1, <2>2, <2>3, <2>4 DEF TypeOK
<1>7. Kinds(h)'
  BY <1>2, <1>3, <1>a, <1>o, <1>c, <1>d, <1>5, CallFields, ReadFields
     DEF HandleInv, Kinds, Reader, TorrentSteps, RemoteSteps, NoRead, Free
<1>8. Bytes(h)'
  BY <1>2, <1>3, <1>a, <1>o, <1>c, <1>d, <1>5, CallFields, ReadFields DEF HandleInv, Kinds,
     Reader, Bytes, Offsets, TorrentSteps, RemoteSteps, NoRead, Free
<1>9. Reader(h)'
  BY <1>2, <1>3, <1>a, <1>o, <1>c, <1>d, <1>5, CallFields, ReadFields
     DEF HandleInv, Kinds, Reader, TorrentSteps, RemoteSteps, NoRead, Free
<1>10. Position(h)'
  BY <1>2, <1>3, <1>a, <1>o, <1>c, <1>d, <1>5, CallFields, ReadFields DEF HandleInv, Kinds,
     Reader, Position, TorrentSteps, RemoteSteps, NoRead, Free
<1>11. Body(h)'
  BY <1>3, <1>a, <1>o, <1>c, <1>d, <1>5, CallFields, ReadFields DEF HandleInv, Kinds, Reader,
     Body, Target, TorrentSteps, RemoteSteps, NoRead, Free
<1>12. QuietInv'
  BY <1>1, <1>3, <1>a, <1>o, <1>c, <1>d, <1>4, <1>5 DEF QuietInv, Same
<1>13. ReadStep(AsRead(h), AsRead(h)')
  <2>1. AsRead(h) = [at |-> "asked", off |-> c.off, want |-> c.want, got |-> c.got]
    BY <1>3, <1>a, <1>o, <1>c, <1>d, <1>5 DEF AsRead, TorrentSteps, RemoteSteps
  <2>2. AsRead(h)' = FileRead!Returned(c.off, c.want, c.got, l.result)
    BY <1>2, <1>3, <1>a, <1>o, <1>c, <1>d, <1>5 DEF AsRead
  <2>3. c.got \in FileRead!More(AsRead(h))
    <3>1. c.got \in FileRead!More(AsRead(h))
      BY <2>1, <1>c, <1>d, MoreBytes
    <3> QED BY <3>1
  <2>4. /\ l.result \in {"ok", "eof", "error"}
        /\ l.result = "ok" => Len(c.got) = c.want
        /\ l.result = "eof" => c.off + Len(c.got) = Size
    BY <1>2, <1>3, <1>a, <1>o, <1>c, <1>d, <1>5
  <2> DEFINE v == AsRead(h)
  <2>5. v.at = "asked" /\ v.off = c.off /\ v.want = c.want
    BY <2>1
  <2> QED BY <2>2, <2>3, <2>4, <2>5 DEF ReadStep
<1> QED BY <1>4, <1>6, <1>7, <1>8, <1>9, <1>10, <1>11, <1>12, <1>13 DEF Keeps, HandleInv

\* The last reader of a file open for long leaves nothing raised.
LEMMA TorrentCloseStep ==
    ASSUME TypeOK, QuietInv, NEW h \in Handles, HandleInv(h), UNCHANGED remoteVars,
           NEW long \in BOOLEAN, TorrentClose(h, long)
    PROVE  Keeps(h)
<1>0. CallTyped(call[h]) /\ ReadTyped(read[h]) /\ DOMAIN call = Handles /\ DOMAIN read = Handles
  BY DEF TypeOK
<1> DEFINE c == call[h]
<1>a. file[h] = "torrent" /\ c.at = "closes"
  BY DEF TorrentClose, Closes
<1>b. detector' \in [Handles -> {"no", "runs", "over"}]
  BY DEF TorrentClose, TypeOK
<1> DEFINE l == Free
           r == IF read[h].at = "done" THEN NoRead ELSE read[h]
<1>1. /\ file' = [file EXCEPT ![h] = "none"]
      /\ reader' = [reader EXCEPT ![h] = FALSE]
      /\ at' = [at EXCEPT ![h] = 0]
      /\ tracked' = [tracked EXCEPT ![h] = 0]
      /\ seek' = [seek EXCEPT ![h] = -1]
      /\ raised' = IF reader[h] /\ long THEN ResetPriorities ELSE raised
      /\ quiet' = IF reader[h] THEN long /\ \A k \in Handles \ {h} : ~reader[k] ELSE quiet
      /\ call' = [call EXCEPT ![h] = l]
      /\ read' = [read EXCEPT ![h] = r]
      /\ detector' \in [Handles -> {"no", "runs", "over"}]
      /\ UNCHANGED <<calls, body, pos>>
  BY <1>b DEF TorrentClose, Closes, torrentVars, perHandle, remoteVars
<1>2. /\ CallTyped(l) /\ l = Free
  BY DEF CallTyped
<1>3. /\ ReadTyped(r) /\ r.at # "done" /\ (r.at = "none" => r = NoRead)
  BY <1>0 DEF ReadTyped, Running, NoRead, HandleInv, Reader
<1> HIDE DEF l, r
<1>4. \A k \in Handles \ {h} : Same(k)
  BY <1>1 DEF Same, TypeOK
<1>5. /\ file'[h] = "none"
      /\ call'[h] = l
      /\ reader'[h] = FALSE
      /\ at'[h] = 0
      /\ tracked'[h] = 0
      /\ read'[h] = r
      /\ body'[h] = body[h]
      /\ pos'[h] = pos[h]
  BY <1>1 DEF TypeOK
<1>6. TypeOK'
  <2>1. \A k \in Handles : CallTyped(call'[k]) /\ ReadTyped(read'[k])
    BY <1>2, <1>3, <1>4, <1>5 DEF TypeOK, Same
  <2>2. DOMAIN call' = Handles /\ DOMAIN read' = Handles /\ DOMAIN body' = Handles
    BY <1>1 DEF TypeOK
  <2>3. /\ file' \in [Handles -> {"none", "torrent", "remote"}] /\ reader' \in [Handles -> BOOLEAN]
        /\ at' \in [Handles -> Offsets] /\ tracked' \in [Handles -> Int] /\ seek' \in [Handles -> Int]
        /\ pos' \in [Handles -> Int]
    BY <1>1, <1>3, <1>a, <1>b, ReadCallsAssumption DEF TypeOK, Offsets
  <2>4. /\ detector' \in [Handles -> {"no", "runs", "over"}] /\ quiet' \in BOOLEAN
        /\ raised' \subseteq Pieces \cup NextPieces /\ calls' \in 0..MaxCalls
    BY <1>1, <1>3, <1>a, <1>b, ReadCallsAssumption DEF TypeOK, ResetPriorities
  <2> QED BY <2>1, <2>2, <2>3, <2>4 DEF TypeOK
<1>7. Kinds(h)'
  BY <1>2, <1>3, <1>a, <1>b, <1>5, CallFields, ReadFields
     DEF HandleInv, Kinds, Reader, TorrentSteps, RemoteSteps, NoRead, Free
<1>8. Bytes(h)'
  BY <1>2, <1>3, <1>a, <1>b, <1>5, CallFields, ReadFields DEF HandleInv, Kinds, Reader, Bytes,
     Offsets, TorrentSteps, RemoteSteps, NoRead, Free
<1>9. Reader(h)'
  BY <1>3, <1>a, <1>b, <1>5, CallFields, ReadFields
     DEF HandleInv, Kinds, Reader, TorrentSteps, RemoteSteps, NoRead, Free
<1>10. Position(h)'
  BY <1>3, <1>a, <1>b, <1>5, CallFields, ReadFields DEF HandleInv, Kinds, Reader, Position,
     TorrentSteps, RemoteSteps, NoRead, Free
<1>11. Body(h)'
  BY <1>3, <1>a, <1>b, <1>5, CallFields, ReadFields DEF HandleInv, Kinds, Reader, Body, Target,
     TorrentSteps, RemoteSteps, NoRead, Free
<1>12. QuietInv'
  BY <1>1, <1>3, <1>a, <1>b, <1>4, <1>5 DEF QuietInv, Same, ResetPriorities, TypeOK
<1>13. ReadStep(AsRead(h), AsRead(h)')
  <2>1. AsRead(h) = [at |-> "closed"] /\ AsRead(h)' = [at |-> "closed"]
    BY <1>3, <1>a, <1>b, <1>5 DEF AsRead
  <2> QED BY <2>1 DEF ReadStep
<1> QED BY <1>4, <1>6, <1>7, <1>8, <1>9, <1>10, <1>11, <1>12, <1>13 DEF Keeps, HandleInv

LEMMA RequestEndsStep ==
    ASSUME TypeOK, QuietInv, NEW h \in Handles, HandleInv(h), NEW kind \in {"torrent", "remote"},
           UNCHANGED torrentVars, UNCHANGED remoteVars, RequestEnds(h, kind)
    PROVE  Keeps(h)
<1>0. CallTyped(call[h]) /\ ReadTyped(read[h]) /\ DOMAIN call = Handles /\ DOMAIN read = Handles
  BY DEF TypeOK
<1> DEFINE c == call[h]
<1>a. file[h] = kind /\ c.at \in {"idle", "returned"}
  BY DEF RequestEnds, Ready
<1> DEFINE l == [at |-> "closes"]
<1>1. /\ call' = [call EXCEPT ![h] = l]
      /\ UNCHANGED <<file, calls, reader, at, tracked, seek, read, detector, raised, quiet, body, pos>>
  BY <1>0 DEF RequestEnds, torrentVars, perHandle, remoteVars
<1>2. /\ CallTyped(l) /\ l = [at |-> "closes"] /\ l.at = "closes"
  BY DEF CallTyped
<1> HIDE DEF l
<1>4. \A k \in Handles \ {h} : Same(k)
  BY <1>1 DEF Same, TypeOK
<1>5. /\ file'[h] = file[h]
      /\ call'[h] = l
      /\ reader'[h] = reader[h]
      /\ at'[h] = at[h]
      /\ tracked'[h] = tracked[h]
      /\ read'[h] = read[h]
      /\ body'[h] = body[h]
      /\ pos'[h] = pos[h]
  BY <1>1 DEF TypeOK
<1>6. TypeOK'
  <2>1. \A k \in Handles : CallTyped(call'[k]) /\ ReadTyped(read'[k])
    BY <1>2, <1>4, <1>5 DEF TypeOK, Same
  <2>2. DOMAIN call' = Handles /\ DOMAIN read' = Handles /\ DOMAIN body' = Handles
    BY <1>1 DEF TypeOK
  <2>3. /\ file' \in [Handles -> {"none", "torrent", "remote"}] /\ reader' \in [Handles -> BOOLEAN]
        /\ at' \in [Handles -> Offsets] /\ tracked' \in [Handles -> Int] /\ seek' \in [Handles -> Int]
        /\ pos' \in [Handles -> Int]
    BY <1>1, <1>a DEF TypeOK, Offsets
  <2>4. /\ detector' \in [Handles -> {"no", "runs", "over"}] /\ quiet' \in BOOLEAN
        /\ raised' \subseteq Pieces \cup NextPieces /\ calls' \in 0..MaxCalls
    BY <1>1, <1>a DEF TypeOK
  <2> QED BY <2>1, <2>2, <2>3, <2>4 DEF TypeOK
<1>7. Kinds(h)'
  BY <1>2, <1>a, <1>5, CallFields, ReadFields
     DEF HandleInv, Kinds, Reader, TorrentSteps, RemoteSteps, NoRead, Free
<1>8. Bytes(h)'
  BY <1>2, <1>a, <1>5, CallFields, ReadFields DEF HandleInv, Kinds, Reader, Bytes, Offsets,
     TorrentSteps, RemoteSteps, NoRead, Free
<1>9. Reader(h)'
  BY <1>2, <1>a, <1>5, CallFields, ReadFields
     DEF HandleInv, Kinds, Reader, TorrentSteps, RemoteSteps, NoRead, Free
<1>10. Position(h)'
  BY <1>2, <1>a, <1>5, CallFields, ReadFields DEF HandleInv, Kinds, Reader, Position,
     TorrentSteps, RemoteSteps, NoRead, Free
<1>11. Body(h)'
  BY <1>2, <1>a, <1>5, CallFields, ReadFields DEF HandleInv, Kinds, Reader, Body, Target,
     TorrentSteps, RemoteSteps, NoRead, Free
<1>12. QuietInv'
  BY <1>1, <1>a, <1>4, <1>5 DEF QuietInv, Same
<1>13. ReadStep(AsRead(h), AsRead(h)')
  <2>1. AsRead(h) = c
    BY <1>a, <1>5 DEF AsRead
  <2>2. AsRead(h)' = FileRead!Closed
    BY <1>2, <1>a, <1>5 DEF AsRead, FileRead!Closed
  <2> QED BY <1>a, <2>1, <2>2 DEF ReadStep
<1> QED BY <1>4, <1>6, <1>7, <1>8, <1>9, <1>10, <1>11, <1>12, <1>13 DEF Keeps, HandleInv

\* The goroutine reads, to the end of its piece, of the file or of the reader.
LEMMA GoroutineStartsStep ==
    ASSUME TypeOK, QuietInv, NEW h \in Handles, HandleInv(h), UNCHANGED remoteVars,
           GoroutineStarts(h)
    PROVE  Keeps(h)
<1>0. CallTyped(call[h]) /\ ReadTyped(read[h]) /\ DOMAIN call = Handles /\ DOMAIN read = Handles
  BY DEF TypeOK
<1> DEFINE c == call[h]
<1>a. read[h].at = "spawned" /\ reader[h]
  BY DEF GoroutineStarts
<1> DEFINE r == [read[h] EXCEPT !.at = "reading"]
<1>1. /\ read' = [read EXCEPT ![h] = r]
      /\ UNCHANGED <<file, call, calls, reader, at, tracked, seek, detector, raised, quiet, body, pos>>
  BY <1>0 DEF GoroutineStarts, remoteVars
<1>3. /\ ReadTyped(r) /\ r.at = "reading" /\ r.pending = read[h].pending
  BY <1>0, <1>a, ReadFields DEF ReadTyped, Running
<1> HIDE DEF r
<1>4. \A k \in Handles \ {h} : Same(k)
  BY <1>1 DEF Same, TypeOK
<1>5. /\ file'[h] = file[h]
      /\ call'[h] = call[h]
      /\ reader'[h] = reader[h]
      /\ at'[h] = at[h]
      /\ tracked'[h] = tracked[h]
      /\ read'[h] = r
      /\ body'[h] = body[h]
      /\ pos'[h] = pos[h]
  BY <1>1 DEF TypeOK
<1>6. TypeOK'
  <2>1. \A k \in Handles : CallTyped(call'[k]) /\ ReadTyped(read'[k])
    BY <1>3, <1>4, <1>5 DEF TypeOK, Same
  <2>2. DOMAIN call' = Handles /\ DOMAIN read' = Handles /\ DOMAIN body' = Handles
    BY <1>1 DEF TypeOK
  <2>3. /\ file' \in [Handles -> {"none", "torrent", "remote"}] /\ reader' \in [Handles -> BOOLEAN]
        /\ at' \in [Handles -> Offsets] /\ tracked' \in [Handles -> Int] /\ seek' \in [Handles -> Int]
        /\ pos' \in [Handles -> Int]
    BY <1>1, <1>a DEF TypeOK, Offsets
  <2>4. /\ detector' \in [Handles -> {"no", "runs", "over"}] /\ quiet' \in BOOLEAN
        /\ raised' \subseteq Pieces \cup NextPieces /\ calls' \in 0..MaxCalls
    BY <1>1, <1>a DEF TypeOK
  <2> QED BY <2>1, <2>2, <2>3, <2>4 DEF TypeOK
<1>7. Kinds(h)'
  BY <1>a, <1>5, CallFields, ReadFields
     DEF HandleInv, Kinds, Reader, TorrentSteps, RemoteSteps, NoRead, Free
<1>8. Bytes(h)'
  BY <1>a, <1>5, CallFields, ReadFields DEF HandleInv, Kinds, Reader, Bytes, Offsets,
     TorrentSteps, RemoteSteps, NoRead, Free
<1>9. Reader(h)'
  BY <1>3, <1>a, <1>5, CallFields, ReadFields
     DEF HandleInv, Kinds, Reader, TorrentSteps, RemoteSteps, NoRead, Free
<1>10. Position(h)'
  BY <1>3, <1>a, <1>5, CallFields, ReadFields DEF HandleInv, Kinds, Reader, Position,
     TorrentSteps, RemoteSteps, NoRead, Free
<1>11. Body(h)'
  BY <1>a, <1>5, CallFields, ReadFields DEF HandleInv, Kinds, Reader, Body, Target, TorrentSteps,
     RemoteSteps, NoRead, Free
<1>12. QuietInv'
  BY <1>1, <1>a, <1>4, <1>5 DEF QuietInv, Same
<1>13. ReadStep(AsRead(h), AsRead(h)')
  <2>1. AsRead(h)' = AsRead(h)
    BY <1>a, <1>5, CallFields DEF AsRead, HandleInv, Kinds, TorrentSteps, RemoteSteps, Free
  <2> QED BY <2>1 DEF ReadStep
<1> QED BY <1>4, <1>6, <1>7, <1>8, <1>9, <1>10, <1>11, <1>12, <1>13 DEF Keeps, HandleInv

LEMMA DeliversStep ==
    ASSUME TypeOK, QuietInv, NEW h \in Handles, HandleInv(h), UNCHANGED remoteVars, Delivers(h)
    PROVE  Keeps(h)
<1>0. CallTyped(call[h]) /\ ReadTyped(read[h]) /\ DOMAIN call = Handles /\ DOMAIN read = Handles
  BY DEF TypeOK
<1> DEFINE c == call[h]
<1>a. read[h].at = "reading" /\ reader[h] /\ at[h] < Size /\ at[h] \in Nat
  BY DEF Delivers, Reads, TypeOK, Offsets
<1>b. read[h].pending \in BOOLEAN /\ <<at[h]>> \in Seq(Int)
  BY <1>0, <1>a, ReadFields
<1>c. detector' \in [Handles -> {"no", "runs", "over"}]
  BY DEF Delivers, MaybeStartFormatDetection, TypeOK
<1>d. at[h] + 1 \in Offsets
  BY <1>a, ReadCallsAssumption DEF Offsets
<1> DEFINE r == IF read[h].pending THEN Left ELSE Done(<<at[h]>>, "ok")
<1>1. /\ at' = [at EXCEPT ![h] = at[h] + 1]
      /\ read' = [read EXCEPT ![h] = r]
      /\ detector' \in [Handles -> {"no", "runs", "over"}]
      /\ UNCHANGED <<file, call, calls, reader, tracked, seek, raised, quiet, body, pos>>
  BY <1>c DEF Delivers, Ends, torrentVars, perHandle, remoteVars
<1>3. /\ ReadTyped(r)
      /\ r.at = "done" /\ r.pending = read[h].pending
      /\ r.pending = FALSE => r.data = <<at[h]>> /\ r.err = "ok"
  BY <1>b DEF ReadTyped, DoneRead, Left, Done
<1> HIDE DEF r
<1>4. \A k \in Handles \ {h} : Same(k)
  BY <1>1 DEF Same, TypeOK
<1>5. /\ file'[h] = file[h]
      /\ call'[h] = call[h]
      /\ reader'[h] = reader[h]
      /\ at'[h] = at[h] + 1
      /\ tracked'[h] = tracked[h]
      /\ read'[h] = r
      /\ body'[h] = body[h]
      /\ pos'[h] = pos[h]
  BY <1>1 DEF TypeOK
<1>6. TypeOK'
  <2>1. \A k \in Handles : CallTyped(call'[k]) /\ ReadTyped(read'[k])
    BY <1>3, <1>4, <1>5 DEF TypeOK, Same
  <2>2. DOMAIN call' = Handles /\ DOMAIN read' = Handles /\ DOMAIN body' = Handles
    BY <1>1 DEF TypeOK
  <2>3. /\ file' \in [Handles -> {"none", "torrent", "remote"}] /\ reader' \in [Handles -> BOOLEAN]
        /\ at' \in [Handles -> Offsets] /\ tracked' \in [Handles -> Int] /\ seek' \in [Handles -> Int]
        /\ pos' \in [Handles -> Int]
    BY <1>1, <1>a, <1>b, <1>c, <1>d DEF TypeOK, Offsets
  <2>4. /\ detector' \in [Handles -> {"no", "runs", "over"}] /\ quiet' \in BOOLEAN
        /\ raised' \subseteq Pieces \cup NextPieces /\ calls' \in 0..MaxCalls
    BY <1>1, <1>a, <1>b, <1>c, <1>d DEF TypeOK
  <2> QED BY <2>1, <2>2, <2>3, <2>4 DEF TypeOK
<1>7. Kinds(h)'
  BY <1>a, <1>b, <1>c, <1>d, <1>5, CallFields, ReadFields
     DEF HandleInv, Kinds, Reader, TorrentSteps, RemoteSteps, NoRead, Free
<1>8. Bytes(h)'
  BY <1>a, <1>b, <1>c, <1>d, <1>5, CallFields, ReadFields DEF HandleInv, Kinds, Reader, Bytes,
     Offsets, TorrentSteps, RemoteSteps, NoRead, Free
<1>9. Reader(h)'
  BY <1>3, <1>a, <1>b, <1>c, <1>d, <1>5, CallFields, ReadFields
     DEF HandleInv, Kinds, Reader, TorrentSteps, RemoteSteps, NoRead, Free
<1>10. Position(h)'
  BY <1>3, <1>a, <1>b, <1>c, <1>d, <1>5, CallFields, ReadFields DEF HandleInv, Kinds, Reader,
     Position, TorrentSteps, RemoteSteps, NoRead, Free
<1>11. Body(h)'
  BY <1>a, <1>b, <1>c, <1>d, <1>5, CallFields, ReadFields DEF HandleInv, Kinds, Reader, Body,
     Target, TorrentSteps, RemoteSteps, NoRead, Free
<1>12. QuietInv'
  BY <1>1, <1>a, <1>b, <1>c, <1>d, <1>4, <1>5 DEF QuietInv, Same
<1>13. ReadStep(AsRead(h), AsRead(h)')
  <2>1. AsRead(h)' = AsRead(h)
    BY <1>a, <1>b, <1>c, <1>d, <1>5, CallFields
       DEF AsRead, HandleInv, Kinds, TorrentSteps, RemoteSteps, Free
  <2> QED BY <2>1 DEF ReadStep
<1> QED BY <1>4, <1>6, <1>7, <1>8, <1>9, <1>10, <1>11, <1>12, <1>13 DEF Keeps, HandleInv

LEMMA ReadEndsStep ==
    ASSUME TypeOK, QuietInv, NEW h \in Handles, HandleInv(h), UNCHANGED remoteVars,
           NEW err \in {"eof", "error"},
           Reads(h), Ends(h, <<>>, err), err = "eof" => at[h] = Size,
           UNCHANGED <<file, call, calls, reader, at, tracked, seek, detector, raised, quiet>>
    PROVE  Keeps(h)
<1>0. CallTyped(call[h]) /\ ReadTyped(read[h]) /\ DOMAIN call = Handles /\ DOMAIN read = Handles
  BY DEF TypeOK
<1> DEFINE c == call[h]
<1>a. /\ read[h].at = "reading" /\ reader[h]
      /\ read[h].pending \in BOOLEAN /\ <<>> \in Seq(Int)
  BY <1>0, ReadFields DEF Reads
<1> DEFINE r == IF read[h].pending THEN Left ELSE Done(<<>>, err)
<1>1. /\ read' = [read EXCEPT ![h] = r]
      /\ UNCHANGED <<file, call, calls, reader, at, tracked, seek, detector, raised, quiet, body, pos>>
  BY <1>0 DEF Ends, remoteVars
<1>3. /\ ReadTyped(r)
      /\ r.at = "done" /\ r.pending = read[h].pending
      /\ r.pending = FALSE => r.data = <<>> /\ r.err = err
  BY <1>a DEF ReadTyped, DoneRead, Left, Done
<1> HIDE DEF r
<1>4. \A k \in Handles \ {h} : Same(k)
  BY <1>1 DEF Same, TypeOK
<1>5. /\ file'[h] = file[h]
      /\ call'[h] = call[h]
      /\ reader'[h] = reader[h]
      /\ at'[h] = at[h]
      /\ tracked'[h] = tracked[h]
      /\ read'[h] = r
      /\ body'[h] = body[h]
      /\ pos'[h] = pos[h]
  BY <1>1 DEF TypeOK
<1>6. TypeOK'
  <2>1. \A k \in Handles : CallTyped(call'[k]) /\ ReadTyped(read'[k])
    BY <1>3, <1>4, <1>5 DEF TypeOK, Same
  <2>2. DOMAIN call' = Handles /\ DOMAIN read' = Handles /\ DOMAIN body' = Handles
    BY <1>1 DEF TypeOK
  <2>3. /\ file' \in [Handles -> {"none", "torrent", "remote"}] /\ reader' \in [Handles -> BOOLEAN]
        /\ at' \in [Handles -> Offsets] /\ tracked' \in [Handles -> Int] /\ seek' \in [Handles -> Int]
        /\ pos' \in [Handles -> Int]
    BY <1>1, <1>a DEF TypeOK, Offsets
  <2>4. /\ detector' \in [Handles -> {"no", "runs", "over"}] /\ quiet' \in BOOLEAN
        /\ raised' \subseteq Pieces \cup NextPieces /\ calls' \in 0..MaxCalls
    BY <1>a DEF TypeOK
  <2> QED BY <2>1, <2>2, <2>3, <2>4 DEF TypeOK
<1>7. Kinds(h)'
  BY <1>a, <1>5, CallFields, ReadFields
     DEF HandleInv, Kinds, Reader, TorrentSteps, RemoteSteps, NoRead, Free
<1>8. Bytes(h)'
  BY <1>a, <1>5, CallFields, ReadFields DEF HandleInv, Kinds, Reader, Bytes, Offsets,
     TorrentSteps, RemoteSteps, NoRead, Free
<1>9. Reader(h)'
  BY <1>3, <1>a, <1>5, CallFields, ReadFields
     DEF HandleInv, Kinds, Reader, TorrentSteps, RemoteSteps, NoRead, Free
<1>10. Position(h)'
  BY <1>3, <1>a, <1>5, CallFields, ReadFields DEF HandleInv, Kinds, Reader, Position,
     TorrentSteps, RemoteSteps, NoRead, Free
<1>11. Body(h)'
  BY <1>a, <1>5, CallFields, ReadFields DEF HandleInv, Kinds, Reader, Body, Target, TorrentSteps,
     RemoteSteps, NoRead, Free
<1>12. QuietInv'
  BY <1>a, <1>4, <1>5 DEF QuietInv, Same
<1>13. ReadStep(AsRead(h), AsRead(h)')
  <2>1. AsRead(h)' = AsRead(h)
    BY <1>a, <1>5, CallFields DEF AsRead, HandleInv, Kinds, TorrentSteps, RemoteSteps, Free
  <2> QED BY <2>1 DEF ReadStep
<1> QED BY <1>4, <1>6, <1>7, <1>8, <1>9, <1>10, <1>11, <1>12, <1>13 DEF Keeps, HandleInv

LEMMA LateReadEndsStep ==
    ASSUME TypeOK, QuietInv, NEW h \in Handles, HandleInv(h), UNCHANGED remoteVars,
           LateReadEnds(h)
    PROVE  Keeps(h)
<1>0. CallTyped(call[h]) /\ ReadTyped(read[h]) /\ DOMAIN call = Handles /\ DOMAIN read = Handles
  BY DEF TypeOK
<1> DEFINE c == call[h]
<1>a. read[h].at = "reading" /\ ~reader[h]
  BY DEF LateReadEnds
<1>b. detector' \in [Handles -> {"no", "runs", "over"}]
  BY DEF LateReadEnds, MaybeStartFormatDetection, TypeOK
<1> DEFINE r == NoRead
<1>1. /\ read' = [read EXCEPT ![h] = r]
      /\ detector' \in [Handles -> {"no", "runs", "over"}]
      /\ UNCHANGED <<file, call, calls, reader, at, tracked, seek, raised, quiet, body, pos>>
  BY <1>0, <1>b DEF LateReadEnds, remoteVars
<1>3. /\ ReadTyped(r) /\ r = NoRead
  BY DEF ReadTyped, Running, NoRead
<1> HIDE DEF r
<1>4. \A k \in Handles \ {h} : Same(k)
  BY <1>1 DEF Same, TypeOK
<1>5. /\ file'[h] = file[h]
      /\ call'[h] = call[h]
      /\ reader'[h] = reader[h]
      /\ at'[h] = at[h]
      /\ tracked'[h] = tracked[h]
      /\ read'[h] = r
      /\ body'[h] = body[h]
      /\ pos'[h] = pos[h]
  BY <1>1 DEF TypeOK
<1>6. TypeOK'
  <2>1. \A k \in Handles : CallTyped(call'[k]) /\ ReadTyped(read'[k])
    BY <1>3, <1>4, <1>5 DEF TypeOK, Same
  <2>2. DOMAIN call' = Handles /\ DOMAIN read' = Handles /\ DOMAIN body' = Handles
    BY <1>1 DEF TypeOK
  <2>3. /\ file' \in [Handles -> {"none", "torrent", "remote"}] /\ reader' \in [Handles -> BOOLEAN]
        /\ at' \in [Handles -> Offsets] /\ tracked' \in [Handles -> Int] /\ seek' \in [Handles -> Int]
        /\ pos' \in [Handles -> Int]
    BY <1>1, <1>a DEF TypeOK, Offsets
  <2>4. /\ detector' \in [Handles -> {"no", "runs", "over"}] /\ quiet' \in BOOLEAN
        /\ raised' \subseteq Pieces \cup NextPieces /\ calls' \in 0..MaxCalls
    BY <1>1, <1>a DEF TypeOK
  <2> QED BY <2>1, <2>2, <2>3, <2>4 DEF TypeOK
<1>7. Kinds(h)'
  BY <1>a, <1>5, CallFields, ReadFields
     DEF HandleInv, Kinds, Reader, TorrentSteps, RemoteSteps, NoRead, Free
<1>8. Bytes(h)'
  BY <1>a, <1>5, CallFields, ReadFields DEF HandleInv, Kinds, Reader, Bytes, Offsets,
     TorrentSteps, RemoteSteps, NoRead, Free
<1>9. Reader(h)'
  BY <1>3, <1>a, <1>5, CallFields, ReadFields
     DEF HandleInv, Kinds, Reader, TorrentSteps, RemoteSteps, NoRead, Free
<1>10. Position(h)'
  BY <1>a, <1>5, CallFields, ReadFields DEF HandleInv, Kinds, Reader, Position, TorrentSteps,
     RemoteSteps, NoRead, Free
<1>11. Body(h)'
  BY <1>a, <1>5, CallFields, ReadFields DEF HandleInv, Kinds, Reader, Body, Target, TorrentSteps,
     RemoteSteps, NoRead, Free
<1>12. QuietInv'
  BY <1>1, <1>a, <1>4, <1>5 DEF QuietInv, Same
<1>13. ReadStep(AsRead(h), AsRead(h)')
  <2>1. AsRead(h)' = AsRead(h)
    BY <1>a, <1>5, CallFields DEF AsRead, HandleInv, Kinds, TorrentSteps, RemoteSteps, Free
  <2> QED BY <2>1 DEF ReadStep
<1> QED BY <1>4, <1>6, <1>7, <1>8, <1>9, <1>10, <1>11, <1>12, <1>13 DEF Keeps, HandleInv

\* The detection raises what it found for a reader that is still there.
LEMMA DetectFormatStep ==
    ASSUME TypeOK, QuietInv, NEW h \in Handles, HandleInv(h), UNCHANGED remoteVars,
           DetectFormat(h)
    PROVE  Keeps(h)
<1>0. CallTyped(call[h]) /\ ReadTyped(read[h]) /\ DOMAIN call = Handles /\ DOMAIN read = Handles
  BY DEF TypeOK
<1> DEFINE c == call[h]
<1>a. detector' \in [Handles -> {"no", "runs", "over"}]
  BY DEF DetectFormat, TypeOK
<1>b. raised' \subseteq Pieces \cup NextPieces /\ (reader[h] \/ raised' = raised)
  <2>1. Moov \subseteq Pieces
    BY TorrentFilesAssumption DEF Pieces
  <2> QED BY <2>1 DEF DetectFormat, SetFormatInfo, TypeOK
<1>1. /\ detector' \in [Handles -> {"no", "runs", "over"}]
      /\ raised' \subseteq Pieces \cup NextPieces
      /\ UNCHANGED <<file, call, calls, reader, at, tracked, seek, read, quiet, body, pos>>
  BY <1>a, <1>b DEF DetectFormat, torrentVars, perHandle, remoteVars
<1>4. \A k \in Handles \ {h} : Same(k)
  BY <1>1 DEF Same, TypeOK
<1>5. /\ file'[h] = file[h]
      /\ call'[h] = call[h]
      /\ reader'[h] = reader[h]
      /\ at'[h] = at[h]
      /\ tracked'[h] = tracked[h]
      /\ read'[h] = read[h]
      /\ body'[h] = body[h]
      /\ pos'[h] = pos[h]
  BY <1>1 DEF TypeOK
<1>6. TypeOK'
  <2>1. \A k \in Handles : CallTyped(call'[k]) /\ ReadTyped(read'[k])
    BY <1>4, <1>5 DEF TypeOK, Same
  <2>2. DOMAIN call' = Handles /\ DOMAIN read' = Handles /\ DOMAIN body' = Handles
    BY <1>1 DEF TypeOK
  <2>3. /\ file' \in [Handles -> {"none", "torrent", "remote"}] /\ reader' \in [Handles -> BOOLEAN]
        /\ at' \in [Handles -> Offsets] /\ tracked' \in [Handles -> Int] /\ seek' \in [Handles -> Int]
        /\ pos' \in [Handles -> Int]
    BY <1>1, <1>b DEF TypeOK, Offsets
  <2>4. /\ detector' \in [Handles -> {"no", "runs", "over"}] /\ quiet' \in BOOLEAN
        /\ raised' \subseteq Pieces \cup NextPieces /\ calls' \in 0..MaxCalls
    BY <1>1, <1>b DEF TypeOK
  <2> QED BY <2>1, <2>2, <2>3, <2>4 DEF TypeOK
<1>7. Kinds(h)'
  BY <1>b, <1>5, CallFields, ReadFields
     DEF HandleInv, Kinds, Reader, TorrentSteps, RemoteSteps, NoRead, Free
<1>8. Bytes(h)'
  BY <1>b, <1>5, CallFields, ReadFields DEF HandleInv, Kinds, Reader, Bytes, Offsets,
     TorrentSteps, RemoteSteps, NoRead, Free
<1>9. Reader(h)'
  BY <1>b, <1>5, CallFields, ReadFields
     DEF HandleInv, Kinds, Reader, TorrentSteps, RemoteSteps, NoRead, Free
<1>10. Position(h)'
  BY <1>b, <1>5, CallFields, ReadFields DEF HandleInv, Kinds, Reader, Position, TorrentSteps,
     RemoteSteps, NoRead, Free
<1>11. Body(h)'
  BY <1>b, <1>5, CallFields, ReadFields DEF HandleInv, Kinds, Reader, Body, Target, TorrentSteps,
     RemoteSteps, NoRead, Free
<1>12. QuietInv'
  BY <1>1, <1>b, <1>4, <1>5 DEF QuietInv, Same
<1>13. ReadStep(AsRead(h), AsRead(h)')
  <2>1. AsRead(h)' = AsRead(h)
    BY <1>b, <1>5, CallFields DEF AsRead, HandleInv, Kinds, TorrentSteps, RemoteSteps, Free
  <2> QED BY <2>1 DEF ReadStep
<1> QED BY <1>4, <1>6, <1>7, <1>8, <1>9, <1>10, <1>11, <1>12, <1>13 DEF Keeps, HandleInv

\* Remote files.
LEMMA RemoteReadAtStep ==
    ASSUME TypeOK, QuietInv, NEW h \in Handles, HandleInv(h), UNCHANGED torrentVars,
           NEW off, NEW want, <<off, want>> \in Asks, RemoteReadAt(h, off, want)
    PROVE  Keeps(h)
<1>0. CallTyped(call[h]) /\ ReadTyped(read[h]) /\ DOMAIN call = Handles /\ DOMAIN read = Handles
  BY DEF TypeOK
<1> DEFINE c == call[h]
<1>a. /\ off \in Offsets /\ want \in Nat \ {0}
      /\ file[h] = "remote" /\ c.at \in {"idle", "returned"} /\ calls < MaxCalls
  BY ReadCallsAssumption DEF RemoteReadAt, Ready, Begins, Offsets
<1>c. calls + 1 \in 0..MaxCalls
  BY <1>a, ReadCallsAssumption DEF TypeOK
<1> DEFINE l == [at |-> "finds", off |-> off, want |-> want, got |-> <<>>, again |-> FALSE]
<1>1. /\ calls' = calls + 1
      /\ call' = [call EXCEPT ![h] = l]
      /\ UNCHANGED <<file, reader, at, tracked, seek, read, detector, raised, quiet, body, pos>>
  BY <1>0 DEF RemoteReadAt, Begins, torrentVars, perHandle, remoteVars
<1>2. /\ CallTyped(l)
      /\ l.at = ("finds")
      /\ l.off = off /\ l.want = want /\ l.got = <<>> /\ l.again = FALSE
      /\ l.got = FileRead!BytesFrom(off, Len(l.got)) /\ Len(l.got) = 0
  <2>1. <<>> \in Seq(Int) /\ Len(<<>>) = 0
    OBVIOUS
  <2>2. <<>> = FileRead!BytesFrom(off, 0)
    BY <1>a, NoBytes DEF Offsets
  <2> QED BY <1>a, <2>2 DEF CallTyped, OpenCall, TorrentSteps, RemoteSteps
<1> HIDE DEF l
<1>4. \A k \in Handles \ {h} : Same(k)
  BY <1>1 DEF Same, TypeOK
<1>5. /\ file'[h] = file[h]
      /\ call'[h] = l
      /\ reader'[h] = reader[h]
      /\ at'[h] = at[h]
      /\ tracked'[h] = tracked[h]
      /\ read'[h] = read[h]
      /\ body'[h] = body[h]
      /\ pos'[h] = pos[h]
  BY <1>1 DEF TypeOK
<1>6. TypeOK'
  <2>1. \A k \in Handles : CallTyped(call'[k]) /\ ReadTyped(read'[k])
    BY <1>2, <1>4, <1>5 DEF TypeOK, Same
  <2>2. DOMAIN call' = Handles /\ DOMAIN read' = Handles /\ DOMAIN body' = Handles
    BY <1>1 DEF TypeOK
  <2>3. /\ file' \in [Handles -> {"none", "torrent", "remote"}] /\ reader' \in [Handles -> BOOLEAN]
        /\ at' \in [Handles -> Offsets] /\ tracked' \in [Handles -> Int] /\ seek' \in [Handles -> Int]
        /\ pos' \in [Handles -> Int]
    BY <1>1, <1>a, <1>c DEF TypeOK, Offsets
  <2>4. /\ detector' \in [Handles -> {"no", "runs", "over"}] /\ quiet' \in BOOLEAN
        /\ raised' \subseteq Pieces \cup NextPieces /\ calls' \in 0..MaxCalls
    BY <1>1, <1>a, <1>c DEF TypeOK
  <2> QED BY <2>1, <2>2, <2>3, <2>4 DEF TypeOK
<1>7. Kinds(h)'
  BY <1>2, <1>a, <1>c, <1>5, CallFields, ReadFields
     DEF HandleInv, Kinds, Reader, TorrentSteps, RemoteSteps, NoRead, Free
<1>8. Bytes(h)'
  BY <1>2, <1>a, <1>c, <1>5, CallFields, ReadFields DEF HandleInv, Kinds, Reader, Bytes, Offsets,
     TorrentSteps, RemoteSteps, NoRead, Free
<1>9. Reader(h)'
  BY <1>a, <1>c, <1>5, CallFields, ReadFields
     DEF HandleInv, Kinds, Reader, TorrentSteps, RemoteSteps, NoRead, Free
<1>10. Position(h)'
  BY <1>a, <1>c, <1>5, CallFields, ReadFields DEF HandleInv, Kinds, Reader, Position,
     TorrentSteps, RemoteSteps, NoRead, Free
<1>11. Body(h)'
  BY <1>2, <1>a, <1>c, <1>5, CallFields, ReadFields DEF HandleInv, Kinds, Reader, Body, Target,
     TorrentSteps, RemoteSteps, NoRead, Free
<1>12. QuietInv'
  BY <1>1, <1>a, <1>c, <1>4, <1>5 DEF QuietInv, Same
<1>13. ReadStep(AsRead(h), AsRead(h)')
  <2>1. AsRead(h) = c
    BY <1>a, <1>c, <1>5 DEF AsRead
  <2>2. AsRead(h)' = FileRead!Asked(off, want, <<>>)
    BY <1>2, <1>a, <1>c, <1>5 DEF AsRead, FileRead!Asked
  <2>3. <<off, want>>[1] = off /\ <<off, want>>[2] = want
    OBVIOUS
  <2>4. \E ask \in Asks : AsRead(h)' = FileRead!Asked(ask[1], ask[2], <<>>)
    BY <2>2, <2>3
  <2> QED BY <1>a, <2>1, <2>4 DEF ReadStep
<1> QED BY <1>4, <1>6, <1>7, <1>8, <1>9, <1>10, <1>11, <1>12, <1>13 DEF Keeps, HandleInv

LEMMA PastEndStep ==
    ASSUME TypeOK, QuietInv, NEW h \in Handles, HandleInv(h), UNCHANGED torrentVars, PastEnd(h)
    PROVE  Keeps(h)
<1>0. CallTyped(call[h]) /\ ReadTyped(read[h]) /\ DOMAIN call = Handles /\ DOMAIN read = Handles
  BY DEF TypeOK
<1> DEFINE c == call[h]
<1>a. file[h] = "remote" /\ c.at = "finds" /\ c.off >= Size
  BY DEF PastEnd
<1>o. c \in OpenCall
  BY <1>0, <1>a, CallFields DEF TorrentSteps, RemoteSteps
<1>c. c.off \in Nat /\ c.want \in Nat \ {0} /\ c.got \in Seq(Int) /\ Len(c.got) \in Nat /\ Size \in Nat
  BY <1>o, ReadCallsAssumption DEF OpenCall, Offsets
<1>d. c.got = FileRead!BytesFrom(c.off, Len(c.got)) /\ Len(c.got) <= c.want /\ c.off + Len(c.got) <= Size
  BY <1>a DEF HandleInv, Bytes, RemoteSteps
<1> DEFINE l == [at |-> "returned", off |-> c.off, want |-> c.want, got |-> <<>>,
                result |-> "eof"]
<1>1. /\ call' = [call EXCEPT ![h] = l]
      /\ UNCHANGED <<file, calls, reader, at, tracked, seek, read, detector, raised, quiet, body, pos>>
  BY <1>0 DEF PastEnd, Returns, torrentVars, perHandle, remoteVars
<1>2. /\ CallTyped(l)
      /\ l.at = "returned" /\ l.off = c.off /\ l.want = c.want /\ l.got = <<>> /\ l.result = "eof"
      /\ l = FileRead!Returned(c.off, c.want, <<>>, l.result)
      /\ l.got = FileRead!BytesFrom(c.off, Len(l.got)) /\ Len(l.got) = 0 /\ c.off = Size
  <2>1. <<>> \in Seq(Int) /\ Len(<<>>) = 0
    OBVIOUS
  <2>2. <<>> = FileRead!BytesFrom(c.off, 0)
    BY <1>c, NoBytes
  <2>3. c.off = Size
    BY <1>a, <1>c, <1>d
  <2> QED BY <1>o, <2>2, <2>3 DEF FileRead!Returned, CallTyped, OpenCall, OverCall
<1> HIDE DEF l
<1>4. \A k \in Handles \ {h} : Same(k)
  BY <1>1 DEF Same, TypeOK
<1>5. /\ file'[h] = file[h]
      /\ call'[h] = l
      /\ reader'[h] = reader[h]
      /\ at'[h] = at[h]
      /\ tracked'[h] = tracked[h]
      /\ read'[h] = read[h]
      /\ body'[h] = body[h]
      /\ pos'[h] = pos[h]
  BY <1>1 DEF TypeOK
<1>6. TypeOK'
  <2>1. \A k \in Handles : CallTyped(call'[k]) /\ ReadTyped(read'[k])
    BY <1>2, <1>4, <1>5 DEF TypeOK, Same
  <2>2. DOMAIN call' = Handles /\ DOMAIN read' = Handles /\ DOMAIN body' = Handles
    BY <1>1 DEF TypeOK
  <2>3. /\ file' \in [Handles -> {"none", "torrent", "remote"}] /\ reader' \in [Handles -> BOOLEAN]
        /\ at' \in [Handles -> Offsets] /\ tracked' \in [Handles -> Int] /\ seek' \in [Handles -> Int]
        /\ pos' \in [Handles -> Int]
    BY <1>1, <1>a, <1>o, <1>c, <1>d DEF TypeOK, Offsets
  <2>4. /\ detector' \in [Handles -> {"no", "runs", "over"}] /\ quiet' \in BOOLEAN
        /\ raised' \subseteq Pieces \cup NextPieces /\ calls' \in 0..MaxCalls
    BY <1>1, <1>a, <1>o, <1>c, <1>d DEF TypeOK
  <2> QED BY <2>1, <2>2, <2>3, <2>4 DEF TypeOK
<1>7. Kinds(h)'
  BY <1>2, <1>a, <1>o, <1>c, <1>d, <1>5, CallFields, ReadFields
     DEF HandleInv, Kinds, Reader, TorrentSteps, RemoteSteps, NoRead, Free
<1>8. Bytes(h)'
  BY <1>2, <1>a, <1>o, <1>c, <1>d, <1>5, CallFields, ReadFields DEF HandleInv, Kinds, Reader,
     Bytes, Offsets, TorrentSteps, RemoteSteps, NoRead, Free
<1>9. Reader(h)'
  BY <1>a, <1>o, <1>c, <1>d, <1>5, CallFields, ReadFields
     DEF HandleInv, Kinds, Reader, TorrentSteps, RemoteSteps, NoRead, Free
<1>10. Position(h)'
  BY <1>a, <1>o, <1>c, <1>d, <1>5, CallFields, ReadFields DEF HandleInv, Kinds, Reader, Position,
     TorrentSteps, RemoteSteps, NoRead, Free
<1>11. Body(h)'
  BY <1>2, <1>a, <1>o, <1>c, <1>d, <1>5, CallFields, ReadFields DEF HandleInv, Kinds, Reader,
     Body, Target, TorrentSteps, RemoteSteps, NoRead, Free
<1>12. QuietInv'
  BY <1>1, <1>a, <1>o, <1>c, <1>d, <1>4, <1>5 DEF QuietInv, Same
<1>13. ReadStep(AsRead(h), AsRead(h)')
  <2>1. AsRead(h) = [at |-> "asked", off |-> c.off, want |-> c.want, got |-> c.got]
    BY <1>a, <1>o, <1>c, <1>d, <1>5 DEF AsRead, TorrentSteps, RemoteSteps
  <2>2. AsRead(h)' = FileRead!Returned(c.off, c.want, <<>>, l.result)
    BY <1>2, <1>a, <1>o, <1>c, <1>d, <1>5 DEF AsRead
  <2>3. <<>> \in FileRead!More(AsRead(h))
    <3>1. Len(c.got) = 0
      BY <1>2, <1>c, <1>d
    <3> QED BY <2>1, <3>1, <1>2, <1>c, MoreBytes
  <2>4. /\ l.result \in {"ok", "eof", "error"}
        /\ l.result = "ok" => Len(<<>>) = c.want
        /\ l.result = "eof" => c.off + Len(<<>>) = Size
    BY <1>2, <1>a, <1>o, <1>c, <1>d, <1>5
  <2> DEFINE v == AsRead(h)
  <2>5. v.at = "asked" /\ v.off = c.off /\ v.want = c.want
    BY <2>1
  <2> QED BY <2>2, <2>3, <2>4, <2>5 DEF ReadStep
<1> QED BY <1>4, <1>6, <1>7, <1>8, <1>9, <1>10, <1>11, <1>12, <1>13 DEF Keeps, HandleInv

LEMMA ReachesStep ==
    ASSUME TypeOK, QuietInv, NEW h \in Handles, HandleInv(h), UNCHANGED torrentVars,
           Reaches(h) \/ Reopens(h), RemoteSeek(h)
    PROVE  Keeps(h)
<1>0. CallTyped(call[h]) /\ ReadTyped(read[h]) /\ DOMAIN call = Handles /\ DOMAIN read = Handles
  BY DEF TypeOK
<1> DEFINE c == call[h]
<1>a. file[h] = "remote" /\ c.at = "finds" /\ c.off < Size
  BY DEF RemoteSeek
<1>o. c \in OpenCall
  BY <1>0, <1>a, CallFields DEF TorrentSteps, RemoteSteps
<1>c. c.off \in Nat /\ c.want \in Nat \ {0} /\ c.got \in Seq(Int) /\ Len(c.got) \in Nat /\ Size \in Nat
  BY <1>o, ReadCallsAssumption DEF OpenCall, Offsets
<1>d. c.got = FileRead!BytesFrom(c.off, Len(c.got)) /\ Len(c.got) <= c.want /\ c.off + Len(c.got) <= Size
  BY <1>a DEF HandleInv, Bytes, RemoteSteps
<1>b. pos' = [pos EXCEPT ![h] = Target(h)] /\ body' = [body EXCEPT ![h] = Target(h)]
  <2>1. CASE Reaches(h)
    <3>1. body[h] = pos[h]
      BY <2>1 DEF Reaches, HandleInv, Body
    <3> QED BY <2>1, <3>1 DEF Reaches, TypeOK
  <2>2. CASE Reopens(h)
    BY <2>2 DEF Reopens
  <2> QED BY <2>1, <2>2
<1>e. call' = [call EXCEPT ![h] = [c EXCEPT !.at = "takes"]]
  BY <1>0 DEF Reaches, Reopens
<1>f. Target(h) = c.off + Len(c.got)
  BY DEF Target
<1> DEFINE l == [c EXCEPT !.at = "takes"]
<1>1. /\ pos' = [pos EXCEPT ![h] = Target(h)]
      /\ body' = [body EXCEPT ![h] = Target(h)]
      /\ call' = [call EXCEPT ![h] = l]
      /\ UNCHANGED <<file, calls, reader, at, tracked, seek, read, detector, raised, quiet>>
  BY <1>b, <1>e DEF RemoteSeek, torrentVars, perHandle, remoteVars
<1>2. /\ CallTyped(l)
      /\ l.at = "takes" /\ l.off = c.off /\ l.want = c.want /\ l.got = c.got
  BY <1>o DEF CallTyped, OpenCall, RemoteSteps
<1> HIDE DEF l
<1>4. \A k \in Handles \ {h} : Same(k)
  BY <1>1 DEF Same, TypeOK
<1>5. /\ file'[h] = file[h]
      /\ call'[h] = l
      /\ reader'[h] = reader[h]
      /\ at'[h] = at[h]
      /\ tracked'[h] = tracked[h]
      /\ read'[h] = read[h]
      /\ body'[h] = Target(h)
      /\ pos'[h] = Target(h)
  BY <1>1 DEF TypeOK
<1>6. TypeOK'
  <2>1. \A k \in Handles : CallTyped(call'[k]) /\ ReadTyped(read'[k])
    BY <1>2, <1>4, <1>5 DEF TypeOK, Same
  <2>2. DOMAIN call' = Handles /\ DOMAIN read' = Handles /\ DOMAIN body' = Handles
    BY <1>1 DEF TypeOK
  <2>3. /\ file' \in [Handles -> {"none", "torrent", "remote"}] /\ reader' \in [Handles -> BOOLEAN]
        /\ at' \in [Handles -> Offsets] /\ tracked' \in [Handles -> Int] /\ seek' \in [Handles -> Int]
        /\ pos' \in [Handles -> Int]
    BY <1>1, <1>a, <1>o, <1>c, <1>d, <1>b, <1>e, <1>f DEF TypeOK, Offsets
  <2>4. /\ detector' \in [Handles -> {"no", "runs", "over"}] /\ quiet' \in BOOLEAN
        /\ raised' \subseteq Pieces \cup NextPieces /\ calls' \in 0..MaxCalls
    BY <1>1, <1>a, <1>o, <1>c, <1>d, <1>b, <1>e, <1>f DEF TypeOK
  <2> QED BY <2>1, <2>2, <2>3, <2>4 DEF TypeOK
<1>7. Kinds(h)'
  BY <1>a, <1>o, <1>c, <1>d, <1>b, <1>e, <1>f, <1>5, CallFields, ReadFields
     DEF HandleInv, Kinds, Reader, TorrentSteps, RemoteSteps, NoRead, Free
<1>8. Bytes(h)'
  BY <1>a, <1>o, <1>c, <1>d, <1>b, <1>e, <1>f, <1>5, CallFields, ReadFields DEF HandleInv, Kinds,
     Reader, Bytes, Offsets, TorrentSteps, RemoteSteps, NoRead, Free
<1>9. Reader(h)'
  BY <1>a, <1>o, <1>c, <1>d, <1>b, <1>e, <1>f, <1>5, CallFields, ReadFields
     DEF HandleInv, Kinds, Reader, TorrentSteps, RemoteSteps, NoRead, Free
<1>10. Position(h)'
  BY <1>a, <1>o, <1>c, <1>d, <1>b, <1>e, <1>f, <1>5, CallFields, ReadFields DEF HandleInv, Kinds,
     Reader, Position, TorrentSteps, RemoteSteps, NoRead, Free
<1>11. Body(h)'
  BY <1>a, <1>o, <1>c, <1>d, <1>b, <1>e, <1>f, <1>5, CallFields, ReadFields DEF HandleInv, Kinds,
     Reader, Body, Target, TorrentSteps, RemoteSteps, NoRead, Free
<1>12. QuietInv'
  BY <1>1, <1>a, <1>o, <1>c, <1>d, <1>b, <1>e, <1>f, <1>4, <1>5 DEF QuietInv, Same
<1>13. ReadStep(AsRead(h), AsRead(h)')
  <2>1. AsRead(h)' = AsRead(h)
    BY <1>a, <1>o, <1>c, <1>d, <1>b, <1>e, <1>f, <1>5, CallFields
       DEF AsRead, HandleInv, Kinds, TorrentSteps, RemoteSteps, Free
  <2> QED BY <2>1 DEF ReadStep
<1> QED BY <1>4, <1>6, <1>7, <1>8, <1>9, <1>10, <1>11, <1>12, <1>13 DEF Keeps, HandleInv

LEMMA OpenFailsStep ==
    ASSUME TypeOK, QuietInv, NEW h \in Handles, HandleInv(h), UNCHANGED torrentVars,
           OpenFails(h), RemoteSeek(h)
    PROVE  Keeps(h)
<1>0. CallTyped(call[h]) /\ ReadTyped(read[h]) /\ DOMAIN call = Handles /\ DOMAIN read = Handles
  BY DEF TypeOK
<1> DEFINE c == call[h]
<1>a. file[h] = "remote" /\ c.at = "finds" /\ c.off < Size
  BY DEF RemoteSeek
<1>o. c \in OpenCall
  BY <1>0, <1>a, CallFields DEF TorrentSteps, RemoteSteps
<1>c. c.off \in Nat /\ c.want \in Nat \ {0} /\ c.got \in Seq(Int) /\ Len(c.got) \in Nat /\ Size \in Nat
  BY <1>o, ReadCallsAssumption DEF OpenCall, Offsets
<1>d. c.got = FileRead!BytesFrom(c.off, Len(c.got)) /\ Len(c.got) <= c.want /\ c.off + Len(c.got) <= Size
  BY <1>a DEF HandleInv, Bytes, RemoteSteps
<1>b. PICK n \in Skips(h) : pos' = [pos EXCEPT ![h] = IF body[h] = NoBody THEN @ ELSE @ + n]
  BY DEF OpenFails
<1> DEFINE e == IF body[h] = NoBody THEN pos[h] ELSE pos[h] + n
<1>e. pos' = [pos EXCEPT ![h] = e] /\ e \in Int
  <2>1. Skips(h) \subseteq Int /\ pos[h] \in Int
    BY DEF Skips, TypeOK
  <2> QED BY <1>b, <2>1 DEF TypeOK
<1> HIDE DEF e
<1> DEFINE l == [at |-> "returned", off |-> c.off, want |-> c.want, got |-> c.got,
                result |-> "error"]
<1>1. /\ body' = [body EXCEPT ![h] = NoBody]
      /\ pos' = [pos EXCEPT ![h] = e]
      /\ call' = [call EXCEPT ![h] = l]
      /\ UNCHANGED <<file, calls, reader, at, tracked, seek, read, detector, raised, quiet>>
  BY <1>e DEF RemoteSeek, OpenFails, Returns, torrentVars, perHandle, remoteVars
<1>2. /\ CallTyped(l)
      /\ l.at = "returned" /\ l.off = c.off /\ l.want = c.want /\ l.got = c.got /\ l.result = "error"
      /\ l = FileRead!Returned(c.off, c.want, c.got, l.result)
  BY <1>o DEF FileRead!Returned, CallTyped, OverCall, OpenCall
<1> HIDE DEF l
<1>4. \A k \in Handles \ {h} : Same(k)
  BY <1>1 DEF Same, TypeOK
<1>5. /\ file'[h] = file[h]
      /\ call'[h] = l
      /\ reader'[h] = reader[h]
      /\ at'[h] = at[h]
      /\ tracked'[h] = tracked[h]
      /\ read'[h] = read[h]
      /\ body'[h] = NoBody
      /\ pos'[h] = e
  BY <1>1 DEF TypeOK
<1>6. TypeOK'
  <2>1. \A k \in Handles : CallTyped(call'[k]) /\ ReadTyped(read'[k])
    BY <1>2, <1>4, <1>5 DEF TypeOK, Same
  <2>2. DOMAIN call' = Handles /\ DOMAIN read' = Handles /\ DOMAIN body' = Handles
    BY <1>1 DEF TypeOK
  <2>3. /\ file' \in [Handles -> {"none", "torrent", "remote"}] /\ reader' \in [Handles -> BOOLEAN]
        /\ at' \in [Handles -> Offsets] /\ tracked' \in [Handles -> Int] /\ seek' \in [Handles -> Int]
        /\ pos' \in [Handles -> Int]
    BY <1>1, <1>a, <1>o, <1>c, <1>d, <1>b, <1>e DEF TypeOK, Offsets
  <2>4. /\ detector' \in [Handles -> {"no", "runs", "over"}] /\ quiet' \in BOOLEAN
        /\ raised' \subseteq Pieces \cup NextPieces /\ calls' \in 0..MaxCalls
    BY <1>1, <1>a, <1>o, <1>c, <1>d, <1>b, <1>e DEF TypeOK
  <2> QED BY <2>1, <2>2, <2>3, <2>4 DEF TypeOK
<1>7. Kinds(h)'
  BY <1>2, <1>a, <1>o, <1>c, <1>d, <1>b, <1>e, <1>5, CallFields, ReadFields
     DEF HandleInv, Kinds, Reader, TorrentSteps, RemoteSteps, NoRead, Free
<1>8. Bytes(h)'
  BY <1>2, <1>a, <1>o, <1>c, <1>d, <1>b, <1>e, <1>5, CallFields, ReadFields DEF HandleInv, Kinds,
     Reader, Bytes, Offsets, TorrentSteps, RemoteSteps, NoRead, Free
<1>9. Reader(h)'
  BY <1>a, <1>o, <1>c, <1>d, <1>b, <1>e, <1>5, CallFields, ReadFields
     DEF HandleInv, Kinds, Reader, TorrentSteps, RemoteSteps, NoRead, Free
<1>10. Position(h)'
  BY <1>a, <1>o, <1>c, <1>d, <1>b, <1>e, <1>5, CallFields, ReadFields DEF HandleInv, Kinds,
     Reader, Position, TorrentSteps, RemoteSteps, NoRead, Free
<1>11. Body(h)'
  BY <1>2, <1>a, <1>o, <1>c, <1>d, <1>b, <1>e, <1>5, CallFields, ReadFields DEF HandleInv, Kinds,
     Reader, Body, Target, TorrentSteps, RemoteSteps, NoRead, Free
<1>12. QuietInv'
  BY <1>1, <1>a, <1>o, <1>c, <1>d, <1>b, <1>e, <1>4, <1>5 DEF QuietInv, Same
<1>13. ReadStep(AsRead(h), AsRead(h)')
  <2>1. AsRead(h) = [at |-> "asked", off |-> c.off, want |-> c.want, got |-> c.got]
    BY <1>a, <1>o, <1>c, <1>d, <1>b, <1>e, <1>5 DEF AsRead, TorrentSteps, RemoteSteps
  <2>2. AsRead(h)' = FileRead!Returned(c.off, c.want, c.got, l.result)
    BY <1>2, <1>a, <1>o, <1>c, <1>d, <1>b, <1>e, <1>5 DEF AsRead
  <2>3. c.got \in FileRead!More(AsRead(h))
    <3>1. c.got \in FileRead!More(AsRead(h))
      BY <2>1, <1>c, <1>d, MoreBytes
    <3> QED BY <3>1
  <2>4. /\ l.result \in {"ok", "eof", "error"}
        /\ l.result = "ok" => Len(c.got) = c.want
        /\ l.result = "eof" => c.off + Len(c.got) = Size
    BY <1>2, <1>a, <1>o, <1>c, <1>d, <1>b, <1>e, <1>5
  <2> DEFINE v == AsRead(h)
  <2>5. v.at = "asked" /\ v.off = c.off /\ v.want = c.want
    BY <2>1
  <2> QED BY <2>2, <2>3, <2>4, <2>5 DEF ReadStep
<1> QED BY <1>4, <1>6, <1>7, <1>8, <1>9, <1>10, <1>11, <1>12, <1>13 DEF Keeps, HandleInv

\* A read of the body ends the call with all there is to have,
LEMMA BodyEndsStep ==
    ASSUME TypeOK, QuietInv, NEW h \in Handles, HandleInv(h), UNCHANGED torrentVars,
           NEW how \in Outcomes,
           NEW n \in 0..(Wanted(h) - Len(call[h].got)),
           file[h] = "remote", call[h].at = "takes", BodyRead(h, n, how),
           Len(BodyGot(h, n)) = Wanted(h),
           ~(how = "breaks" /\ call[h].again), UNCHANGED <<file, calls>>
    PROVE  Keeps(h)
<1>0. CallTyped(call[h]) /\ ReadTyped(read[h]) /\ DOMAIN call = Handles /\ DOMAIN read = Handles
  BY DEF TypeOK
<1> DEFINE c == call[h]
<1>a. file[h] = "remote" /\ c.at = "takes"
  OBVIOUS
<1>o. c \in OpenCall
  BY <1>0, CallFields DEF TorrentSteps, RemoteSteps
<1>c. c.off \in Nat /\ c.want \in Nat \ {0}
  BY <1>o DEF OpenCall, Offsets
<1> DEFINE w == Wanted(h)
           got == BodyGot(h, n)
<1>g. /\ got \in Seq(Int) /\ Len(got) \in Nat /\ Len(c.got) <= Len(got) /\ Len(got) <= c.want
      /\ c.off + Len(got) <= Size /\ got = FileRead!BytesFrom(c.off, Len(got)) /\ c.got \in Seq(Int)
      /\ body[h] + n = c.off + Len(got) /\ pos[h] + n = c.off + Len(got) /\ pos[h] + n \in Int
  BY BodyBytes
<1>e. w \in Nat /\ (w < c.want => c.off + w = Size) /\ w <= c.want
  BY BodyBytes
<1> HIDE DEF w, got
<1>j. Len(got) = w
  BY DEF got, w
<1> DEFINE b == IF how = "flows" THEN body[h] + n ELSE NoBody
<1> DEFINE l == [at |-> "returned", off |-> c.off, want |-> c.want, got |-> got,
                result |-> IF Len(got) < c.want THEN "eof" ELSE "ok"]
<1>1. /\ pos' = [pos EXCEPT ![h] = pos[h] + n]
      /\ body' = [body EXCEPT ![h] = b]
      /\ call' = [call EXCEPT ![h] = l]
      /\ UNCHANGED <<file, calls, reader, at, tracked, seek, read, detector, raised, quiet>>
  BY <1>j DEF BodyRead, Returns, BodyGot, got, w, torrentVars, perHandle, remoteVars
<1>2. /\ CallTyped(l)
      /\ l.at = "returned" /\ l.off = c.off /\ l.want = c.want /\ l.got = got
      /\ l.result \in {"ok", "eof", "error"}
      /\ l.result = "ok" => Len(got) = c.want
      /\ l.result = "eof" => c.off + Len(got) = Size
      /\ l = FileRead!Returned(c.off, c.want, got, l.result)
  BY <1>e, <1>g, <1>j, <1>o DEF FileRead!Returned, CallTyped, OverCall, OpenCall
<1> HIDE DEF l
<1>4. \A k \in Handles \ {h} : Same(k)
  BY <1>1 DEF Same, TypeOK
<1>5. /\ file'[h] = file[h]
      /\ call'[h] = l
      /\ reader'[h] = reader[h]
      /\ at'[h] = at[h]
      /\ tracked'[h] = tracked[h]
      /\ read'[h] = read[h]
      /\ body'[h] = b
      /\ pos'[h] = pos[h] + n
  BY <1>1 DEF TypeOK
<1>6. TypeOK'
  <2>1. \A k \in Handles : CallTyped(call'[k]) /\ ReadTyped(read'[k])
    BY <1>2, <1>4, <1>5 DEF TypeOK, Same
  <2>2. DOMAIN call' = Handles /\ DOMAIN read' = Handles /\ DOMAIN body' = Handles
    BY <1>1 DEF TypeOK
  <2>3. /\ file' \in [Handles -> {"none", "torrent", "remote"}] /\ reader' \in [Handles -> BOOLEAN]
        /\ at' \in [Handles -> Offsets] /\ tracked' \in [Handles -> Int] /\ seek' \in [Handles -> Int]
        /\ pos' \in [Handles -> Int]
    BY <1>1, <1>a, <1>o, <1>c, <1>g, <1>e, <1>j DEF TypeOK, Offsets
  <2>4. /\ detector' \in [Handles -> {"no", "runs", "over"}] /\ quiet' \in BOOLEAN
        /\ raised' \subseteq Pieces \cup NextPieces /\ calls' \in 0..MaxCalls
    BY <1>1, <1>a, <1>o, <1>c, <1>g, <1>e, <1>j DEF TypeOK
  <2> QED BY <2>1, <2>2, <2>3, <2>4 DEF TypeOK
<1>7. Kinds(h)'
  BY <1>2, <1>a, <1>o, <1>c, <1>g, <1>e, <1>j, <1>5, CallFields, ReadFields
     DEF HandleInv, Kinds, Reader, TorrentSteps, RemoteSteps, NoRead, Free
<1>8. Bytes(h)'
  BY <1>2, <1>a, <1>o, <1>c, <1>g, <1>e, <1>j, <1>5, CallFields, ReadFields DEF HandleInv, Kinds,
     Reader, Bytes, Offsets, TorrentSteps, RemoteSteps, NoRead, Free
<1>9. Reader(h)'
  BY <1>a, <1>o, <1>c, <1>g, <1>e, <1>j, <1>5, CallFields, ReadFields
     DEF HandleInv, Kinds, Reader, TorrentSteps, RemoteSteps, NoRead, Free
<1>10. Position(h)'
  BY <1>a, <1>o, <1>c, <1>g, <1>e, <1>j, <1>5, CallFields, ReadFields DEF HandleInv, Kinds,
     Reader, Position, TorrentSteps, RemoteSteps, NoRead, Free
<1>11. Body(h)'
  BY <1>1, <1>2, <1>a, <1>o, <1>c, <1>g, <1>e, <1>j, <1>5, CallFields, ReadFields DEF HandleInv,
     Kinds, Reader, Body, Target, TorrentSteps, RemoteSteps, NoRead, Free
<1>12. QuietInv'
  BY <1>1, <1>a, <1>o, <1>c, <1>g, <1>e, <1>j, <1>4, <1>5 DEF QuietInv, Same
<1>13. ReadStep(AsRead(h), AsRead(h)')
  <2>1. AsRead(h) = [at |-> "asked", off |-> c.off, want |-> c.want, got |-> c.got]
    BY <1>a, <1>o, <1>c, <1>g, <1>e, <1>j, <1>5 DEF AsRead, TorrentSteps, RemoteSteps
  <2>2. AsRead(h)' = FileRead!Returned(c.off, c.want, got, l.result)
    BY <1>2, <1>a, <1>o, <1>c, <1>g, <1>e, <1>j, <1>5 DEF AsRead
  <2>3. got \in FileRead!More(AsRead(h))
    BY <2>1, <1>c, <1>g, MoreBytes
  <2>4. /\ l.result \in {"ok", "eof", "error"}
        /\ l.result = "ok" => Len(got) = c.want
        /\ l.result = "eof" => c.off + Len(got) = Size
    BY <1>2, <1>a, <1>o, <1>c, <1>g, <1>e, <1>j, <1>5
  <2> DEFINE v == AsRead(h)
  <2>5. v.at = "asked" /\ v.off = c.off /\ v.want = c.want
    BY <2>1
  <2> QED BY <2>2, <2>3, <2>4, <2>5 DEF ReadStep
<1> QED BY <1>4, <1>6, <1>7, <1>8, <1>9, <1>10, <1>11, <1>12, <1>13 DEF Keeps, HandleInv

\* with an error,
LEMMA BodyFailsStep ==
    ASSUME TypeOK, QuietInv, NEW h \in Handles, HandleInv(h), UNCHANGED torrentVars,
           NEW how \in Outcomes,
           NEW n \in 0..(Wanted(h) - Len(call[h].got)),
           file[h] = "remote", call[h].at = "takes", BodyRead(h, n, how),
           ~(Len(BodyGot(h, n)) = Wanted(h)
               /\ ~(how = "breaks" /\ call[h].again)),
           call[h].again, UNCHANGED <<file, calls>>
    PROVE  Keeps(h)
<1>0. CallTyped(call[h]) /\ ReadTyped(read[h]) /\ DOMAIN call = Handles /\ DOMAIN read = Handles
  BY DEF TypeOK
<1> DEFINE c == call[h]
<1>a. file[h] = "remote" /\ c.at = "takes"
  OBVIOUS
<1>o. c \in OpenCall
  BY <1>0, CallFields DEF TorrentSteps, RemoteSteps
<1>c. c.off \in Nat /\ c.want \in Nat \ {0}
  BY <1>o DEF OpenCall, Offsets
<1> DEFINE w == Wanted(h)
           got == BodyGot(h, n)
<1>g. /\ got \in Seq(Int) /\ Len(got) \in Nat /\ Len(c.got) <= Len(got) /\ Len(got) <= c.want
      /\ c.off + Len(got) <= Size /\ got = FileRead!BytesFrom(c.off, Len(got)) /\ c.got \in Seq(Int)
      /\ body[h] + n = c.off + Len(got) /\ pos[h] + n = c.off + Len(got) /\ pos[h] + n \in Int
  BY BodyBytes
<1>e. w \in Nat /\ (w < c.want => c.off + w = Size) /\ w <= c.want
  BY BodyBytes
<1> HIDE DEF w, got
<1> DEFINE b == IF how = "flows" THEN body[h] + n ELSE NoBody
<1> DEFINE l == [at |-> "returned", off |-> c.off, want |-> c.want, got |-> got,
                result |-> "error"]
<1>1. /\ pos' = [pos EXCEPT ![h] = pos[h] + n]
      /\ body' = [body EXCEPT ![h] = b]
      /\ call' = [call EXCEPT ![h] = l]
      /\ UNCHANGED <<file, calls, reader, at, tracked, seek, read, detector, raised, quiet>>
  BY <1>0 DEF BodyRead, Returns, BodyGot, got, w, torrentVars, perHandle, remoteVars
<1>2. /\ CallTyped(l)
      /\ l.at = "returned" /\ l.off = c.off /\ l.want = c.want /\ l.got = got /\ l.result = "error"
      /\ l = FileRead!Returned(c.off, c.want, got, l.result)
  BY <1>g, <1>o DEF FileRead!Returned, CallTyped, OverCall, OpenCall
<1> HIDE DEF l
<1>4. \A k \in Handles \ {h} : Same(k)
  BY <1>1 DEF Same, TypeOK
<1>5. /\ file'[h] = file[h]
      /\ call'[h] = l
      /\ reader'[h] = reader[h]
      /\ at'[h] = at[h]
      /\ tracked'[h] = tracked[h]
      /\ read'[h] = read[h]
      /\ body'[h] = b
      /\ pos'[h] = pos[h] + n
  BY <1>1 DEF TypeOK
<1>6. TypeOK'
  <2>1. \A k \in Handles : CallTyped(call'[k]) /\ ReadTyped(read'[k])
    BY <1>2, <1>4, <1>5 DEF TypeOK, Same
  <2>2. DOMAIN call' = Handles /\ DOMAIN read' = Handles /\ DOMAIN body' = Handles
    BY <1>1 DEF TypeOK
  <2>3. /\ file' \in [Handles -> {"none", "torrent", "remote"}] /\ reader' \in [Handles -> BOOLEAN]
        /\ at' \in [Handles -> Offsets] /\ tracked' \in [Handles -> Int] /\ seek' \in [Handles -> Int]
        /\ pos' \in [Handles -> Int]
    BY <1>1, <1>a, <1>o, <1>c, <1>g, <1>e DEF TypeOK, Offsets
  <2>4. /\ detector' \in [Handles -> {"no", "runs", "over"}] /\ quiet' \in BOOLEAN
        /\ raised' \subseteq Pieces \cup NextPieces /\ calls' \in 0..MaxCalls
    BY <1>1, <1>a, <1>o, <1>c, <1>g, <1>e DEF TypeOK
  <2> QED BY <2>1, <2>2, <2>3, <2>4 DEF TypeOK
<1>7. Kinds(h)'
  BY <1>2, <1>a, <1>o, <1>c, <1>g, <1>e, <1>5, CallFields, ReadFields
     DEF HandleInv, Kinds, Reader, TorrentSteps, RemoteSteps, NoRead, Free
<1>8. Bytes(h)'
  BY <1>2, <1>a, <1>o, <1>c, <1>g, <1>e, <1>5, CallFields, ReadFields DEF HandleInv, Kinds,
     Reader, Bytes, Offsets, TorrentSteps, RemoteSteps, NoRead, Free
<1>9. Reader(h)'
  BY <1>a, <1>o, <1>c, <1>g, <1>e, <1>5, CallFields, ReadFields
     DEF HandleInv, Kinds, Reader, TorrentSteps, RemoteSteps, NoRead, Free
<1>10. Position(h)'
  BY <1>a, <1>o, <1>c, <1>g, <1>e, <1>5, CallFields, ReadFields DEF HandleInv, Kinds, Reader,
     Position, TorrentSteps, RemoteSteps, NoRead, Free
<1>11. Body(h)'
  BY <1>2, <1>a, <1>o, <1>c, <1>g, <1>e, <1>5, CallFields, ReadFields DEF HandleInv, Kinds,
     Reader, Body, Target, TorrentSteps, RemoteSteps, NoRead, Free
<1>12. QuietInv'
  BY <1>1, <1>a, <1>o, <1>c, <1>g, <1>e, <1>4, <1>5 DEF QuietInv, Same
<1>13. ReadStep(AsRead(h), AsRead(h)')
  <2>1. AsRead(h) = [at |-> "asked", off |-> c.off, want |-> c.want, got |-> c.got]
    BY <1>a, <1>o, <1>c, <1>g, <1>e, <1>5 DEF AsRead, TorrentSteps, RemoteSteps
  <2>2. AsRead(h)' = FileRead!Returned(c.off, c.want, got, l.result)
    BY <1>2, <1>a, <1>o, <1>c, <1>g, <1>e, <1>5 DEF AsRead
  <2>3. got \in FileRead!More(AsRead(h))
    BY <2>1, <1>c, <1>g, MoreBytes
  <2>4. /\ l.result \in {"ok", "eof", "error"}
        /\ l.result = "ok" => Len(got) = c.want
        /\ l.result = "eof" => c.off + Len(got) = Size
    BY <1>2, <1>a, <1>o, <1>c, <1>g, <1>e, <1>5
  <2> DEFINE v == AsRead(h)
  <2>5. v.at = "asked" /\ v.off = c.off /\ v.want = c.want
    BY <2>1
  <2> QED BY <2>2, <2>3, <2>4, <2>5 DEF ReadStep
<1> QED BY <1>4, <1>6, <1>7, <1>8, <1>9, <1>10, <1>11, <1>12, <1>13 DEF Keeps, HandleInv

\* or goes on with another body where this one stopped.
LEMMA BodyAgainStep ==
    ASSUME TypeOK, QuietInv, NEW h \in Handles, HandleInv(h), UNCHANGED torrentVars,
           NEW how \in Outcomes,
           NEW n \in 0..(Wanted(h) - Len(call[h].got)),
           file[h] = "remote", call[h].at = "takes", BodyRead(h, n, how),
           ~(Len(BodyGot(h, n)) = Wanted(h)
               /\ ~(how = "breaks" /\ call[h].again)),
           ~call[h].again, UNCHANGED <<file, calls>>
    PROVE  Keeps(h)
<1>0. CallTyped(call[h]) /\ ReadTyped(read[h]) /\ DOMAIN call = Handles /\ DOMAIN read = Handles
  BY DEF TypeOK
<1> DEFINE c == call[h]
<1>a. file[h] = "remote" /\ c.at = "takes"
  OBVIOUS
<1>o. c \in OpenCall
  BY <1>0, CallFields DEF TorrentSteps, RemoteSteps
<1>c. c.off \in Nat /\ c.want \in Nat \ {0}
  BY <1>o DEF OpenCall, Offsets
<1> DEFINE w == Wanted(h)
           got == BodyGot(h, n)
<1>g. /\ got \in Seq(Int) /\ Len(got) \in Nat /\ Len(c.got) <= Len(got) /\ Len(got) <= c.want
      /\ c.off + Len(got) <= Size /\ got = FileRead!BytesFrom(c.off, Len(got)) /\ c.got \in Seq(Int)
      /\ body[h] + n = c.off + Len(got) /\ pos[h] + n = c.off + Len(got) /\ pos[h] + n \in Int
  BY BodyBytes
<1>e. w \in Nat /\ (w < c.want => c.off + w = Size) /\ w <= c.want
  BY BodyBytes
<1> HIDE DEF w, got
<1> DEFINE b == IF how = "flows" THEN body[h] + n ELSE NoBody
<1> DEFINE l == [c EXCEPT !.at = "finds", !.got = got, !.again = TRUE]
<1>1. /\ pos' = [pos EXCEPT ![h] = pos[h] + n]
      /\ body' = [body EXCEPT ![h] = b]
      /\ call' = [call EXCEPT ![h] = l]
      /\ UNCHANGED <<file, calls, reader, at, tracked, seek, read, detector, raised, quiet>>
  BY <1>0 DEF BodyRead, BodyGot, got, w, torrentVars, perHandle, remoteVars
<1>2. /\ CallTyped(l)
      /\ l.at = "finds" /\ l.off = c.off /\ l.want = c.want /\ l.got = got
  BY <1>g, <1>o DEF CallTyped, OpenCall, RemoteSteps
<1> HIDE DEF l
<1>4. \A k \in Handles \ {h} : Same(k)
  BY <1>1 DEF Same, TypeOK
<1>5. /\ file'[h] = file[h]
      /\ call'[h] = l
      /\ reader'[h] = reader[h]
      /\ at'[h] = at[h]
      /\ tracked'[h] = tracked[h]
      /\ read'[h] = read[h]
      /\ body'[h] = b
      /\ pos'[h] = pos[h] + n
  BY <1>1 DEF TypeOK
<1>6. TypeOK'
  <2>1. \A k \in Handles : CallTyped(call'[k]) /\ ReadTyped(read'[k])
    BY <1>2, <1>4, <1>5 DEF TypeOK, Same
  <2>2. DOMAIN call' = Handles /\ DOMAIN read' = Handles /\ DOMAIN body' = Handles
    BY <1>1 DEF TypeOK
  <2>3. /\ file' \in [Handles -> {"none", "torrent", "remote"}] /\ reader' \in [Handles -> BOOLEAN]
        /\ at' \in [Handles -> Offsets] /\ tracked' \in [Handles -> Int] /\ seek' \in [Handles -> Int]
        /\ pos' \in [Handles -> Int]
    BY <1>1, <1>a, <1>o, <1>c, <1>g, <1>e DEF TypeOK, Offsets
  <2>4. /\ detector' \in [Handles -> {"no", "runs", "over"}] /\ quiet' \in BOOLEAN
        /\ raised' \subseteq Pieces \cup NextPieces /\ calls' \in 0..MaxCalls
    BY <1>1, <1>a, <1>o, <1>c, <1>g, <1>e DEF TypeOK
  <2> QED BY <2>1, <2>2, <2>3, <2>4 DEF TypeOK
<1>7. Kinds(h)'
  BY <1>2, <1>a, <1>o, <1>c, <1>g, <1>e, <1>5, CallFields, ReadFields
     DEF HandleInv, Kinds, Reader, TorrentSteps, RemoteSteps, NoRead, Free
<1>8. Bytes(h)'
  BY <1>2, <1>a, <1>o, <1>c, <1>g, <1>e, <1>5, CallFields, ReadFields DEF HandleInv, Kinds,
     Reader, Bytes, Offsets, TorrentSteps, RemoteSteps, NoRead, Free
<1>9. Reader(h)'
  BY <1>a, <1>o, <1>c, <1>g, <1>e, <1>5, CallFields, ReadFields
     DEF HandleInv, Kinds, Reader, TorrentSteps, RemoteSteps, NoRead, Free
<1>10. Position(h)'
  BY <1>a, <1>o, <1>c, <1>g, <1>e, <1>5, CallFields, ReadFields DEF HandleInv, Kinds, Reader,
     Position, TorrentSteps, RemoteSteps, NoRead, Free
<1>11. Body(h)'
  BY <1>2, <1>a, <1>o, <1>c, <1>g, <1>e, <1>5, CallFields, ReadFields DEF HandleInv, Kinds,
     Reader, Body, Target, TorrentSteps, RemoteSteps, NoRead, Free
<1>12. QuietInv'
  BY <1>1, <1>a, <1>o, <1>c, <1>g, <1>e, <1>4, <1>5 DEF QuietInv, Same
<1>13. ReadStep(AsRead(h), AsRead(h)')
  <2>1. AsRead(h) = [at |-> "asked", off |-> c.off, want |-> c.want, got |-> c.got]
    BY <1>a, <1>o, <1>c, <1>g, <1>e, <1>5 DEF AsRead, TorrentSteps, RemoteSteps
  <2>0. AsRead(h)' = [at |-> "asked", off |-> c.off, want |-> c.want, got |-> got]
    BY <1>2, <1>a, <1>o, <1>c, <1>g, <1>e, <1>5 DEF AsRead, TorrentSteps, RemoteSteps
  <2>2. AsRead(h)' = [AsRead(h) EXCEPT !.got = got]
    BY <2>0, <2>1
  <2>3. got \in FileRead!More(AsRead(h))
    BY <2>1, <1>c, <1>g, MoreBytes
  <2>4. AsRead(h).at = "asked"
    BY <2>1
  <2> QED BY <2>2, <2>3, <2>4 DEF ReadStep
<1> QED BY <1>4, <1>6, <1>7, <1>8, <1>9, <1>10, <1>11, <1>12, <1>13 DEF Keeps, HandleInv

LEMMA RemoteCloseStep ==
    ASSUME TypeOK, QuietInv, NEW h \in Handles, HandleInv(h), UNCHANGED torrentVars,
           RemoteClose(h)
    PROVE  Keeps(h)
<1>0. CallTyped(call[h]) /\ ReadTyped(read[h]) /\ DOMAIN call = Handles /\ DOMAIN read = Handles
  BY DEF TypeOK
<1> DEFINE c == call[h]
<1>a. file[h] = "remote" /\ c.at = "closes"
  BY DEF RemoteClose, Closes
<1> DEFINE l == Free
<1>1. /\ file' = [file EXCEPT ![h] = "none"]
      /\ body' = [body EXCEPT ![h] = NoBody]
      /\ pos' = [pos EXCEPT ![h] = 0]
      /\ call' = [call EXCEPT ![h] = l]
      /\ UNCHANGED <<calls, reader, at, tracked, seek, read, detector, raised, quiet>>
  BY <1>0 DEF RemoteClose, Closes, torrentVars, perHandle, remoteVars
<1>2. /\ CallTyped(l) /\ l = Free
  BY DEF CallTyped
<1> HIDE DEF l
<1>4. \A k \in Handles \ {h} : Same(k)
  BY <1>1 DEF Same, TypeOK
<1>5. /\ file'[h] = "none"
      /\ call'[h] = l
      /\ reader'[h] = reader[h]
      /\ at'[h] = at[h]
      /\ tracked'[h] = tracked[h]
      /\ read'[h] = read[h]
      /\ body'[h] = NoBody
      /\ pos'[h] = 0
  BY <1>1 DEF TypeOK
<1>6. TypeOK'
  <2>1. \A k \in Handles : CallTyped(call'[k]) /\ ReadTyped(read'[k])
    BY <1>2, <1>4, <1>5 DEF TypeOK, Same
  <2>2. DOMAIN call' = Handles /\ DOMAIN read' = Handles /\ DOMAIN body' = Handles
    BY <1>1 DEF TypeOK
  <2>3. /\ file' \in [Handles -> {"none", "torrent", "remote"}] /\ reader' \in [Handles -> BOOLEAN]
        /\ at' \in [Handles -> Offsets] /\ tracked' \in [Handles -> Int] /\ seek' \in [Handles -> Int]
        /\ pos' \in [Handles -> Int]
    BY <1>1, <1>a DEF TypeOK, Offsets
  <2>4. /\ detector' \in [Handles -> {"no", "runs", "over"}] /\ quiet' \in BOOLEAN
        /\ raised' \subseteq Pieces \cup NextPieces /\ calls' \in 0..MaxCalls
    BY <1>1, <1>a DEF TypeOK
  <2> QED BY <2>1, <2>2, <2>3, <2>4 DEF TypeOK
<1>7. Kinds(h)'
  BY <1>2, <1>a, <1>5, CallFields, ReadFields
     DEF HandleInv, Kinds, Reader, TorrentSteps, RemoteSteps, NoRead, Free
<1>8. Bytes(h)'
  BY <1>2, <1>a, <1>5, CallFields, ReadFields DEF HandleInv, Kinds, Reader, Bytes, Offsets,
     TorrentSteps, RemoteSteps, NoRead, Free
<1>9. Reader(h)'
  BY <1>a, <1>5, CallFields, ReadFields
     DEF HandleInv, Kinds, Reader, TorrentSteps, RemoteSteps, NoRead, Free
<1>10. Position(h)'
  BY <1>a, <1>5, CallFields, ReadFields DEF HandleInv, Kinds, Reader, Position, TorrentSteps,
     RemoteSteps, NoRead, Free
<1>11. Body(h)'
  BY <1>a, <1>5, CallFields, ReadFields DEF HandleInv, Kinds, Reader, Body, Target, TorrentSteps,
     RemoteSteps, NoRead, Free
<1>12. QuietInv'
  BY <1>1, <1>a, <1>4, <1>5 DEF QuietInv, Same
<1>13. ReadStep(AsRead(h), AsRead(h)')
  <2>1. AsRead(h) = [at |-> "closed"] /\ AsRead(h)' = [at |-> "closed"]
    BY <1>a, <1>5 DEF AsRead
  <2> QED BY <2>1 DEF ReadStep
<1> QED BY <1>4, <1>6, <1>7, <1>8, <1>9, <1>10, <1>11, <1>12, <1>13 DEF Keeps, HandleInv
LEMMA ReadEndsKeeps ==
    ASSUME TypeOK, QuietInv, NEW h \in Handles, HandleInv(h), UNCHANGED remoteVars, ReadEnds(h)
    PROVE  Keeps(h)
<1>1. /\ UNCHANGED <<file, call, calls, reader, at, tracked, seek, detector, raised, quiet>>
      /\ Reads(h)
      /\ (at[h] = Size /\ Ends(h, <<>>, "eof")) \/ Ends(h, <<>>, "error")
  BY DEF ReadEnds
<1>2. CASE at[h] = Size /\ Ends(h, <<>>, "eof")
  <2>1. "eof" \in {"eof", "error"}
    OBVIOUS
  <2> QED BY <1>1, <1>2, <2>1, ReadEndsStep
<1>3. CASE Ends(h, <<>>, "error")
  <2>1. "error" \in {"eof", "error"} /\ "error" # "eof"
    OBVIOUS
  <2> QED BY <1>1, <1>3, <2>1, ReadEndsStep
<1> QED BY <1>1, <1>2, <1>3

LEMMA TakeResultKeeps ==
    ASSUME TypeOK, QuietInv, NEW h \in Handles, HandleInv(h), UNCHANGED remoteVars, TakeResult(h)
    PROVE  Keeps(h)
BY TakeResultStep, TakeMoreStep

LEMMA RemoteSeekKeeps ==
    ASSUME TypeOK, QuietInv, NEW h \in Handles, HandleInv(h), UNCHANGED torrentVars, RemoteSeek(h)
    PROVE  Keeps(h)
<1>1. Reaches(h) \/ Reopens(h) \/ OpenFails(h)
  BY DEF RemoteSeek
<1> QED BY <1>1, ReachesStep, OpenFailsStep

LEMMA RemoteReadKeeps ==
    ASSUME TypeOK, QuietInv, NEW h \in Handles, HandleInv(h), UNCHANGED torrentVars, RemoteRead(h)
    PROVE  Keeps(h)
<1>1. PICK n \in 0..(Wanted(h) - Len(call[h].got)), how \in Outcomes : BodyRead(h, n, how)
  BY DEF RemoteRead
<1>2. file[h] = "remote" /\ call[h].at = "takes" /\ UNCHANGED <<file, calls>>
  BY DEF RemoteRead
<1> DEFINE ends == Len(BodyGot(h, n)) = Wanted(h) /\ ~(how = "breaks" /\ call[h].again)
<1>3. CASE ends
  BY <1>1, <1>2, <1>3, BodyEndsStep
<1>4. CASE ~ends /\ call[h].again
  BY <1>1, <1>2, <1>4, BodyFailsStep
<1>5. CASE ~ends /\ ~call[h].again
  BY <1>1, <1>2, <1>5, BodyAgainStep
<1> QED BY <1>3, <1>4, <1>5

LEMMA TorrentKeeps ==
    ASSUME IInv, TorrentNext, UNCHANGED remoteVars
    PROVE  \E h \in Handles : Keeps(h)
<1>1. PICK h \in Handles :
        \/ OpenTorrent(h)
        \/ \E ask \in Asks : TorrentReadAt(h, ask[1], ask[2])
        \/ TorrentStep(h)
        \/ RequestEnds(h, "torrent") /\ UNCHANGED torrentVars
        \/ GoroutineStarts(h) \/ Delivers(h) \/ ReadEnds(h) \/ LateReadEnds(h)
        \/ DetectFormat(h)
  BY DEF TorrentNext
<1>2. TypeOK /\ QuietInv /\ HandleInv(h)
  BY DEF IInv
<1>3. CASE OpenTorrent(h)
  BY <1>2, <1>3, OpenTorrentStep
<1>4. CASE \E ask \in Asks : TorrentReadAt(h, ask[1], ask[2])
  <2>1. PICK ask \in Asks : TorrentReadAt(h, ask[1], ask[2])
    BY <1>4
  <2>2. ask = <<ask[1], ask[2]>>
    BY ReadCallsAssumption
  <2>3. <<ask[1], ask[2]>> \in Asks
    BY <2>2
  <2> QED BY <1>2, <2>1, <2>3, TorrentReadAtStep
<1>5. CASE TorrentStep(h)
  <2>1. \/ Drain(h) \/ DrainTimesOut(h) \/ Seek(h) \/ StartRead(h)
        \/ TakeResult(h) \/ ReadTimesOut(h)
        \/ \E long \in BOOLEAN : TorrentClose(h, long)
    BY <1>5 DEF TorrentStep
  <2> QED BY <1>2, <2>1, DrainStep, DrainTimesOutStep, SeekStep, StartReadStep, TakeResultKeeps,
             ReadTimesOutStep, TorrentCloseStep
<1>6. CASE RequestEnds(h, "torrent") /\ UNCHANGED torrentVars
  <2>1. "torrent" \in {"torrent", "remote"}
    OBVIOUS
  <2> QED BY <1>2, <1>6, <2>1, RequestEndsStep
<1>7. CASE GoroutineStarts(h) \/ Delivers(h) \/ ReadEnds(h) \/ LateReadEnds(h) \/ DetectFormat(h)
  BY <1>2, <1>7, GoroutineStartsStep, DeliversStep, ReadEndsKeeps, LateReadEndsStep,
     DetectFormatStep
<1> QED BY <1>1, <1>3, <1>4, <1>5, <1>6, <1>7

LEMMA RemoteKeeps ==
    ASSUME IInv, RemoteNext, UNCHANGED torrentVars
    PROVE  \E h \in Handles : Keeps(h)
<1>1. PICK h \in Handles :
        \/ OpenRemote(h)
        \/ \E ask \in Asks : RemoteReadAt(h, ask[1], ask[2])
        \/ RemoteStep(h)
        \/ RequestEnds(h, "remote") /\ UNCHANGED remoteVars
  BY DEF RemoteNext
<1>2. TypeOK /\ QuietInv /\ HandleInv(h)
  BY DEF IInv
<1>3. CASE OpenRemote(h)
  BY <1>2, <1>3, OpenRemoteStep
<1>4. CASE \E ask \in Asks : RemoteReadAt(h, ask[1], ask[2])
  <2>1. PICK ask \in Asks : RemoteReadAt(h, ask[1], ask[2])
    BY <1>4
  <2>2. ask = <<ask[1], ask[2]>>
    BY ReadCallsAssumption
  <2>3. <<ask[1], ask[2]>> \in Asks
    BY <2>2
  <2> QED BY <1>2, <2>1, <2>3, RemoteReadAtStep
<1>5. CASE RemoteStep(h)
  <2>1. PastEnd(h) \/ RemoteSeek(h) \/ RemoteRead(h) \/ RemoteClose(h)
    BY <1>5 DEF RemoteStep
  <2> QED BY <1>2, <2>1, PastEndStep, RemoteSeekKeeps, RemoteReadKeeps, RemoteCloseStep
<1>6. CASE RequestEnds(h, "remote") /\ UNCHANGED remoteVars
  <2>1. "remote" \in {"torrent", "remote"}
    OBVIOUS
  <2> QED BY <1>2, <1>6, <2>1, RequestEndsStep
<1> QED BY <1>1, <1>3, <1>4, <1>5, <1>6

\* After a crash nothing is open.
Blank ==
  /\ file = [h \in Handles |-> "none"] /\ call = [h \in Handles |-> Free]
  /\ reader = [h \in Handles |-> FALSE]
  /\ at = [h \in Handles |-> 0] /\ tracked = [h \in Handles |-> 0]
  /\ seek = [h \in Handles |-> -1] /\ read = [h \in Handles |-> NoRead]
  /\ detector = [h \in Handles |-> "no"] /\ raised = {} /\ quiet = FALSE
  /\ body = [h \in Handles |-> NoBody] /\ pos = [h \in Handles |-> 0]
  /\ calls \in 0..MaxCalls

AllClosed == \A h \in Handles : AsRead(h) = FileRead!Closed

LEMMA BlankKeeps == Blank => IInv /\ AllClosed
<1> SUFFICES ASSUME Blank PROVE IInv /\ AllClosed
  OBVIOUS
<1>1. 0 \in Offsets /\ 0 \in Int /\ -1 \in Int
  BY ReadCallsAssumption DEF Offsets
<1>2. CallTyped(Free) /\ ReadTyped(NoRead)
  BY DEF CallTyped, ReadTyped, Running, NoRead
<1>3. TypeOK
  <2>1. /\ DOMAIN call = Handles /\ \A h \in Handles : CallTyped(call[h])
        /\ DOMAIN read = Handles /\ \A h \in Handles : ReadTyped(read[h])
    BY <1>2 DEF Blank
  <2>2. /\ file \in [Handles -> {"none", "torrent", "remote"}] /\ reader \in [Handles -> BOOLEAN]
        /\ detector \in [Handles -> {"no", "runs", "over"}] /\ DOMAIN body = Handles
    BY DEF Blank
  <2>3. /\ at \in [Handles -> Offsets] /\ tracked \in [Handles -> Int] /\ seek \in [Handles -> Int]
        /\ pos \in [Handles -> Int]
    BY <1>1 DEF Blank
  <2>4. raised \subseteq Pieces \cup NextPieces /\ quiet \in BOOLEAN /\ calls \in 0..MaxCalls
    BY DEF Blank
  <2> QED BY <2>1, <2>2, <2>3, <2>4 DEF TypeOK
<1>4. QuietInv
  BY DEF QuietInv, Blank
<1>5. ASSUME NEW h \in Handles PROVE HandleInv(h) /\ AsRead(h) = FileRead!Closed
  <2>1. /\ file[h] = "none" /\ call[h] = Free /\ call[h].at = "idle" /\ ~reader[h]
        /\ at[h] = tracked[h] /\ read[h] = NoRead /\ read[h].at = "none" /\ body[h] = NoBody
    BY DEF Blank, Free, NoRead
  <2>2. Kinds(h) /\ Reader(h) /\ Position(h) /\ Body(h)
    BY <2>1 DEF Kinds, Reader, Position, Body
  <2>3. Bytes(h)
    BY <2>1 DEF Bytes, TorrentSteps, RemoteSteps
  <2>4. AsRead(h) = FileRead!Closed
    BY <2>1 DEF AsRead, FileRead!Closed
  <2> QED BY <2>2, <2>3, <2>4 DEF HandleInv
<1> QED BY <1>3, <1>4, <1>5 DEF IInv, AllClosed

LEMMA InitInv == Init => IInv /\ FileRead!Init
<1> SUFFICES ASSUME Init PROVE IInv /\ FileRead!Init
  OBVIOUS
<1>1. Blank
  BY ReadCallsAssumption DEF Init, TorrentInit, RemoteInit, Blank
<1> QED BY <1>1, BlankKeeps DEF FileRead!Init, AllClosed

\* A step keeps the invariant and is a step of FileReads, or none.
LEMMA NextInv ==
    IInv /\ [Next]_vars => IInv' /\ [FileRead!Next]_([h \in Handles |-> AsRead(h)])
<1> SUFFICES ASSUME IInv, [Next]_vars
             PROVE  IInv' /\ [FileRead!Next]_([h \in Handles |-> AsRead(h)])
  OBVIOUS
<1>1. ASSUME NEW h \in Handles, Keeps(h)
      PROVE  IInv' /\ [FileRead!Next]_([k \in Handles |-> AsRead(k)])
  <2>1. \A k \in Handles \ {h} : HandleInv(k)' /\ AsRead(k)' = AsRead(k)
    BY <1>1, SameKeeps DEF IInv, Keeps
  <2>2. TypeOK' /\ HandleInv(h)' /\ QuietInv' /\ ReadStep(AsRead(h), AsRead(h)')
    BY <1>1 DEF Keeps
  <2>3. IInv'
    BY <2>1, <2>2 DEF IInv
  <2> QED BY <2>1, <2>2, <2>3, StepIsRead
<1>2. CASE Crash
  <2>1. Blank'
    BY <1>2 DEF Crash, TorrentRestart, Blank, IInv, TypeOK
  <2>2. IInv' /\ AllClosed'
    BY <2>1, BlankKeeps, PTL
  <2>3. FileRead!Crash
    BY <2>2 DEF FileRead!Crash, FileRead!Closed, AllClosed
  <2> QED BY <2>2, <2>3 DEF FileRead!Next
<1>3. CASE UNCHANGED vars
  <2>1. \A h \in Handles : Same(h)
    BY <1>3 DEF vars, torrentVars, perHandle, remoteVars, Same
  <2>2. \A h \in Handles : HandleInv(h)' /\ AsRead(h)' = AsRead(h)
    BY <2>1, SameKeeps DEF IInv
  <2>3. TypeOK' /\ QuietInv'
    BY <1>3 DEF vars, torrentVars, perHandle, remoteVars, IInv, TypeOK, QuietInv
  <2> QED BY <2>2, <2>3 DEF IInv
<1>4. CASE TorrentNext /\ UNCHANGED remoteVars
  BY <1>1, <1>4, TorrentKeeps
<1>5. CASE RemoteNext /\ UNCHANGED torrentVars
  BY <1>1, <1>5, RemoteKeeps
<1> QED BY <1>2, <1>3, <1>4, <1>5 DEF Next

-----------------------------------------------------------------------------
(* Theorems.                                                               *)

LEMMA InvHolds == Spec => []IInv
<1>1. Init => IInv
  BY InitInv
<1>2. IInv /\ [Next]_vars => IInv'
  BY NextInv
<1> QED BY <1>1, <1>2, PTL DEF Spec

\* What the handles, their calls and their goroutines hold keeps its type.
THEOREM TypeCorrect == Spec => []TypeOK
<1>1. IInv => TypeOK
  BY DEF IInv
<1> QED BY <1>1, InvHolds, PTL

\* A seek finds the library's reader free: seekAndReadAtLeast has waited
\* for whatever read was left behind.
THEOREM SeeksNeverWait == Spec => []SeekIsFree
<1>1. IInv => SeekIsFree
  BY DEF IInv, HandleInv, Reader, NoRead, SeekIsFree
<1> QED BY <1>1, InvHolds, PTL

\* Once the last reader of a file, open for long, is closed, its
\* prioritizers leave no piece raised (Close's ResetPriorities, and
\* detectFormat's look at closed), and the swarm is asked for nothing of
\* it but what the detections still under way read.
THEOREM ClosedLeavesOnlyDetections == Spec => []OnlyDetectionsAsk
<1>1. ASSUME IInv, quiet
      PROVE  Demand \cap Pieces \subseteq UNION {DetectionWants(h) : h \in Handles}
  <2>1. raised \cap Pieces = {} /\ \A h \in Handles : ~reader[h]
    BY <1>1 DEF IInv, QuietInv
  <2>2. \A h \in Handles : ReaderWants(h) = {}
    BY <2>1 DEF ReaderWants
  <2> QED BY <2>1, <2>2 DEF Demand
<1>2. IInv => OnlyDetectionsAsk
  BY <1>1 DEF IInv, QuietInv, OnlyDetectionsAsk
<1> QED BY <1>2, InvHolds, PTL

\* Torrent files and remote files implement FileReads: every byte a call
\* gives is the one asked for, across timeouts, drains, broken bodies and
\* retries, and none is missing from a call that does not say so.
THEOREM FilesReadAsPromised == Spec => ReadsWhatIsAsked
<1>1. Init => FileRead!Init
  BY InitInv
<1>2. IInv /\ [Next]_vars => [FileRead!Next]_([h \in Handles |-> AsRead(h)])
  BY NextInv
<1> QED BY <1>1, <1>2, InvHolds, PTL DEF Spec, ReadsWhatIsAsked, FileRead!Spec
=============================================================================
