----------------------------- MODULE Admission -----------------------------
(***************************************************************************)
(* What the caps of kept and smart downloads admit (admit in               *)
(* internal/downloads/planner.go).  A candidate is a file a download       *)
(* wants: [download, file, size].  Queues come in the order files joined.  *)
(***************************************************************************)
EXTENDS Integers, Sequences

NothingAdmitted == [files |-> {}, bytes |-> 0, admitted |-> {}, overCap |-> {}]

\* What is admitted once the candidate c had its turn: a file in free, or one
\* another download of the queue has, costs nothing, and one that does not
\* fit leaves its room to later ones.
AdmitNext(a, c, max, free) ==
    IF c.file \in a.files \cup free
    THEN [a EXCEPT !.admitted = @ \cup {<<c.download, c.file>>}]
    ELSE IF a.bytes + c.size <= max
    THEN [a EXCEPT !.admitted = @ \cup {<<c.download, c.file>>},
                   !.files = @ \cup {c.file}, !.bytes = @ + c.size]
    ELSE [a EXCEPT !.overCap = @ \cup {<<c.download, c.file>>}]

\* Admits the candidates of a queue in order under max.
AdmitQueue(queue, max, free) ==
    LET after[n \in 0..Len(queue)] ==
          IF n = 0 THEN NothingAdmitted
          ELSE AdmitNext(after[n - 1], queue[n], max, free)
    IN  after[Len(queue)]

\* Kept downloads first, then smart picks, which never take kept room.
admit(keptQueue, smartQueue, keptMax, smartMax) ==
    LET kept == AdmitQueue(keptQueue, keptMax, {})
        smart == AdmitQueue(smartQueue, smartMax, kept.files)
    IN  [kept |-> kept.files, smart |-> smart.files,
         committedKept |-> kept.bytes, committedSmart |-> smart.bytes,
         admitted |-> kept.admitted \cup smart.admitted,
         overCap |-> kept.overCap \cup smart.overCap]
=============================================================================
