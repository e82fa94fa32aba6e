-------------------------- MODULE MCAssignmentJobs --------------------------
(* Small instances of AssignmentJobs for TLC. *)
EXTENDS AssignmentJobs, TLC

CONSTANTS h1, h2, e1, w1, w2

OneFileEach == h1 :> {1} @@ h2 :> {1}
TwoFiles == h1 :> {1, 2} @@ h2 :> {1}

Read(to, sure) == [to |-> to, sure |-> sure]
Sure == Read(e1, "rules")
Unsure == Read(e1, "no")
Unread == Read(NoEpisode, "no")

\* Two files of one episode, or one of them unread; a sure one, or an unread.
Mixed == h1 :> {<<Sure, Unread>>} @@ h2 :> {<<Sure>>}
Says(to, conf) == [to |-> to, conf |-> conf]
SomeAnswers == {NoAnswer, Says(e1, "high"), Says(e1, "low"), Says(Extra, "medium")}
AllSure == h1 :> {<<Sure>>} @@ h2 :> {<<Sure>>}
TwoWorkers == Permutations({w1, w2})
=============================================================================
