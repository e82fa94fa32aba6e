------------------------ MODULE AssignmentJobsProofs ------------------------
(***************************************************************************)
(* What the run of AssignmentJobs checks on two torrents and one worker,   *)
(* proved for any number of torrents, files, episodes, jobs and workers:   *)
(* one active file per episode, a settled status that agrees with the      *)
(* files, the user's decisions that stand, what an apply leaves, and that  *)
(* a job that ended stays as it ended.                                     *)
(*                                                                         *)
(* The argument follows the transactions.  HeldJobs says that what an      *)
(* apply read of its job is still the job's, because every change of a     *)
(* job but the commit needs its row unlocked; Writes that the rows it puts *)
(* in name each episode once and those it takes out are all that are in    *)
(* their way, because one transaction at a time holds the title's lock     *)
(* from reading the rows to its commit.                                    *)
(***************************************************************************)
EXTENDS AssignmentJobs, TLAPS

USE RulesAssumption, JobsAssumption

\* What the variables are functions of.
Domains ==
  /\ DOMAIN jobs = Jobs /\ DOMAIN worker = Workers /\ DOMAIN run = Jobs
  /\ DOMAIN tx = Owners /\ DOMAIN unrecorded = Owners

\* A worker that is somewhere has a job.
Assigned == \A w \in Workers : worker[w].at # "idle" => worker[w].job \in Jobs

\* A job's files are numbered, and a job that was not classified has none.
Numbered ==
  \A j \in Jobs :
    /\ DOMAIN jobs[j].files \subseteq Nat
    /\ jobs[j].status # "none" => jobs[j].torrent \in Torrents
    /\ jobs[j].status \in {"none", "queued", "fetching_metadata", "classifying"} => jobs[j].files = NoFiles

\* What an apply that checked its job goes by is still the job's.
HeldJobs ==
  \A j \in Jobs : tx[j].at # "none" =>
    /\ tx[j].at \in {"begun", "written"}
    /\ jobs[j].status \in {"needs_review", "ready"}
    /\ DOMAIN tx[j].files \subseteq Nat
    /\ tx[j].mode # "override"
    /\ tx[j].torrent = jobs[j].torrent
    /\ tx[j].ins = planApply(tx[j].torrent, tx[j].files)
    /\ tx[j].mode # "legacy" => tx[j].files = jobs[j].files /\ jobs[j].status = "ready"

\* The rows a transaction puts in name each episode once, and those it takes out are
\* all that are in their way, for one transaction at a time.
Writes ==
  /\ \A o \in Owners : tx[o].at # "none" => \A r, q \in tx[o].ins : r.item = q.item => r = q
  /\ \A o \in Owners : tx[o].at = "written" =>
       \A r \in rows \ tx[o].ins :
         (\E m \in tx[o].ins : m.item = r.item) \/ (tx[o].mode # "override" /\ r.torrent = tx[o].torrent)
         => r \in tx[o].out
  /\ \A o, p \in Owners : tx[o].at = "written" /\ tx[p].at = "written" => o = p

IInv ==
  /\ Domains /\ Assigned /\ Numbered /\ HeldJobs /\ Writes /\ OneActiveRow /\ SettledAgrees

LEMMA Zero == 0 \notin Jobs /\ Jobs \subseteq Owners
BY DEF Jobs, Owners

-----------------------------------------------------------------------------
(* What the steps are functions of, and who works on what.                 *)

LEMMA DomainsStep ==
    ASSUME Domains, [Next]_vars
    PROVE  Domains'
<1>1. ASSUME NEW h \in Torrents, Assign(h) PROVE Domains'
  BY <1>1 DEF Assign, NoFiles, NoJob, Open, Working, appliedVars, Domains
<1>2. ASSUME NEW w \in Workers, NEW j \in Jobs, Claim(w, j) PROVE Domains'
  BY <1>2 DEF Claim, Free, NoFiles, NoTx, SetJob, SetStatus, Sets, appliedVars, Domains
<1>3. ASSUME NEW w \in Workers, setFileList(w) PROVE Domains'
  BY <1>3 DEF setFileList, Goes, NoFiles, Resting, Rests, SetJob, SetStatus, Sets,
    appliedVars, Domains
<1>4. ASSUME NEW w \in Workers, AddFails(w) PROVE Domains'
  BY <1>4 DEF AddFails, NoFiles, Resting, Rests, SetJob, SetStatus, Unlocked, Working,
    appliedVars, Domains
<1>5. ASSUME NEW w \in Workers, Classify(w) PROVE Domains'
  BY <1>5 DEF Classify, Goes, NoFiles, Resting, Rests, SetJob, Sets, appliedVars, Domains
<1>6. ASSUME NEW w \in Workers, resolveFirst(w) PROVE Domains'
  BY <1>6 DEF resolveFirst, NoFiles, Resting, Rests, SetJob, Sets, StillResolving, Unlocked,
    appliedVars, Domains
<1>7. ASSUME NEW w \in Workers, KeptForReview(w) PROVE Domains'
  BY <1>7 DEF KeptForReview, NoFiles, Resting, Rests, appliedVars, Domains
<1>8. ASSUME NEW w \in Workers, autoApply(w) PROVE Domains'
  BY <1>8 DEF autoApply, Begin, Goes, Sets, Unlocked, appliedVars, Domains
<1>9. ASSUME NEW j \in Jobs, NEW all \in BOOLEAN, Reclassify(j, all) PROVE Domains'
  BY <1>9 DEF Reclassify, NoFiles, Open, SetJob, SetStatus, Unlocked, Working, appliedVars,
    Domains
<1>10. ASSUME NEW j \in Jobs, RecheckReads(j) PROVE Domains'
  BY <1>10 DEF RecheckReads, NoFiles, NoRun, appliedVars, Domains
<1>11. ASSUME NEW j \in Jobs, RecheckStores(j) PROVE Domains'
  BY <1>11 DEF RecheckStores, NoFiles, NoRun, SetJob, StillResolving, Unlocked, appliedVars,
    Domains
<1>12. ASSUME NEW j \in Jobs, NEW f \in DOMAIN jobs[j].files, NEW d \in Decision, NEW to \in Episodes \cup {NoEpisode},
            PatchProposals(j, f, to, d)
     PROVE  Domains'
  BY <1>12 DEF PatchProposals, Classified, Open, Patchable, PatchedStatus, SetJob, Unlocked,
    Working, appliedVars, Domains
<1>13. ASSUME NEW j \in Jobs, Discard(j) PROVE Domains'
  BY <1>13 DEF Discard, Open, SetJob, SetStatus, Unlocked, Working, appliedVars, Domains
<1>14. ASSUME NEW j \in Jobs, Apply(j) PROVE Domains'
  BY <1>14 DEF Apply, Begin, Unlocked, appliedVars, Domains
<1>15. ASSUME NEW j \in Jobs, AssignShowAndWait(j) PROVE Domains'
  BY <1>15 DEF AssignShowAndWait, Begin, Open, Unlocked, Working, appliedVars, Domains
<1>16. ASSUME NEW i \in Episodes, NEW h \in Torrents, NEW f \in FilesOf[h],
            override(i, h, f)
     PROVE  Domains'
  BY <1>16 DEF override, Begin, NoFiles, appliedVars, Domains
<1>17. ASSUME NEW o \in Owners, writeAssignments(o) PROVE Domains'
  BY <1>17 DEF writeAssignments, appliedVars, lockTitle, Domains
<1>18. ASSUME NEW o \in Owners, Commit(o) PROVE Domains'
  BY <1>18 DEF Commit, NoFiles, NoTx, SetJob, Domains
<1>19. ASSUME NEW o \in Owners, NEW r \in unrecorded[o], Record(o, r) PROVE Domains'
  BY <1>19 DEF Record, Domains
<1>20. CASE Restart
  BY <1>20 DEF Restart, Gets, NoFiles, NoRun, NoTx, Resting, recoverInterrupted, Domains
<1>21. CASE UNCHANGED vars
  BY <1>21 DEF vars, Domains
<1> QED
  BY <1>1, <1>2, <1>3, <1>4, <1>5, <1>6, <1>7, <1>8, <1>9, <1>10, <1>11, <1>12, <1>13,
    <1>14, <1>15, <1>16, <1>17, <1>18, <1>19, <1>20, <1>21 DEF Next, WorkerStep,
    RecheckStep, ApplyStep

LEMMA AssignedStep ==
    ASSUME Domains, Assigned, [Next]_vars
    PROVE  Assigned'
<1>1. ASSUME NEW h \in Torrents, Assign(h) PROVE Assigned'
  BY <1>1 DEF Assign, NoFiles, NoJob, Open, Working, appliedVars, Domains, Assigned
<1>2. ASSUME NEW w \in Workers, NEW j \in Jobs, Claim(w, j) PROVE Assigned'
  BY <1>2 DEF Claim, Free, NoFiles, NoTx, SetJob, SetStatus, Sets, appliedVars, Domains,
    Assigned
<1>3. ASSUME NEW w \in Workers, setFileList(w) PROVE Assigned'
  BY <1>3 DEF setFileList, Goes, NoFiles, Resting, Rests, SetJob, SetStatus, Sets,
    appliedVars, Domains, Assigned
<1>4. ASSUME NEW w \in Workers, AddFails(w) PROVE Assigned'
  BY <1>4 DEF AddFails, NoFiles, Resting, Rests, SetJob, SetStatus, Unlocked, Working,
    appliedVars, Domains, Assigned
<1>5. ASSUME NEW w \in Workers, Classify(w) PROVE Assigned'
  <2>1. worker[w].job \in Jobs
    BY <1>5 DEF Classify, Assigned
  <2>2. Rests(w) \/ \E at, reading, scope : Sets(w, at, worker[w].job, reading, scope)
    BY <1>5 DEF Goes, Classify
  <2> QED BY <2>1, <2>2 DEF Rests, Resting, Sets, Domains, Assigned
<1>6. ASSUME NEW w \in Workers, resolveFirst(w) PROVE Assigned'
  <2>1. worker[w].job \in Jobs
    BY <1>6 DEF resolveFirst, Assigned
  <2>2. Rests(w) \/ \E at, reading, scope : Sets(w, at, worker[w].job, reading, scope)
    BY <1>6 DEF resolveFirst
  <2> QED BY <2>1, <2>2 DEF Rests, Resting, Sets, Domains, Assigned
<1>7. ASSUME NEW w \in Workers, KeptForReview(w) PROVE Assigned'
  BY <1>7 DEF KeptForReview, NoFiles, Resting, Rests, appliedVars, Domains, Assigned
<1>8. ASSUME NEW w \in Workers, autoApply(w) PROVE Assigned'
  BY <1>8 DEF autoApply, Begin, Goes, Sets, Unlocked, appliedVars, Domains, Assigned
<1>9. ASSUME NEW j \in Jobs, NEW all \in BOOLEAN, Reclassify(j, all) PROVE Assigned'
  BY <1>9 DEF Reclassify, NoFiles, Open, SetJob, SetStatus, Unlocked, Working, appliedVars,
    Domains, Assigned
<1>10. ASSUME NEW j \in Jobs, RecheckReads(j) PROVE Assigned'
  BY <1>10 DEF RecheckReads, NoFiles, NoRun, appliedVars, Domains, Assigned
<1>11. ASSUME NEW j \in Jobs, RecheckStores(j) PROVE Assigned'
  BY <1>11 DEF RecheckStores, NoFiles, NoRun, SetJob, StillResolving, Unlocked, appliedVars,
    Domains, Assigned
<1>12. ASSUME NEW j \in Jobs, NEW f \in DOMAIN jobs[j].files, NEW d \in Decision, NEW to \in Episodes \cup {NoEpisode},
            PatchProposals(j, f, to, d)
     PROVE  Assigned'
  BY <1>12 DEF PatchProposals, Classified, Open, Patchable, PatchedStatus, SetJob, Unlocked,
    Working, appliedVars, Domains, Assigned
<1>13. ASSUME NEW j \in Jobs, Discard(j) PROVE Assigned'
  BY <1>13 DEF Discard, Open, SetJob, SetStatus, Unlocked, Working, appliedVars, Domains,
    Assigned
<1>14. ASSUME NEW j \in Jobs, Apply(j) PROVE Assigned'
  BY <1>14 DEF Apply, Begin, Unlocked, appliedVars, Domains, Assigned
<1>15. ASSUME NEW j \in Jobs, AssignShowAndWait(j) PROVE Assigned'
  BY <1>15 DEF AssignShowAndWait, Begin, Open, Unlocked, Working, appliedVars, Domains,
    Assigned
<1>16. ASSUME NEW i \in Episodes, NEW h \in Torrents, NEW f \in FilesOf[h],
            override(i, h, f)
     PROVE  Assigned'
  BY <1>16 DEF override, Begin, NoFiles, appliedVars, Domains, Assigned
<1>17. ASSUME NEW o \in Owners, writeAssignments(o) PROVE Assigned'
  BY <1>17 DEF writeAssignments, appliedVars, lockTitle, Domains, Assigned
<1>18. ASSUME NEW o \in Owners, Commit(o) PROVE Assigned'
  BY <1>18 DEF Commit, NoFiles, NoTx, SetJob, Domains, Assigned
<1>19. ASSUME NEW o \in Owners, NEW r \in unrecorded[o], Record(o, r) PROVE Assigned'
  BY <1>19 DEF Record, Domains, Assigned
<1>20. CASE Restart
  BY <1>20 DEF Restart, Gets, NoFiles, NoRun, NoTx, Resting, recoverInterrupted, Domains,
    Assigned
<1>21. CASE UNCHANGED vars
  BY <1>21 DEF vars, Domains, Assigned
<1> QED
  BY <1>1, <1>2, <1>3, <1>4, <1>5, <1>6, <1>7, <1>8, <1>9, <1>10, <1>11, <1>12, <1>13,
    <1>14, <1>15, <1>16, <1>17, <1>18, <1>19, <1>20, <1>21 DEF Next, WorkerStep,
    RecheckStep, ApplyStep

-----------------------------------------------------------------------------
(* The rules: whose files they keep, and what a classification does.       *)

LEMMA DomainsOfRules ==
    ASSUME NEW ps, NEW qs, NEW answers, NEW all
    PROVE  /\ DOMAIN Drafts(ps) = DOMAIN ps
           /\ DOMAIN mergeFirstRun(ps, qs) = DOMAIN ps
           /\ DOMAIN recheckChanges(ps, qs, answers, all) = DOMAIN ps
           /\ DOMAIN legacyAcceptShow(ps) = DOMAIN ps
BY DEF Drafts, mergeFirstRun, recheckChanges, legacyAcceptShow

LEMMA NoFilesNumbered == DOMAIN NoFiles \subseteq Nat
BY DEF NoFiles

LEMMA ReadingsNumbered ==
    ASSUME NEW h \in Torrents, NEW r \in Readings[h]
    PROVE  DOMAIN r \subseteq Nat
OBVIOUS

LEMMA StatusOfSettled ==
    ASSUME NEW ps PROVE settledStatus(ps) \in {"needs_review", "ready"}
BY DEF settledStatus

LEMMA PlanUnique ==
    ASSUME NEW h, NEW ps, DOMAIN ps \subseteq Nat
    PROVE  \A r, q \in planApply(h, ps) : r.item = q.item => r = q
<1> SUFFICES ASSUME NEW r \in planApply(h, ps), NEW q \in planApply(h, ps), r.item = q.item
             PROVE  r = q
  OBVIOUS
<1> DEFINE first(f) == /\ Maps(ps[f]) /\ ps[f].decision = "accepted"
                       /\ \A g \in DOMAIN ps : (ps[g].to = ps[f].to /\ ps[g].decision = "accepted") => f <= g
           row(f) == [item |-> ps[f].to, torrent |-> h, file |-> f]
<1>1. PICK f \in DOMAIN ps : first(f) /\ r = row(f)
  BY DEF planApply
<1>2. PICK g \in DOMAIN ps : first(g) /\ q = row(g)
  BY DEF planApply
<1>3. ps[f].to = ps[g].to
  BY <1>1, <1>2
<1>4. f <= g /\ g <= f
  BY <1>1, <1>2, <1>3
<1>5. f \in Nat /\ g \in Nat
  OBVIOUS
<1>6. f = g
  BY <1>4, <1>5
<1> QED BY <1>1, <1>2, <1>6

\* What a classification, the AI's answers and a re-check do to their job.
Settles(j, from) ==
  \/ UNCHANGED jobs
  \/ /\ jobs[j].status = from
     /\ \E s, ps : /\ SetJob(j, s, ps) /\ DOMAIN ps \subseteq Nat
                   /\ s = settledStatus(ps) \/ (s = "resolving" /\ from = "classifying")

LEMMA ClassifyDoes ==
    ASSUME Assigned, Numbered, NEW w \in Workers, Classify(w)
    PROVE  /\ worker[w].job \in Jobs /\ Settles(worker[w].job, "classifying")
           /\ UNCHANGED <<rows, subs, unrecorded, run, tx>>
<1> DEFINE j == worker[w].job
<1>1. j \in Jobs
  BY DEF Classify, Assigned
<1>2. CASE jobs[j].status = "classifying"
  <2>1. PICK r \in Readings[jobs[j].torrent] :
            \/ SetJob(j, "resolving", Drafts(r)) \/ SetJob(j, settledStatus(Drafts(r)), Drafts(r))
    BY <1>2 DEF Classify
  <2>2. jobs[j].torrent \in Torrents
    BY <1>1, <1>2 DEF Numbered
  <2>3. DOMAIN Drafts(r) \subseteq Nat
    BY <2>2, ReadingsNumbered, DomainsOfRules
  <2> QED BY <1>1, <1>2, <2>1, <2>3 DEF Settles, Classify, appliedVars
<1>3. CASE jobs[j].status # "classifying"
  BY <1>1, <1>3 DEF Settles, Classify, appliedVars
<1> QED BY <1>2, <1>3

LEMMA ResolveDoes ==
    ASSUME Assigned, Numbered, NEW w \in Workers, resolveFirst(w)
    PROVE  /\ worker[w].job \in Jobs /\ Settles(worker[w].job, "resolving")
           /\ Unlocked(worker[w].job)
           /\ UNCHANGED <<rows, subs, unrecorded, run, tx>>
<1> DEFINE j == worker[w].job
           ps(answers) == mergeFirstRun(jobs[j].files, Drafts(mergeAnswers(worker[w].reading, answers)))
<1>1. j \in Jobs
  BY DEF resolveFirst, Assigned
<1>2. \A answers : DOMAIN ps(answers) \subseteq Nat
  BY <1>1, DomainsOfRules DEF Numbered
<1>3. CASE StillResolving(j)
  <2>1. PICK answers : SetJob(j, settledStatus(ps(answers)), ps(answers))
    BY <1>3 DEF resolveFirst
  <2>2. Settles(j, "resolving")
    <3> DEFINE q == ps(answers)
    <3>1. SetJob(j, settledStatus(q), q) /\ DOMAIN q \subseteq Nat
      BY <1>2, <2>1
    <3>2. jobs[j].status = "resolving"
      BY <1>3 DEF StillResolving
    <3> HIDE DEF q
    <3>3. \E s, fs : /\ SetJob(j, s, fs) /\ DOMAIN fs \subseteq Nat
                     /\ s = settledStatus(fs) \/ (s = "resolving" /\ "resolving" = "classifying")
      BY <3>1
    <3> QED BY <3>2, <3>3 DEF Settles
  <2>3. Unlocked(j) /\ UNCHANGED <<rows, subs, unrecorded, run, tx>>
    BY DEF resolveFirst, appliedVars
  <2> QED BY <1>1, <2>2, <2>3
<1>4. CASE ~StillResolving(j)
  BY <1>1, <1>4 DEF Settles, resolveFirst, appliedVars
<1> QED BY <1>3, <1>4

LEMMA RecheckDoes ==
    ASSUME Numbered, NEW j \in Jobs, RecheckStores(j)
    PROVE  /\ Settles(j, "resolving") /\ Unlocked(j)
           /\ UNCHANGED <<rows, subs, unrecorded, worker, tx>>
<1> DEFINE ps(answers, fresh) ==
             recheckChanges(jobs[j].files, currentAnswers(run[j].seen, fresh), answers, run[j].all)
<1>2. \A answers, fresh : DOMAIN ps(answers, fresh) \subseteq Nat
  BY DomainsOfRules DEF Numbered
<1>3. CASE StillResolving(j)
  <2>1. PICK answers, fresh : SetJob(j, settledStatus(ps(answers, fresh)), ps(answers, fresh))
    BY <1>3 DEF RecheckStores
  <2>2. Settles(j, "resolving")
    <3> DEFINE q == ps(answers, fresh)
    <3>1. SetJob(j, settledStatus(q), q) /\ DOMAIN q \subseteq Nat
      BY <1>2, <2>1
    <3>2. jobs[j].status = "resolving"
      BY <1>3 DEF StillResolving
    <3> HIDE DEF q
    <3>3. \E s, fs : /\ SetJob(j, s, fs) /\ DOMAIN fs \subseteq Nat
                     /\ s = settledStatus(fs) \/ (s = "resolving" /\ "resolving" = "classifying")
      BY <3>1
    <3> QED BY <3>2, <3>3 DEF Settles
  <2>3. Unlocked(j) /\ UNCHANGED <<rows, subs, unrecorded, worker, tx>>
    BY DEF RecheckStores, appliedVars
  <2> QED BY <2>2, <2>3
<1>4. CASE ~StillResolving(j)
  BY <1>4 DEF Settles, RecheckStores, appliedVars
<1> QED BY <1>3, <1>4

-----------------------------------------------------------------------------
(* The jobs' own invariant.                                                *)

LEMMA NumberedStep ==
    ASSUME Domains, Assigned, Numbered, HeldJobs, [Next]_vars
    PROVE  Numbered'
<1>1. ASSUME NEW h \in Torrents, Assign(h) PROVE Numbered'
  BY <1>1, NoFilesNumbered DEF Assign, NoJob, Open, Working, appliedVars, Domains, Assigned,
    Numbered
<1>2. ASSUME NEW w \in Workers, NEW j \in Jobs, Claim(w, j) PROVE Numbered'
  BY <1>2, NoFilesNumbered DEF Claim, Free, NoTx, SetJob, SetStatus, Sets, appliedVars,
    Domains, Assigned, Numbered
<1>3. ASSUME NEW w \in Workers, setFileList(w) PROVE Numbered'
  BY <1>3, NoFilesNumbered DEF setFileList, Goes, Resting, Rests, SetJob, SetStatus, Sets,
    appliedVars, Domains, Assigned, Numbered
<1>4. ASSUME NEW w \in Workers, AddFails(w) PROVE Numbered'
  BY <1>4, NoFilesNumbered DEF AddFails, Resting, Rests, SetJob, SetStatus, Unlocked,
    Working, appliedVars, Domains, Assigned, Numbered
<1>5. ASSUME NEW w \in Workers, Classify(w) PROVE Numbered'
  <2> DEFINE j == worker[w].job
  <2>1. j \in Jobs /\ Settles(j, "classifying") /\ UNCHANGED <<rows, subs, unrecorded, run, tx>>
    BY <1>5, ClassifyDoes
  <2>2. CASE UNCHANGED jobs
    BY <2>1, <2>2 DEF Numbered
  <2>3. CASE jobs[j].status = "classifying" /\ \E s, ps : SetJob(j, s, ps) /\ DOMAIN ps \subseteq Nat /\ (s = settledStatus(ps) \/ s = "resolving")
    <3>1. PICK s, ps : SetJob(j, s, ps) /\ DOMAIN ps \subseteq Nat /\ (s = settledStatus(ps) \/ s = "resolving")
      BY <2>3
    <3>2. s \in {"resolving", "needs_review", "ready"}
      BY <3>1, StatusOfSettled
    <3> QED BY <2>1, <2>3, <3>1, <3>2, Zero DEF SetJob, Domains, Numbered
  <2> QED BY <2>1, <2>2, <2>3 DEF Settles
<1>6. ASSUME NEW w \in Workers, resolveFirst(w) PROVE Numbered'
  <2> DEFINE j == worker[w].job
  <2>1. j \in Jobs /\ Settles(j, "resolving") /\ Unlocked(j) /\ UNCHANGED <<rows, subs, unrecorded, run, tx>>
    BY <1>6, ResolveDoes
  <2>2. CASE UNCHANGED jobs
    BY <2>1, <2>2 DEF Numbered
  <2>3. CASE jobs[j].status = "resolving" /\ \E ps : SetJob(j, settledStatus(ps), ps) /\ DOMAIN ps \subseteq Nat
    <3>1. PICK ps : SetJob(j, settledStatus(ps), ps) /\ DOMAIN ps \subseteq Nat
      BY <2>3
    <3>2. settledStatus(ps) \in {"needs_review", "ready"}
      BY StatusOfSettled
    <3> QED BY <2>1, <2>3, <3>1, <3>2, Zero DEF SetJob, Unlocked, Domains, Numbered
  <2>4. CASE jobs[j].status = "resolving" /\ \E s, ps : SetJob(j, s, ps) /\ DOMAIN ps \subseteq Nat /\ s = settledStatus(ps)
    BY <2>3, <2>4
  <2> QED BY <2>1, <2>2, <2>4 DEF Settles
<1>7. ASSUME NEW w \in Workers, KeptForReview(w) PROVE Numbered'
  BY <1>7, NoFilesNumbered DEF KeptForReview, Resting, Rests, appliedVars, Domains,
    Assigned, Numbered
<1>8. ASSUME NEW w \in Workers, autoApply(w) PROVE Numbered'
  BY <1>8, NoFilesNumbered DEF autoApply, Begin, Goes, Sets, Unlocked, appliedVars, Domains,
    Assigned, Numbered
<1>9. ASSUME NEW j \in Jobs, NEW all \in BOOLEAN, Reclassify(j, all) PROVE Numbered'
  BY <1>9, NoFilesNumbered DEF Reclassify, Open, SetJob, SetStatus, Unlocked, Working,
    appliedVars, Domains, Assigned, Numbered
<1>10. ASSUME NEW j \in Jobs, RecheckReads(j) PROVE Numbered'
  BY <1>10, NoFilesNumbered DEF RecheckReads, NoRun, appliedVars, Domains, Assigned,
    Numbered
<1>11. ASSUME NEW j \in Jobs, RecheckStores(j) PROVE Numbered'
  <2>1. Settles(j, "resolving") /\ Unlocked(j) /\ UNCHANGED <<rows, subs, unrecorded, worker, tx>>
    BY <1>11, RecheckDoes
  <2>2. CASE UNCHANGED jobs
    BY <2>1, <2>2 DEF Numbered
  <2>3. CASE jobs[j].status = "resolving" /\ \E ps : SetJob(j, settledStatus(ps), ps) /\ DOMAIN ps \subseteq Nat
    <3>1. PICK ps : SetJob(j, settledStatus(ps), ps) /\ DOMAIN ps \subseteq Nat
      BY <2>3
    <3>2. settledStatus(ps) \in {"needs_review", "ready"}
      BY StatusOfSettled
    <3> QED BY <2>1, <2>3, <3>1, <3>2, Zero DEF SetJob, Unlocked, Domains, Numbered
  <2>4. CASE jobs[j].status = "resolving" /\ \E s, ps : SetJob(j, s, ps) /\ DOMAIN ps \subseteq Nat /\ s = settledStatus(ps)
    BY <2>3, <2>4
  <2> QED BY <2>1, <2>2, <2>4 DEF Settles
<1>12. ASSUME NEW j \in Jobs, NEW f \in DOMAIN jobs[j].files, NEW d \in Decision, NEW to \in Episodes \cup {NoEpisode},
            PatchProposals(j, f, to, d)
     PROVE  Numbered'
  <2>1. PICK s, ps : SetJob(j, s, ps) /\ DOMAIN ps = DOMAIN jobs[j].files /\ s \in {"resolving", "needs_review", "ready"}
    BY <1>12, StatusOfSettled DEF PatchProposals, PatchedStatus
  <2> QED BY <1>12, <2>1 DEF PatchProposals, Patchable, Open, Working, SetJob, Domains, Numbered
<1>13. ASSUME NEW j \in Jobs, Discard(j) PROVE Numbered'
  BY <1>13, NoFilesNumbered DEF Discard, Open, SetJob, SetStatus, Unlocked, Working,
    appliedVars, Domains, Assigned, Numbered
<1>14. ASSUME NEW j \in Jobs, Apply(j) PROVE Numbered'
  BY <1>14, NoFilesNumbered DEF Apply, Begin, Unlocked, appliedVars, Domains, Assigned,
    Numbered
<1>15. ASSUME NEW j \in Jobs, AssignShowAndWait(j) PROVE Numbered'
  BY <1>15, NoFilesNumbered DEF AssignShowAndWait, Begin, Open, Unlocked, Working,
    appliedVars, Domains, Assigned, Numbered
<1>16. ASSUME NEW i \in Episodes, NEW h \in Torrents, NEW f \in FilesOf[h],
            override(i, h, f)
     PROVE  Numbered'
  BY <1>16, NoFilesNumbered DEF override, Begin, appliedVars, Domains, Assigned, Numbered
<1>17. ASSUME NEW o \in Owners, writeAssignments(o) PROVE Numbered'
  BY <1>17, NoFilesNumbered DEF writeAssignments, appliedVars, lockTitle, Domains, Assigned,
    Numbered
<1>18. ASSUME NEW o \in Owners, Commit(o) PROVE Numbered'
  <2>1. CASE o = 0
    BY <1>18, <2>1 DEF Commit, Numbered
  <2>2. CASE o # 0
    <3>1. o \in Jobs /\ SetJob(o, "applied", tx[o].files)
      BY <1>18, <2>2 DEF Commit, Owners
    <3>2. DOMAIN tx[o].files \subseteq Nat /\ jobs[o].torrent \in Torrents
      BY <1>18, <3>1 DEF Commit, HeldJobs, Numbered
    <3> QED BY <3>1, <3>2 DEF SetJob, Domains, Numbered
  <2> QED BY <2>1, <2>2
<1>19. ASSUME NEW o \in Owners, NEW r \in unrecorded[o], Record(o, r) PROVE Numbered'
  BY <1>19, NoFilesNumbered DEF Record, Domains, Assigned, Numbered
<1>20. CASE Restart
  <2>1. \A j \in Jobs : jobs'[j] = recoverInterrupted(jobs[j])
    BY <1>20 DEF Restart
  <2>2. ASSUME NEW j \in Jobs
        PROVE  /\ jobs'[j].files = jobs[j].files /\ jobs'[j].torrent = jobs[j].torrent
               /\ \/ jobs'[j].status = jobs[j].status
                  \/ jobs'[j].status = "queued" /\ jobs[j].status \in {"fetching_metadata", "classifying"}
                  \/ jobs'[j].status \in {"needs_review", "ready"} /\ jobs[j].status = "resolving"
    <3>1. CASE jobs[j].status \in {"fetching_metadata", "classifying"}
      <4>1. jobs'[j] = Gets(jobs[j], "queued")
        BY <2>1, <3>1 DEF recoverInterrupted
      <4> QED BY <4>1, <3>1 DEF Gets
    <3>2. CASE jobs[j].status = "resolving"
      <4>1. jobs'[j] = Gets(jobs[j], settledStatus(jobs[j].files))
        BY <2>1, <3>2 DEF recoverInterrupted
      <4> QED BY <4>1, <3>2, StatusOfSettled DEF Gets
    <3>3. CASE jobs[j].status \notin {"fetching_metadata", "classifying", "resolving"}
      BY <2>1, <3>3 DEF recoverInterrupted
    <3> QED BY <3>1, <3>2, <3>3
  <2>3. ASSUME NEW j \in Jobs
        PROVE  /\ DOMAIN jobs'[j].files \subseteq Nat
               /\ jobs'[j].status # "none" => jobs'[j].torrent \in Torrents
               /\ jobs'[j].status \in {"none", "queued", "fetching_metadata", "classifying"}
                  => jobs'[j].files = NoFiles
    <3>1. CASE jobs'[j].status = jobs[j].status
      BY <2>2, <3>1 DEF Numbered
    <3>2. CASE jobs'[j].status = "queued" /\ jobs[j].status \in {"fetching_metadata", "classifying"}
      BY <2>2, <3>2 DEF Numbered
    <3>3. CASE jobs'[j].status \in {"needs_review", "ready"} /\ jobs[j].status = "resolving"
      BY <2>2, <3>3 DEF Numbered
    <3> QED BY <2>2, <3>1, <3>2, <3>3
  <2> QED BY <2>3 DEF Numbered
<1>21. CASE UNCHANGED vars
  BY <1>21 DEF vars, Domains, Assigned, Numbered
<1> QED
  BY <1>1, <1>2, <1>3, <1>4, <1>5, <1>6, <1>7, <1>8, <1>9, <1>10, <1>11, <1>12, <1>13,
    <1>14, <1>15, <1>16, <1>17, <1>18, <1>19, <1>20, <1>21 DEF Next, WorkerStep,
    RecheckStep, ApplyStep

LEMMA HeldJobsStep ==
    ASSUME Domains, Assigned, Numbered, HeldJobs, SettledAgrees, [Next]_vars
    PROVE  HeldJobs'
<1>1. ASSUME NEW h \in Torrents, Assign(h) PROVE HeldJobs'
  BY <1>1, DomainsOfRules, Zero DEF Assign, NoJob, Open, Working, appliedVars, Domains,
    Assigned, Numbered, HeldJobs, SettledAgrees
<1>2. ASSUME NEW w \in Workers, NEW j \in Jobs, Claim(w, j) PROVE HeldJobs'
  BY <1>2, DomainsOfRules, Zero DEF Claim, Free, NoTx, SetJob, SetStatus, Sets, appliedVars,
    Domains, Assigned, Numbered, HeldJobs, SettledAgrees
<1>3. ASSUME NEW w \in Workers, setFileList(w) PROVE HeldJobs'
  BY <1>3, DomainsOfRules, Zero DEF setFileList, Goes, Resting, Rests, SetJob, SetStatus,
    Sets, appliedVars, Domains, Assigned, Numbered, HeldJobs, SettledAgrees
<1>4. ASSUME NEW w \in Workers, AddFails(w) PROVE HeldJobs'
  BY <1>4, DomainsOfRules, Zero DEF AddFails, Resting, Rests, SetJob, SetStatus, Unlocked,
    Working, appliedVars, Domains, Assigned, Numbered, HeldJobs, SettledAgrees
<1>5. ASSUME NEW w \in Workers, Classify(w) PROVE HeldJobs'
  <2> DEFINE j == worker[w].job
  <2>1. j \in Jobs /\ Settles(j, "classifying") /\ UNCHANGED <<rows, subs, unrecorded, run, tx>>
    BY <1>5, ClassifyDoes
  <2>2. CASE UNCHANGED jobs
    BY <2>1, <2>2 DEF HeldJobs
  <2>3. CASE jobs[j].status = "classifying" /\ \E s, ps : SetJob(j, s, ps) /\ DOMAIN ps \subseteq Nat /\ (s = settledStatus(ps) \/ s = "resolving")
    <3>1. PICK s, ps : SetJob(j, s, ps) /\ DOMAIN ps \subseteq Nat /\ (s = settledStatus(ps) \/ s = "resolving")
      BY <2>3
    <3>2. s \in {"resolving", "needs_review", "ready"}
      BY <3>1, StatusOfSettled
    <3> QED BY <2>1, <2>3, <3>1, <3>2, Zero DEF SetJob, Domains, HeldJobs
  <2> QED BY <2>1, <2>2, <2>3 DEF Settles
<1>6. ASSUME NEW w \in Workers, resolveFirst(w) PROVE HeldJobs'
  <2> DEFINE j == worker[w].job
  <2>1. j \in Jobs /\ Settles(j, "resolving") /\ Unlocked(j) /\ UNCHANGED <<rows, subs, unrecorded, run, tx>>
    BY <1>6, ResolveDoes
  <2>2. CASE UNCHANGED jobs
    BY <2>1, <2>2 DEF HeldJobs
  <2>3. CASE jobs[j].status = "resolving" /\ \E ps : SetJob(j, settledStatus(ps), ps) /\ DOMAIN ps \subseteq Nat
    <3>1. PICK ps : SetJob(j, settledStatus(ps), ps) /\ DOMAIN ps \subseteq Nat
      BY <2>3
    <3>2. settledStatus(ps) \in {"needs_review", "ready"}
      BY StatusOfSettled
    <3> QED BY <2>1, <2>3, <3>1, <3>2, Zero DEF SetJob, Unlocked, Domains, HeldJobs
  <2>4. CASE jobs[j].status = "resolving" /\ \E s, ps : SetJob(j, s, ps) /\ DOMAIN ps \subseteq Nat /\ s = settledStatus(ps)
    BY <2>3, <2>4
  <2> QED BY <2>1, <2>2, <2>4 DEF Settles
<1>7. ASSUME NEW w \in Workers, KeptForReview(w) PROVE HeldJobs'
  BY <1>7, DomainsOfRules, Zero DEF KeptForReview, Resting, Rests, appliedVars, Domains,
    Assigned, Numbered, HeldJobs, SettledAgrees
<1>8. ASSUME NEW w \in Workers, autoApply(w) PROVE HeldJobs'
  BY <1>8, DomainsOfRules, Zero DEF autoApply, Begin, Goes, Sets, Unlocked, appliedVars,
    Domains, Assigned, Numbered, HeldJobs, SettledAgrees
<1>9. ASSUME NEW j \in Jobs, NEW all \in BOOLEAN, Reclassify(j, all) PROVE HeldJobs'
  BY <1>9, DomainsOfRules, Zero DEF Reclassify, Open, SetJob, SetStatus, Unlocked, Working,
    appliedVars, Domains, Assigned, Numbered, HeldJobs, SettledAgrees
<1>10. ASSUME NEW j \in Jobs, RecheckReads(j) PROVE HeldJobs'
  BY <1>10, DomainsOfRules, Zero DEF RecheckReads, NoRun, appliedVars, Domains, Assigned,
    Numbered, HeldJobs, SettledAgrees
<1>11. ASSUME NEW j \in Jobs, RecheckStores(j) PROVE HeldJobs'
  <2>1. Settles(j, "resolving") /\ Unlocked(j) /\ UNCHANGED <<rows, subs, unrecorded, worker, tx>>
    BY <1>11, RecheckDoes
  <2>2. CASE UNCHANGED jobs
    BY <2>1, <2>2 DEF HeldJobs
  <2>3. CASE jobs[j].status = "resolving" /\ \E ps : SetJob(j, settledStatus(ps), ps) /\ DOMAIN ps \subseteq Nat
    <3>1. PICK ps : SetJob(j, settledStatus(ps), ps) /\ DOMAIN ps \subseteq Nat
      BY <2>3
    <3>2. settledStatus(ps) \in {"needs_review", "ready"}
      BY StatusOfSettled
    <3> QED BY <2>1, <2>3, <3>1, <3>2, Zero DEF SetJob, Unlocked, Domains, HeldJobs
  <2>4. CASE jobs[j].status = "resolving" /\ \E s, ps : SetJob(j, s, ps) /\ DOMAIN ps \subseteq Nat /\ s = settledStatus(ps)
    BY <2>3, <2>4
  <2> QED BY <2>1, <2>2, <2>4 DEF Settles
<1>12. ASSUME NEW j \in Jobs, NEW f \in DOMAIN jobs[j].files, NEW d \in Decision, NEW to \in Episodes \cup {NoEpisode},
            PatchProposals(j, f, to, d)
     PROVE  HeldJobs'
  BY <1>12, DomainsOfRules, Zero DEF PatchProposals, Classified, Open, Patchable,
    PatchedStatus, SetJob, Unlocked, Working, appliedVars, Domains, Assigned, Numbered,
    HeldJobs, SettledAgrees
<1>13. ASSUME NEW j \in Jobs, Discard(j) PROVE HeldJobs'
  BY <1>13, DomainsOfRules, Zero DEF Discard, Open, SetJob, SetStatus, Unlocked, Working,
    appliedVars, Domains, Assigned, Numbered, HeldJobs, SettledAgrees
<1>14. ASSUME NEW j \in Jobs, Apply(j) PROVE HeldJobs'
  BY <1>14, DomainsOfRules, Zero DEF Apply, Begin, Unlocked, appliedVars, Domains, Assigned,
    Numbered, HeldJobs, SettledAgrees
<1>15. ASSUME NEW j \in Jobs, AssignShowAndWait(j) PROVE HeldJobs'
  BY <1>15, DomainsOfRules, Zero DEF AssignShowAndWait, Begin, Open, Unlocked, Working,
    appliedVars, Domains, Assigned, Numbered, HeldJobs, SettledAgrees
<1>16. ASSUME NEW i \in Episodes, NEW h \in Torrents, NEW f \in FilesOf[h],
            override(i, h, f)
     PROVE  HeldJobs'
  BY <1>16, DomainsOfRules, Zero DEF override, Begin, appliedVars, Domains, Assigned,
    Numbered, HeldJobs, SettledAgrees
<1>17. ASSUME NEW o \in Owners, writeAssignments(o) PROVE HeldJobs'
  BY <1>17, DomainsOfRules, Zero DEF writeAssignments, appliedVars, lockTitle, Domains,
    Assigned, Numbered, HeldJobs, SettledAgrees
<1>18. ASSUME NEW o \in Owners, Commit(o) PROVE HeldJobs'
  BY <1>18, DomainsOfRules, Zero DEF Commit, NoTx, SetJob, Domains, Assigned, Numbered,
    HeldJobs, SettledAgrees
<1>19. ASSUME NEW o \in Owners, NEW r \in unrecorded[o], Record(o, r) PROVE HeldJobs'
  BY <1>19, DomainsOfRules, Zero DEF Record, Domains, Assigned, Numbered, HeldJobs,
    SettledAgrees
<1>20. CASE Restart
  BY <1>20, DomainsOfRules, Zero DEF Restart, Gets, NoRun, NoTx, Resting,
    recoverInterrupted, Domains, Assigned, Numbered, HeldJobs, SettledAgrees
<1>21. CASE UNCHANGED vars
  BY <1>21 DEF vars, Domains, Assigned, Numbered, HeldJobs, SettledAgrees
<1> QED
  BY <1>1, <1>2, <1>3, <1>4, <1>5, <1>6, <1>7, <1>8, <1>9, <1>10, <1>11, <1>12, <1>13,
    <1>14, <1>15, <1>16, <1>17, <1>18, <1>19, <1>20, <1>21 DEF Next, WorkerStep,
    RecheckStep, ApplyStep

LEMMA SettledStep ==
    ASSUME Domains, Assigned, Numbered, HeldJobs, SettledAgrees, [Next]_vars
    PROVE  SettledAgrees'
<1>1. ASSUME NEW h \in Torrents, Assign(h) PROVE SettledAgrees'
  BY <1>1, Zero DEF Assign, NoJob, Open, Working, appliedVars, Domains, Assigned, HeldJobs,
    SettledAgrees
<1>2. ASSUME NEW w \in Workers, NEW j \in Jobs, Claim(w, j) PROVE SettledAgrees'
  BY <1>2, Zero DEF Claim, Free, NoTx, SetJob, SetStatus, Sets, appliedVars, Domains,
    Assigned, HeldJobs, SettledAgrees
<1>3. ASSUME NEW w \in Workers, setFileList(w) PROVE SettledAgrees'
  BY <1>3, Zero DEF setFileList, Goes, Resting, Rests, SetJob, SetStatus, Sets, appliedVars,
    Domains, Assigned, HeldJobs, SettledAgrees
<1>4. ASSUME NEW w \in Workers, AddFails(w) PROVE SettledAgrees'
  BY <1>4, Zero DEF AddFails, Resting, Rests, SetJob, SetStatus, Unlocked, Working,
    appliedVars, Domains, Assigned, HeldJobs, SettledAgrees
<1>5. ASSUME NEW w \in Workers, Classify(w) PROVE SettledAgrees'
  <2> DEFINE j == worker[w].job
  <2>1. j \in Jobs /\ Settles(j, "classifying") /\ UNCHANGED <<rows, subs, unrecorded, run, tx>>
    BY <1>5, ClassifyDoes
  <2>2. CASE UNCHANGED jobs
    BY <2>1, <2>2 DEF SettledAgrees
  <2>3. CASE jobs[j].status = "classifying" /\ \E s, ps : SetJob(j, s, ps) /\ DOMAIN ps \subseteq Nat /\ (s = settledStatus(ps) \/ s = "resolving")
    <3>1. PICK s, ps : SetJob(j, s, ps) /\ DOMAIN ps \subseteq Nat /\ (s = settledStatus(ps) \/ s = "resolving")
      BY <2>3
    <3>2. s \in {"resolving", "needs_review", "ready"}
      BY <3>1, StatusOfSettled
    <3> QED BY <2>1, <2>3, <3>1, <3>2, Zero DEF SetJob, Domains, SettledAgrees
  <2> QED BY <2>1, <2>2, <2>3 DEF Settles
<1>6. ASSUME NEW w \in Workers, resolveFirst(w) PROVE SettledAgrees'
  <2> DEFINE j == worker[w].job
  <2>1. j \in Jobs /\ Settles(j, "resolving") /\ Unlocked(j) /\ UNCHANGED <<rows, subs, unrecorded, run, tx>>
    BY <1>6, ResolveDoes
  <2>2. CASE UNCHANGED jobs
    BY <2>1, <2>2 DEF SettledAgrees
  <2>3. CASE jobs[j].status = "resolving" /\ \E ps : SetJob(j, settledStatus(ps), ps) /\ DOMAIN ps \subseteq Nat
    <3>1. PICK ps : SetJob(j, settledStatus(ps), ps) /\ DOMAIN ps \subseteq Nat
      BY <2>3
    <3>2. settledStatus(ps) \in {"needs_review", "ready"}
      BY StatusOfSettled
    <3> QED BY <2>1, <2>3, <3>1, <3>2, Zero DEF SetJob, Unlocked, Domains, SettledAgrees
  <2>4. CASE jobs[j].status = "resolving" /\ \E s, ps : SetJob(j, s, ps) /\ DOMAIN ps \subseteq Nat /\ s = settledStatus(ps)
    BY <2>3, <2>4
  <2> QED BY <2>1, <2>2, <2>4 DEF Settles
<1>7. ASSUME NEW w \in Workers, KeptForReview(w) PROVE SettledAgrees'
  BY <1>7, Zero DEF KeptForReview, Resting, Rests, appliedVars, Domains, Assigned, HeldJobs,
    SettledAgrees
<1>8. ASSUME NEW w \in Workers, autoApply(w) PROVE SettledAgrees'
  BY <1>8, Zero DEF autoApply, Begin, Goes, Sets, Unlocked, appliedVars, Domains, Assigned,
    HeldJobs, SettledAgrees
<1>9. ASSUME NEW j \in Jobs, NEW all \in BOOLEAN, Reclassify(j, all) PROVE SettledAgrees'
  BY <1>9, Zero DEF Reclassify, Open, SetJob, SetStatus, Unlocked, Working, appliedVars,
    Domains, Assigned, HeldJobs, SettledAgrees
<1>10. ASSUME NEW j \in Jobs, RecheckReads(j) PROVE SettledAgrees'
  BY <1>10, Zero DEF RecheckReads, NoRun, appliedVars, Domains, Assigned, HeldJobs,
    SettledAgrees
<1>11. ASSUME NEW j \in Jobs, RecheckStores(j) PROVE SettledAgrees'
  <2>1. Settles(j, "resolving") /\ Unlocked(j) /\ UNCHANGED <<rows, subs, unrecorded, worker, tx>>
    BY <1>11, RecheckDoes
  <2>2. CASE UNCHANGED jobs
    BY <2>1, <2>2 DEF SettledAgrees
  <2>3. CASE jobs[j].status = "resolving" /\ \E ps : SetJob(j, settledStatus(ps), ps) /\ DOMAIN ps \subseteq Nat
    <3>1. PICK ps : SetJob(j, settledStatus(ps), ps) /\ DOMAIN ps \subseteq Nat
      BY <2>3
    <3>2. settledStatus(ps) \in {"needs_review", "ready"}
      BY StatusOfSettled
    <3> QED BY <2>1, <2>3, <3>1, <3>2, Zero DEF SetJob, Unlocked, Domains, SettledAgrees
  <2>4. CASE jobs[j].status = "resolving" /\ \E s, ps : SetJob(j, s, ps) /\ DOMAIN ps \subseteq Nat /\ s = settledStatus(ps)
    BY <2>3, <2>4
  <2> QED BY <2>1, <2>2, <2>4 DEF Settles
<1>12. ASSUME NEW j \in Jobs, NEW f \in DOMAIN jobs[j].files, NEW d \in Decision, NEW to \in Episodes \cup {NoEpisode},
            PatchProposals(j, f, to, d)
     PROVE  SettledAgrees'
  BY <1>12, Zero DEF PatchProposals, Classified, Open, Patchable, PatchedStatus, SetJob,
    Unlocked, Working, appliedVars, Domains, Assigned, HeldJobs, SettledAgrees
<1>13. ASSUME NEW j \in Jobs, Discard(j) PROVE SettledAgrees'
  BY <1>13, Zero DEF Discard, Open, SetJob, SetStatus, Unlocked, Working, appliedVars,
    Domains, Assigned, HeldJobs, SettledAgrees
<1>14. ASSUME NEW j \in Jobs, Apply(j) PROVE SettledAgrees'
  BY <1>14, Zero DEF Apply, Begin, Unlocked, appliedVars, Domains, Assigned, HeldJobs,
    SettledAgrees
<1>15. ASSUME NEW j \in Jobs, AssignShowAndWait(j) PROVE SettledAgrees'
  BY <1>15, Zero DEF AssignShowAndWait, Begin, Open, Unlocked, Working, appliedVars,
    Domains, Assigned, HeldJobs, SettledAgrees
<1>16. ASSUME NEW i \in Episodes, NEW h \in Torrents, NEW f \in FilesOf[h],
            override(i, h, f)
     PROVE  SettledAgrees'
  BY <1>16, Zero DEF override, Begin, appliedVars, Domains, Assigned, HeldJobs,
    SettledAgrees
<1>17. ASSUME NEW o \in Owners, writeAssignments(o) PROVE SettledAgrees'
  BY <1>17, Zero DEF writeAssignments, appliedVars, lockTitle, Domains, Assigned, HeldJobs,
    SettledAgrees
<1>18. ASSUME NEW o \in Owners, Commit(o) PROVE SettledAgrees'
  BY <1>18, Zero DEF Commit, NoTx, SetJob, Domains, Assigned, HeldJobs, SettledAgrees
<1>19. ASSUME NEW o \in Owners, NEW r \in unrecorded[o], Record(o, r) PROVE SettledAgrees'
  BY <1>19, Zero DEF Record, Domains, Assigned, HeldJobs, SettledAgrees
<1>20. CASE Restart
  BY <1>20, Zero DEF Restart, Gets, NoRun, NoTx, Resting, recoverInterrupted, Domains,
    Assigned, HeldJobs, SettledAgrees
<1>21. CASE UNCHANGED vars
  BY <1>21 DEF vars, Domains, Assigned, HeldJobs, SettledAgrees
<1> QED
  BY <1>1, <1>2, <1>3, <1>4, <1>5, <1>6, <1>7, <1>8, <1>9, <1>10, <1>11, <1>12, <1>13,
    <1>14, <1>15, <1>16, <1>17, <1>18, <1>19, <1>20, <1>21 DEF Next, WorkerStep,
    RecheckStep, ApplyStep

-----------------------------------------------------------------------------
(* The rows.                                                               *)

LEMMA WritesStep ==
    ASSUME Domains, Assigned, HeldJobs, Numbered, Writes, OneActiveRow, [Next]_vars
    PROVE  Writes'
<1>1. ASSUME NEW h \in Torrents, Assign(h) PROVE Writes'
  BY <1>1, Zero DEF Assign, NoJob, Open, Working, appliedVars, Domains, Numbered, HeldJobs,
    Writes
<1>2. ASSUME NEW w \in Workers, NEW j \in Jobs, Claim(w, j) PROVE Writes'
  BY <1>2, Zero DEF Claim, Free, NoTx, SetJob, SetStatus, Sets, appliedVars, Domains,
    Numbered, HeldJobs, Writes
<1>3. ASSUME NEW w \in Workers, setFileList(w) PROVE Writes'
  BY <1>3, Zero DEF setFileList, Goes, Resting, Rests, SetJob, SetStatus, Sets, appliedVars,
    Domains, Numbered, HeldJobs, Writes
<1>4. ASSUME NEW w \in Workers, AddFails(w) PROVE Writes'
  BY <1>4, Zero DEF AddFails, Resting, Rests, SetJob, SetStatus, Unlocked, Working,
    appliedVars, Domains, Numbered, HeldJobs, Writes
<1>5. ASSUME NEW w \in Workers, Classify(w) PROVE Writes'
  BY <1>5, Zero DEF Classify, Goes, Resting, Rests, SetJob, Sets, appliedVars, Domains,
    Numbered, HeldJobs, Writes
<1>6. ASSUME NEW w \in Workers, resolveFirst(w) PROVE Writes'
  BY <1>6, Zero DEF resolveFirst, Resting, Rests, SetJob, Sets, StillResolving, Unlocked,
    appliedVars, Domains, Numbered, HeldJobs, Writes
<1>7. ASSUME NEW w \in Workers, KeptForReview(w) PROVE Writes'
  BY <1>7, Zero DEF KeptForReview, Resting, Rests, appliedVars, Domains, Numbered, HeldJobs,
    Writes
<1>8. ASSUME NEW w \in Workers, autoApply(w) PROVE Writes'
  <2> DEFINE j == worker[w].job
  <2>1. /\ j \in Jobs /\ DOMAIN jobs[j].files \subseteq Nat
    BY <1>8, DomainsOfRules DEF autoApply, Assigned, Numbered
  <2>2. \A r, q \in planApply(jobs[j].torrent, jobs[j].files) : r.item = q.item => r = q
    BY <2>1, PlanUnique
  <2> QED BY <1>8, <2>1, <2>2, Zero DEF autoApply, Begin, appliedVars, Domains, Writes
<1>9. ASSUME NEW j \in Jobs, NEW all \in BOOLEAN, Reclassify(j, all) PROVE Writes'
  BY <1>9, Zero DEF Reclassify, Open, SetJob, SetStatus, Unlocked, Working, appliedVars,
    Domains, Numbered, HeldJobs, Writes
<1>10. ASSUME NEW j \in Jobs, RecheckReads(j) PROVE Writes'
  BY <1>10, Zero DEF RecheckReads, NoRun, appliedVars, Domains, Numbered, HeldJobs, Writes
<1>11. ASSUME NEW j \in Jobs, RecheckStores(j) PROVE Writes'
  BY <1>11, Zero DEF RecheckStores, NoRun, SetJob, StillResolving, Unlocked, appliedVars,
    Domains, Numbered, HeldJobs, Writes
<1>12. ASSUME NEW j \in Jobs, NEW f \in DOMAIN jobs[j].files, NEW d \in Decision, NEW to \in Episodes \cup {NoEpisode},
            PatchProposals(j, f, to, d)
     PROVE  Writes'
  BY <1>12, Zero DEF PatchProposals, Classified, Open, Patchable, PatchedStatus, SetJob,
    Unlocked, Working, appliedVars, Domains, Numbered, HeldJobs, Writes
<1>13. ASSUME NEW j \in Jobs, Discard(j) PROVE Writes'
  BY <1>13, Zero DEF Discard, Open, SetJob, SetStatus, Unlocked, Working, appliedVars,
    Domains, Numbered, HeldJobs, Writes
<1>14. ASSUME NEW j \in Jobs, Apply(j) PROVE Writes'
  <2>1. /\ j \in Jobs /\ DOMAIN jobs[j].files \subseteq Nat
    BY <1>14, DomainsOfRules DEF Apply, Assigned, Numbered
  <2>2. \A r, q \in planApply(jobs[j].torrent, jobs[j].files) : r.item = q.item => r = q
    BY <2>1, PlanUnique
  <2> QED BY <1>14, <2>1, <2>2, Zero DEF Apply, Begin, appliedVars, Domains, Writes
<1>15. ASSUME NEW j \in Jobs, AssignShowAndWait(j) PROVE Writes'
  <2>1. /\ j \in Jobs /\ DOMAIN legacyAcceptShow(jobs[j].files) \subseteq Nat
    BY <1>15, DomainsOfRules DEF AssignShowAndWait, Assigned, Numbered
  <2>2. \A r, q \in planApply(jobs[j].torrent, legacyAcceptShow(jobs[j].files)) : r.item = q.item => r = q
    BY <2>1, PlanUnique
  <2> QED BY <1>15, <2>1, <2>2, Zero DEF AssignShowAndWait, Begin, appliedVars, Domains, Writes
<1>16. ASSUME NEW i \in Episodes, NEW h \in Torrents, NEW f \in FilesOf[h],
            override(i, h, f)
     PROVE  Writes'
  BY <1>16, Zero DEF override, Begin, appliedVars, Domains, Numbered, HeldJobs, Writes
<1>17. ASSUME NEW o \in Owners, writeAssignments(o) PROVE Writes'
  BY <1>17, Zero DEF writeAssignments, appliedVars, lockTitle, Domains, Numbered, HeldJobs,
    Writes
<1>18. ASSUME NEW o \in Owners, Commit(o) PROVE Writes'
  BY <1>18, Zero DEF Commit, NoTx, SetJob, Domains, Numbered, HeldJobs, Writes
<1>19. ASSUME NEW o \in Owners, NEW r \in unrecorded[o], Record(o, r) PROVE Writes'
  BY <1>19, Zero DEF Record, Domains, Numbered, HeldJobs, Writes
<1>20. CASE Restart
  BY <1>20, Zero DEF Restart, Gets, NoRun, NoTx, Resting, recoverInterrupted, Domains,
    Numbered, HeldJobs, Writes
<1>21. CASE UNCHANGED vars
  BY <1>21 DEF vars, Domains, Numbered, HeldJobs, Writes
<1> QED
  BY <1>1, <1>2, <1>3, <1>4, <1>5, <1>6, <1>7, <1>8, <1>9, <1>10, <1>11, <1>12, <1>13,
    <1>14, <1>15, <1>16, <1>17, <1>18, <1>19, <1>20, <1>21 DEF Next, WorkerStep,
    RecheckStep, ApplyStep

LEMMA OneRowStep ==
    ASSUME Domains, Writes, OneActiveRow, [Next]_vars
    PROVE  OneActiveRow'
<1>1. ASSUME NEW h \in Torrents, Assign(h) PROVE OneActiveRow'
  BY <1>1 DEF Assign, NoJob, Open, Working, appliedVars, Domains, Writes, OneActiveRow
<1>2. ASSUME NEW w \in Workers, NEW j \in Jobs, Claim(w, j) PROVE OneActiveRow'
  BY <1>2 DEF Claim, Free, NoTx, SetJob, SetStatus, Sets, appliedVars, Domains, Writes,
    OneActiveRow
<1>3. ASSUME NEW w \in Workers, setFileList(w) PROVE OneActiveRow'
  BY <1>3 DEF setFileList, Goes, Resting, Rests, SetJob, SetStatus, Sets, appliedVars,
    Domains, Writes, OneActiveRow
<1>4. ASSUME NEW w \in Workers, AddFails(w) PROVE OneActiveRow'
  BY <1>4 DEF AddFails, Resting, Rests, SetJob, SetStatus, Unlocked, Working, appliedVars,
    Domains, Writes, OneActiveRow
<1>5. ASSUME NEW w \in Workers, Classify(w) PROVE OneActiveRow'
  BY <1>5 DEF Classify, Goes, Resting, Rests, SetJob, Sets, appliedVars, Domains, Writes,
    OneActiveRow
<1>6. ASSUME NEW w \in Workers, resolveFirst(w) PROVE OneActiveRow'
  BY <1>6 DEF resolveFirst, Resting, Rests, SetJob, Sets, StillResolving, Unlocked,
    appliedVars, Domains, Writes, OneActiveRow
<1>7. ASSUME NEW w \in Workers, KeptForReview(w) PROVE OneActiveRow'
  BY <1>7 DEF KeptForReview, Resting, Rests, appliedVars, Domains, Writes, OneActiveRow
<1>8. ASSUME NEW w \in Workers, autoApply(w) PROVE OneActiveRow'
  BY <1>8 DEF autoApply, Begin, Goes, Sets, Unlocked, appliedVars, Domains, Writes,
    OneActiveRow
<1>9. ASSUME NEW j \in Jobs, NEW all \in BOOLEAN, Reclassify(j, all) PROVE OneActiveRow'
  BY <1>9 DEF Reclassify, Open, SetJob, SetStatus, Unlocked, Working, appliedVars, Domains,
    Writes, OneActiveRow
<1>10. ASSUME NEW j \in Jobs, RecheckReads(j) PROVE OneActiveRow'
  BY <1>10 DEF RecheckReads, NoRun, appliedVars, Domains, Writes, OneActiveRow
<1>11. ASSUME NEW j \in Jobs, RecheckStores(j) PROVE OneActiveRow'
  BY <1>11 DEF RecheckStores, NoRun, SetJob, StillResolving, Unlocked, appliedVars, Domains,
    Writes, OneActiveRow
<1>12. ASSUME NEW j \in Jobs, NEW f \in DOMAIN jobs[j].files, NEW d \in Decision, NEW to \in Episodes \cup {NoEpisode},
            PatchProposals(j, f, to, d)
     PROVE  OneActiveRow'
  BY <1>12 DEF PatchProposals, Classified, Open, Patchable, PatchedStatus, SetJob, Unlocked,
    Working, appliedVars, Domains, Writes, OneActiveRow
<1>13. ASSUME NEW j \in Jobs, Discard(j) PROVE OneActiveRow'
  BY <1>13 DEF Discard, Open, SetJob, SetStatus, Unlocked, Working, appliedVars, Domains,
    Writes, OneActiveRow
<1>14. ASSUME NEW j \in Jobs, Apply(j) PROVE OneActiveRow'
  BY <1>14 DEF Apply, Begin, Unlocked, appliedVars, Domains, Writes, OneActiveRow
<1>15. ASSUME NEW j \in Jobs, AssignShowAndWait(j) PROVE OneActiveRow'
  BY <1>15 DEF AssignShowAndWait, Begin, Open, Unlocked, Working, appliedVars, Domains,
    Writes, OneActiveRow
<1>16. ASSUME NEW i \in Episodes, NEW h \in Torrents, NEW f \in FilesOf[h],
            override(i, h, f)
     PROVE  OneActiveRow'
  BY <1>16 DEF override, Begin, appliedVars, Domains, Writes, OneActiveRow
<1>17. ASSUME NEW o \in Owners, writeAssignments(o) PROVE OneActiveRow'
  BY <1>17 DEF writeAssignments, appliedVars, lockTitle, Domains, Writes, OneActiveRow
<1>18. ASSUME NEW o \in Owners, Commit(o) PROVE OneActiveRow'
  BY <1>18 DEF Commit, NoTx, SetJob, Domains, Writes, OneActiveRow
<1>19. ASSUME NEW o \in Owners, NEW r \in unrecorded[o], Record(o, r) PROVE OneActiveRow'
  BY <1>19 DEF Record, Domains, Writes, OneActiveRow
<1>20. CASE Restart
  BY <1>20 DEF Restart, Gets, NoRun, NoTx, Resting, recoverInterrupted, Domains, Writes,
    OneActiveRow
<1>21. CASE UNCHANGED vars
  BY <1>21 DEF vars, Domains, Writes, OneActiveRow
<1> QED
  BY <1>1, <1>2, <1>3, <1>4, <1>5, <1>6, <1>7, <1>8, <1>9, <1>10, <1>11, <1>12, <1>13,
    <1>14, <1>15, <1>16, <1>17, <1>18, <1>19, <1>20, <1>21 DEF Next, WorkerStep,
    RecheckStep, ApplyStep

-----------------------------------------------------------------------------
(* What steps never do.                                                    *)

\* A job that ended stays as it ended.
Final == \A j \in Jobs : jobs[j].status \in Closed => jobs'[j] = jobs[j]

LEMMA FinalStep ==
    ASSUME Domains, Assigned, Numbered, HeldJobs, [Next]_vars
    PROVE  Final
<1>1. ASSUME NEW h \in Torrents, Assign(h) PROVE Final
  BY <1>1, Zero DEF Assign, NoJob, Open, Working, appliedVars, Domains, Final, Closed
<1>2. ASSUME NEW w \in Workers, NEW j \in Jobs, Claim(w, j) PROVE Final
  BY <1>2, Zero DEF Claim, Free, NoTx, SetJob, SetStatus, Sets, appliedVars, Domains, Final,
    Closed
<1>3. ASSUME NEW w \in Workers, setFileList(w) PROVE Final
  BY <1>3, Zero DEF setFileList, Goes, Resting, Rests, SetJob, SetStatus, Sets, appliedVars,
    Domains, Final, Closed
<1>4. ASSUME NEW w \in Workers, AddFails(w) PROVE Final
  BY <1>4, Zero DEF AddFails, Resting, Rests, SetJob, SetStatus, Unlocked, Working,
    appliedVars, Domains, Final, Closed
<1>5. ASSUME NEW w \in Workers, Classify(w) PROVE Final
  <2> DEFINE j == worker[w].job
  <2>1. j \in Jobs /\ Settles(j, "classifying") /\ UNCHANGED <<rows, subs, unrecorded, run, tx>>
    BY <1>5, ClassifyDoes
  <2>2. CASE UNCHANGED jobs
    BY <2>1, <2>2 DEF Final
  <2>3. CASE jobs[j].status = "classifying" /\ \E s, ps : SetJob(j, s, ps) /\ DOMAIN ps \subseteq Nat /\ (s = settledStatus(ps) \/ s = "resolving")
    <3>1. PICK s, ps : SetJob(j, s, ps) /\ DOMAIN ps \subseteq Nat /\ (s = settledStatus(ps) \/ s = "resolving")
      BY <2>3
    <3>2. s \in {"resolving", "needs_review", "ready"}
      BY <3>1, StatusOfSettled
    <3> QED BY <2>1, <2>3, <3>1, <3>2, Zero DEF SetJob, Domains, Final, Closed
  <2> QED BY <2>1, <2>2, <2>3 DEF Settles
<1>6. ASSUME NEW w \in Workers, resolveFirst(w) PROVE Final
  <2> DEFINE j == worker[w].job
  <2>1. j \in Jobs /\ Settles(j, "resolving") /\ Unlocked(j) /\ UNCHANGED <<rows, subs, unrecorded, run, tx>>
    BY <1>6, ResolveDoes
  <2>2. CASE UNCHANGED jobs
    BY <2>1, <2>2 DEF Final
  <2>3. CASE jobs[j].status = "resolving" /\ \E ps : SetJob(j, settledStatus(ps), ps) /\ DOMAIN ps \subseteq Nat
    <3>1. PICK ps : SetJob(j, settledStatus(ps), ps) /\ DOMAIN ps \subseteq Nat
      BY <2>3
    <3>2. settledStatus(ps) \in {"needs_review", "ready"}
      BY StatusOfSettled
    <3> QED BY <2>1, <2>3, <3>1, <3>2, Zero DEF SetJob, Unlocked, Domains, Final, Closed
  <2>4. CASE jobs[j].status = "resolving" /\ \E s, ps : SetJob(j, s, ps) /\ DOMAIN ps \subseteq Nat /\ s = settledStatus(ps)
    BY <2>3, <2>4
  <2> QED BY <2>1, <2>2, <2>4 DEF Settles
<1>7. ASSUME NEW w \in Workers, KeptForReview(w) PROVE Final
  BY <1>7, Zero DEF KeptForReview, Resting, Rests, appliedVars, Domains, Final, Closed
<1>8. ASSUME NEW w \in Workers, autoApply(w) PROVE Final
  BY <1>8, Zero DEF autoApply, Begin, Goes, Sets, Unlocked, appliedVars, Domains, Final,
    Closed
<1>9. ASSUME NEW j \in Jobs, NEW all \in BOOLEAN, Reclassify(j, all) PROVE Final
  BY <1>9, Zero DEF Reclassify, Open, SetJob, SetStatus, Unlocked, Working, appliedVars,
    Domains, Final, Closed
<1>10. ASSUME NEW j \in Jobs, RecheckReads(j) PROVE Final
  BY <1>10, Zero DEF RecheckReads, NoRun, appliedVars, Domains, Final, Closed
<1>11. ASSUME NEW j \in Jobs, RecheckStores(j) PROVE Final
  <2>1. Settles(j, "resolving") /\ Unlocked(j) /\ UNCHANGED <<rows, subs, unrecorded, worker, tx>>
    BY <1>11, RecheckDoes
  <2>2. CASE UNCHANGED jobs
    BY <2>1, <2>2 DEF Final
  <2>3. CASE jobs[j].status = "resolving" /\ \E ps : SetJob(j, settledStatus(ps), ps) /\ DOMAIN ps \subseteq Nat
    <3>1. PICK ps : SetJob(j, settledStatus(ps), ps) /\ DOMAIN ps \subseteq Nat
      BY <2>3
    <3>2. settledStatus(ps) \in {"needs_review", "ready"}
      BY StatusOfSettled
    <3> QED BY <2>1, <2>3, <3>1, <3>2, Zero DEF SetJob, Unlocked, Domains, Final, Closed
  <2>4. CASE jobs[j].status = "resolving" /\ \E s, ps : SetJob(j, s, ps) /\ DOMAIN ps \subseteq Nat /\ s = settledStatus(ps)
    BY <2>3, <2>4
  <2> QED BY <2>1, <2>2, <2>4 DEF Settles
<1>12. ASSUME NEW j \in Jobs, NEW f \in DOMAIN jobs[j].files, NEW d \in Decision, NEW to \in Episodes \cup {NoEpisode},
            PatchProposals(j, f, to, d)
     PROVE  Final
  BY <1>12, Zero DEF PatchProposals, Classified, Open, Patchable, PatchedStatus, SetJob,
    Unlocked, Working, appliedVars, Domains, Final, Closed
<1>13. ASSUME NEW j \in Jobs, Discard(j) PROVE Final
  BY <1>13, Zero DEF Discard, Open, SetJob, SetStatus, Unlocked, Working, appliedVars,
    Domains, Final, Closed
<1>14. ASSUME NEW j \in Jobs, Apply(j) PROVE Final
  BY <1>14, Zero DEF Apply, Begin, Unlocked, appliedVars, Domains, Final, Closed
<1>15. ASSUME NEW j \in Jobs, AssignShowAndWait(j) PROVE Final
  BY <1>15, Zero DEF AssignShowAndWait, Begin, Open, Unlocked, Working, appliedVars,
    Domains, Final, Closed
<1>16. ASSUME NEW i \in Episodes, NEW h \in Torrents, NEW f \in FilesOf[h],
            override(i, h, f)
     PROVE  Final
  BY <1>16, Zero DEF override, Begin, appliedVars, Domains, Final, Closed
<1>17. ASSUME NEW o \in Owners, writeAssignments(o) PROVE Final
  BY <1>17, Zero DEF writeAssignments, appliedVars, lockTitle, Domains, Final, Closed
<1>18. ASSUME NEW o \in Owners, Commit(o) PROVE Final
  <2>1. CASE o = 0
    BY <1>18, <2>1 DEF Commit, Final
  <2>2. CASE o # 0
    <3>1. o \in Jobs /\ SetJob(o, "applied", tx[o].files) /\ jobs[o].status \notin Closed
      BY <1>18, <2>2 DEF Commit, Owners, HeldJobs, Closed
    <3> QED BY <3>1 DEF SetJob, Domains, Final
  <2> QED BY <2>1, <2>2
<1>19. ASSUME NEW o \in Owners, NEW r \in unrecorded[o], Record(o, r) PROVE Final
  BY <1>19, Zero DEF Record, Domains, Final, Closed
<1>20. CASE Restart
  BY <1>20 DEF Restart, recoverInterrupted, Final, Closed
<1>21. CASE UNCHANGED vars
  BY <1>21 DEF vars, Domains, Final, Closed
<1> QED
  BY <1>1, <1>2, <1>3, <1>4, <1>5, <1>6, <1>7, <1>8, <1>9, <1>10, <1>11, <1>12, <1>13,
    <1>14, <1>15, <1>16, <1>17, <1>18, <1>19, <1>20, <1>21 DEF Next, WorkerStep,
    RecheckStep, ApplyStep

\* An apply that ends makes the torrent's rows those its job accepts.
Accepts ==
  \A j \in Jobs :
    (jobs[j].status # "applied" /\ jobs'[j].status = "applied" /\ tx[j].mode # "legacy")
    => LET h == jobs[j].torrent
           ps == jobs[j].files
       IN {r \in rows' : r.torrent = h} = planApply(h, ps) /\ settledStatus(ps) = "ready"

\* Whether some job becomes applied.
Ends == \E j \in Jobs : jobs[j].status # "applied" /\ jobs'[j].status = "applied"

LEMMA CommitAccepts ==
    ASSUME Domains, HeldJobs, Writes, SettledAgrees, NEW j \in Jobs, Commit(j), tx[j].mode # "legacy"
    PROVE  /\ {r \in rows' : r.torrent = jobs[j].torrent} = planApply(jobs[j].torrent, jobs[j].files)
           /\ settledStatus(jobs[j].files) = "ready"
<1> DEFINE h == jobs[j].torrent
           ps == jobs[j].files
<1>1. tx[j].at = "written" /\ rows' = (rows \ tx[j].out) \cup tx[j].ins
  BY DEF Commit
<1>2. /\ tx[j].ins = planApply(h, ps) /\ tx[j].torrent = h /\ tx[j].mode # "override"
      /\ jobs[j].status = "ready"
  BY <1>1 DEF HeldJobs
<1>3. \A r \in rows \ tx[j].ins : r.torrent = h => r \in tx[j].out
  BY <1>1, <1>2, Zero DEF Writes
<1>4. \A r \in planApply(h, ps) : r.torrent = h
  BY DEF planApply
<1>5. {r \in rows' : r.torrent = h} = planApply(h, ps)
  BY <1>1, <1>2, <1>3, <1>4
<1>6. settledStatus(ps) = "ready"
  BY <1>2 DEF SettledAgrees
<1> QED BY <1>5, <1>6

LEMMA OthersEndNone ==
    ASSUME Domains, Assigned, Numbered, ~\E o \in Owners : Commit(o), [Next]_vars
    PROVE  ~Ends
<1>1. ASSUME NEW h \in Torrents, Assign(h) PROVE ~Ends
  BY <1>1, Zero, StatusOfSettled DEF Assign, NoJob, Open, Working, appliedVars, Domains,
    Ends
<1>2. ASSUME NEW w \in Workers, NEW j \in Jobs, Claim(w, j) PROVE ~Ends
  BY <1>2, Zero, StatusOfSettled DEF Claim, Free, NoTx, SetJob, SetStatus, Sets,
    appliedVars, Domains, Ends
<1>3. ASSUME NEW w \in Workers, setFileList(w) PROVE ~Ends
  BY <1>3, Zero, StatusOfSettled DEF setFileList, Goes, Resting, Rests, SetJob, SetStatus,
    Sets, appliedVars, Domains, Ends
<1>4. ASSUME NEW w \in Workers, AddFails(w) PROVE ~Ends
  BY <1>4, Zero, StatusOfSettled DEF AddFails, Resting, Rests, SetJob, SetStatus, Unlocked,
    Working, appliedVars, Domains, Ends
<1>5. ASSUME NEW w \in Workers, Classify(w) PROVE ~Ends
  <2> DEFINE j == worker[w].job
  <2>1. j \in Jobs /\ Settles(j, "classifying") /\ UNCHANGED <<rows, subs, unrecorded, run, tx>>
    BY <1>5, ClassifyDoes
  <2>2. CASE UNCHANGED jobs
    BY <2>1, <2>2 DEF Ends
  <2>3. CASE jobs[j].status = "classifying" /\ \E s, ps : SetJob(j, s, ps) /\ DOMAIN ps \subseteq Nat /\ (s = settledStatus(ps) \/ s = "resolving")
    <3>1. PICK s, ps : SetJob(j, s, ps) /\ DOMAIN ps \subseteq Nat /\ (s = settledStatus(ps) \/ s = "resolving")
      BY <2>3
    <3>2. s \in {"resolving", "needs_review", "ready"}
      BY <3>1, StatusOfSettled
    <3> QED BY <2>1, <2>3, <3>1, <3>2, Zero DEF SetJob, Domains, Ends
  <2> QED BY <2>1, <2>2, <2>3 DEF Settles
<1>6. ASSUME NEW w \in Workers, resolveFirst(w) PROVE ~Ends
  <2> DEFINE j == worker[w].job
  <2>1. j \in Jobs /\ Settles(j, "resolving") /\ Unlocked(j) /\ UNCHANGED <<rows, subs, unrecorded, run, tx>>
    BY <1>6, ResolveDoes
  <2>2. CASE UNCHANGED jobs
    BY <2>1, <2>2 DEF Ends
  <2>3. CASE jobs[j].status = "resolving" /\ \E ps : SetJob(j, settledStatus(ps), ps) /\ DOMAIN ps \subseteq Nat
    <3>1. PICK ps : SetJob(j, settledStatus(ps), ps) /\ DOMAIN ps \subseteq Nat
      BY <2>3
    <3>2. settledStatus(ps) \in {"needs_review", "ready"}
      BY StatusOfSettled
    <3> QED BY <2>1, <2>3, <3>1, <3>2, Zero DEF SetJob, Unlocked, Domains, Ends
  <2>4. CASE jobs[j].status = "resolving" /\ \E s, ps : SetJob(j, s, ps) /\ DOMAIN ps \subseteq Nat /\ s = settledStatus(ps)
    BY <2>3, <2>4
  <2> QED BY <2>1, <2>2, <2>4 DEF Settles
<1>7. ASSUME NEW w \in Workers, KeptForReview(w) PROVE ~Ends
  BY <1>7, Zero, StatusOfSettled DEF KeptForReview, Resting, Rests, appliedVars, Domains,
    Ends
<1>8. ASSUME NEW w \in Workers, autoApply(w) PROVE ~Ends
  BY <1>8, Zero, StatusOfSettled DEF autoApply, Begin, Goes, Sets, Unlocked, appliedVars,
    Domains, Ends
<1>9. ASSUME NEW j \in Jobs, NEW all \in BOOLEAN, Reclassify(j, all) PROVE ~Ends
  BY <1>9, Zero, StatusOfSettled DEF Reclassify, Open, SetJob, SetStatus, Unlocked, Working,
    appliedVars, Domains, Ends
<1>10. ASSUME NEW j \in Jobs, RecheckReads(j) PROVE ~Ends
  BY <1>10, Zero, StatusOfSettled DEF RecheckReads, NoRun, appliedVars, Domains, Ends
<1>11. ASSUME NEW j \in Jobs, RecheckStores(j) PROVE ~Ends
  <2>1. Settles(j, "resolving") /\ Unlocked(j) /\ UNCHANGED <<rows, subs, unrecorded, worker, tx>>
    BY <1>11, RecheckDoes
  <2>2. CASE UNCHANGED jobs
    BY <2>1, <2>2 DEF Ends
  <2>3. CASE jobs[j].status = "resolving" /\ \E ps : SetJob(j, settledStatus(ps), ps) /\ DOMAIN ps \subseteq Nat
    <3>1. PICK ps : SetJob(j, settledStatus(ps), ps) /\ DOMAIN ps \subseteq Nat
      BY <2>3
    <3>2. settledStatus(ps) \in {"needs_review", "ready"}
      BY StatusOfSettled
    <3> QED BY <2>1, <2>3, <3>1, <3>2, Zero DEF SetJob, Unlocked, Domains, Ends
  <2>4. CASE jobs[j].status = "resolving" /\ \E s, ps : SetJob(j, s, ps) /\ DOMAIN ps \subseteq Nat /\ s = settledStatus(ps)
    BY <2>3, <2>4
  <2> QED BY <2>1, <2>2, <2>4 DEF Settles
<1>12. ASSUME NEW j \in Jobs, NEW f \in DOMAIN jobs[j].files, NEW d \in Decision, NEW to \in Episodes \cup {NoEpisode},
            PatchProposals(j, f, to, d)
     PROVE  ~Ends
  BY <1>12, Zero, StatusOfSettled DEF PatchProposals, Classified, Open, Patchable,
    PatchedStatus, SetJob, Unlocked, Working, appliedVars, Domains, Ends
<1>13. ASSUME NEW j \in Jobs, Discard(j) PROVE ~Ends
  BY <1>13, Zero, StatusOfSettled DEF Discard, Open, SetJob, SetStatus, Unlocked, Working,
    appliedVars, Domains, Ends
<1>14. ASSUME NEW j \in Jobs, Apply(j) PROVE ~Ends
  BY <1>14, Zero, StatusOfSettled DEF Apply, Begin, Unlocked, appliedVars, Domains, Ends
<1>15. ASSUME NEW j \in Jobs, AssignShowAndWait(j) PROVE ~Ends
  BY <1>15, Zero, StatusOfSettled DEF AssignShowAndWait, Begin, Open, Unlocked, Working,
    appliedVars, Domains, Ends
<1>16. ASSUME NEW i \in Episodes, NEW h \in Torrents, NEW f \in FilesOf[h],
            override(i, h, f)
     PROVE  ~Ends
  BY <1>16, Zero, StatusOfSettled DEF override, Begin, appliedVars, Domains, Ends
<1>17. ASSUME NEW o \in Owners, writeAssignments(o) PROVE ~Ends
  BY <1>17, Zero, StatusOfSettled DEF writeAssignments, appliedVars, lockTitle, Domains,
    Ends
<1>18. ASSUME NEW o \in Owners, NEW r \in unrecorded[o], Record(o, r) PROVE ~Ends
  BY <1>18, Zero, StatusOfSettled DEF Record, Domains, Ends
<1>19. CASE Restart
  <2>1. \A j \in Jobs : jobs'[j] = recoverInterrupted(jobs[j])
    BY <1>19 DEF Restart
  <2>2. SUFFICES ASSUME NEW j \in Jobs, jobs[j].status # "applied", jobs'[j].status = "applied"
                 PROVE  FALSE
    BY DEF Ends
  <2>3. CASE jobs[j].status = "resolving"
    <3>1. jobs'[j] = Gets(jobs[j], settledStatus(jobs[j].files))
      BY <2>1, <2>3 DEF recoverInterrupted
    <3> QED BY <2>2, <3>1, StatusOfSettled DEF Gets
  <2>4. CASE jobs[j].status # "resolving"
    <3>1. jobs'[j] = Gets(jobs[j], "queued") \/ jobs'[j] = jobs[j]
      BY <2>1, <2>4 DEF recoverInterrupted
    <3> QED BY <2>2, <3>1 DEF Gets
  <2> QED BY <2>3, <2>4
<1>20. CASE UNCHANGED vars
  BY <1>20 DEF vars, Domains, Ends
<1> QED
  BY <1>1, <1>2, <1>3, <1>4, <1>5, <1>6, <1>7, <1>8, <1>9, <1>10, <1>11, <1>12, <1>13,
    <1>14, <1>15, <1>16, <1>17, <1>18, <1>19, <1>20 DEF Next, WorkerStep, RecheckStep,
    ApplyStep

LEMMA AcceptsStep ==
    ASSUME Domains, Assigned, Numbered, HeldJobs, Writes, SettledAgrees, [Next]_vars
    PROVE  Accepts
<1> SUFFICES ASSUME NEW j \in Jobs, jobs[j].status # "applied", jobs'[j].status = "applied",
                    tx[j].mode # "legacy"
             PROVE  /\ {r \in rows' : r.torrent = jobs[j].torrent} = planApply(jobs[j].torrent, jobs[j].files)
                    /\ settledStatus(jobs[j].files) = "ready"
  BY DEF Accepts
<1>1. PICK o \in Owners : Commit(o)
  BY OthersEndNone DEF Ends
<1>2. o = j
  <2>1. o # 0
    BY <1>1 DEF Commit
  <2>2. SetJob(o, "applied", tx[o].files)
    BY <1>1, <2>1 DEF Commit
  <2> QED BY <2>2 DEF SetJob, Domains
<1> QED BY <1>1, <1>2, CommitAccepts

\* A decided file of a job is still as it was.
Kept(j) == \A f \in DOMAIN jobs[j].files :
  jobs[j].files[f].decided => f \in DOMAIN jobs'[j].files /\ jobs'[j].files[f] = jobs[j].files[f]
KeptButByUser(j) == \A f \in DOMAIN jobs[j].files :
  (jobs[j].files[f].decided /\ jobs'[j].files # jobs[j].files)
  => \/ f \in DOMAIN jobs'[j].files /\ jobs'[j].files[f] = jobs[j].files[f]
     \/ \E d \in Decision, to \in Episodes \cup {NoEpisode} : PatchProposals(j, f, to, d)
     \/ Commit(j) /\ tx[j].mode = "legacy"
Stands == \A j \in Jobs : KeptButByUser(j)

LEMMA KeptStands == ASSUME \A j \in Jobs : Kept(j) PROVE Stands
BY DEF Kept, KeptButByUser, Stands

LEMMA SameFilesStand ==
    ASSUME \A j \in Jobs : jobs'[j].files = jobs[j].files PROVE Stands
BY DEF KeptButByUser, Stands

LEMMA SetsOneJob ==
    ASSUME Domains, NEW j \in Jobs, NEW s, NEW ps, SetJob(j, s, ps)
    PROVE  jobs'[j].files = ps /\ \A k \in Jobs \ {j} : jobs'[k] = jobs[k]
BY DEF SetJob, Domains

LEMMA OneJobStands ==
    ASSUME Domains, NEW j \in Jobs, NEW s, NEW ps, SetJob(j, s, ps), KeptButByUser(j)
    PROVE  Stands
BY SetsOneJob DEF KeptButByUser, Stands

LEMMA NothingDecided ==
    ASSUME Domains, Numbered, NEW j \in Jobs, NEW s, NEW ps, SetJob(j, s, ps),
           jobs[j].status \in {"none", "queued", "fetching_metadata", "classifying"}
    PROVE  Stands
<1>1. DOMAIN jobs[j].files = {}
  BY DEF Numbered, NoFiles
<1> QED BY <1>1, OneJobStands DEF KeptButByUser

LEMMA FirstRunKeeps ==
    ASSUME NEW ps, NEW qs, NEW f \in DOMAIN ps, ps[f].decided
    PROVE  f \in DOMAIN mergeFirstRun(ps, qs) /\ mergeFirstRun(ps, qs)[f] = ps[f]
BY DEF mergeFirstRun

LEMMA RecheckKeeps ==
    ASSUME NEW ps, NEW r, NEW answers, NEW all, NEW f \in DOMAIN ps, ps[f].decided
    PROVE  /\ f \in DOMAIN recheckChanges(ps, r, answers, all)
           /\ recheckChanges(ps, r, answers, all)[f] = ps[f]
<1>1. f \notin recheckScope(ps, all)
  BY DEF recheckScope
<1> QED BY <1>1 DEF recheckChanges

LEMMA StandsStep ==
    ASSUME Domains, Assigned, Numbered, HeldJobs, [Next]_vars
    PROVE  Stands
<1>1. ASSUME NEW h \in Torrents, Assign(h) PROVE Stands
  <2>1. PICK j \in Jobs : jobs[j] = NoJob /\ jobs' = [jobs EXCEPT ![j] =
                          [status |-> "queued", torrent |-> h, files |-> NoFiles]]
    BY <1>1 DEF Assign
  <2>2. DOMAIN jobs[j].files = {}
    BY <2>1 DEF NoJob, NoFiles
  <2>3. \A k \in Jobs \ {j} : jobs'[k] = jobs[k]
    BY <2>1 DEF Domains
  <2> QED BY <2>2, <2>3 DEF Stands, KeptButByUser
<1>2. ASSUME NEW w \in Workers, NEW j \in Jobs, Claim(w, j) PROVE Stands
  <2>1. jobs[j].status = "queued" /\ SetJob(j, "fetching_metadata", jobs[j].files)
    BY <1>2 DEF Claim, SetStatus
  <2> QED BY <2>1, NothingDecided
<1>3. ASSUME NEW w \in Workers, setFileList(w) PROVE Stands
  <2> DEFINE j == worker[w].job
  <2>1. j \in Jobs
    BY <1>3 DEF setFileList, Assigned
  <2>2. CASE jobs[j].status = "fetching_metadata"
    <3>1. SetJob(j, "classifying", jobs[j].files)
      BY <1>3, <2>2 DEF setFileList, SetStatus
    <3> QED BY <2>1, <2>2, <3>1, NothingDecided
  <2>3. CASE jobs[j].status # "fetching_metadata"
    <3>1. jobs' = jobs
      BY <1>3, <2>3 DEF setFileList
    <3> QED BY <3>1, SameFilesStand
  <2> QED BY <2>2, <2>3
<1>4. ASSUME NEW w \in Workers, AddFails(w) PROVE Stands
  <2> DEFINE j == worker[w].job
  <2>1. j \in Jobs
    BY <1>4 DEF AddFails, Assigned
  <2>2. CASE jobs[j].status \in Working
    <3>1. SetJob(j, "failed", jobs[j].files)
      BY <1>4, <2>2 DEF AddFails, SetStatus
    <3>2. jobs'[j].files = jobs[j].files
      BY <2>1, <3>1, SetsOneJob
    <3> QED BY <2>1, <3>1, <3>2, OneJobStands DEF KeptButByUser
  <2>3. CASE jobs[j].status \notin Working
    <3>1. jobs' = jobs
      BY <1>4, <2>3 DEF AddFails
    <3> QED BY <3>1, SameFilesStand
  <2> QED BY <2>2, <2>3
<1>5. ASSUME NEW w \in Workers, Classify(w) PROVE Stands
  <2> DEFINE j == worker[w].job
  <2>1. j \in Jobs /\ Settles(j, "classifying")
    BY <1>5, ClassifyDoes
  <2>2. CASE UNCHANGED jobs
    BY <2>2, SameFilesStand
  <2>3. CASE jobs[j].status = "classifying" /\ \E s, ps : SetJob(j, s, ps)
    <3>1. PICK s, ps : SetJob(j, s, ps)
      BY <2>3
    <3> QED BY <2>1, <2>3, <3>1, NothingDecided
  <2> QED BY <2>1, <2>2, <2>3 DEF Settles
<1>6. ASSUME NEW w \in Workers, resolveFirst(w) PROVE Stands
  <2> DEFINE j == worker[w].job
             drafts(answers) == Drafts(mergeAnswers(worker[w].reading, answers))
             q(answers) == mergeFirstRun(jobs[j].files, drafts(answers))
  <2>1. j \in Jobs
    BY <1>6 DEF resolveFirst, Assigned
  <2>2. CASE StillResolving(j)
    <3>1. PICK answers : SetJob(j, settledStatus(q(answers)), q(answers))
      BY <1>6, <2>2 DEF resolveFirst
    <3>2. jobs'[j].files = q(answers)
      BY <2>1, <3>1, SetsOneJob
    <3>3. Kept(j)
      BY <3>2, FirstRunKeeps DEF Kept
    <3> QED BY <2>1, <3>1, <3>3, OneJobStands DEF Kept, KeptButByUser
  <2>3. CASE ~StillResolving(j)
    <3>1. jobs' = jobs
      BY <1>6, <2>3 DEF resolveFirst
    <3> QED BY <3>1, SameFilesStand
  <2> QED BY <2>2, <2>3
<1>7. ASSUME NEW w \in Workers, KeptForReview(w) PROVE Stands
  <2>1. jobs' = jobs
    BY <1>7 DEF KeptForReview
  <2> QED BY <2>1, SameFilesStand
<1>8. ASSUME NEW w \in Workers, autoApply(w) PROVE Stands
  <2>1. jobs' = jobs
    BY <1>8 DEF autoApply
  <2> QED BY <2>1, SameFilesStand
<1>9. ASSUME NEW j \in Jobs, NEW all \in BOOLEAN, Reclassify(j, all) PROVE Stands
  <2>1. j \in Jobs /\ SetJob(j, "resolving", jobs[j].files)
    BY <1>9 DEF Reclassify, SetStatus
  <2>2. jobs'[j].files = jobs[j].files
    BY <2>1, SetsOneJob
  <2> QED BY <2>1, <2>2, OneJobStands DEF KeptButByUser
<1>10. ASSUME NEW j \in Jobs, RecheckReads(j) PROVE Stands
  <2>1. jobs' = jobs
    BY <1>10 DEF RecheckReads
  <2> QED BY <2>1, SameFilesStand
<1>11. ASSUME NEW j \in Jobs, RecheckStores(j) PROVE Stands
  <2> DEFINE reading(fresh) == currentAnswers(run[j].seen, fresh)
             q(answers, fresh) == recheckChanges(jobs[j].files, reading(fresh), answers, run[j].all)
  <2>2. CASE StillResolving(j)
    <3>1. PICK answers, fresh : SetJob(j, settledStatus(q(answers, fresh)), q(answers, fresh))
      BY <1>11, <2>2 DEF RecheckStores
    <3>2. jobs'[j].files = q(answers, fresh)
      BY <3>1, SetsOneJob
    <3>3. Kept(j)
      BY <3>2, RecheckKeeps DEF Kept
    <3> QED BY <3>1, <3>3, OneJobStands DEF Kept, KeptButByUser
  <2>3. CASE ~StillResolving(j)
    <3>1. jobs' = jobs
      BY <1>11, <2>3 DEF RecheckStores
    <3> QED BY <3>1, SameFilesStand
  <2> QED BY <2>2, <2>3
<1>12. ASSUME NEW j \in Jobs, NEW f \in DOMAIN jobs[j].files, NEW d \in Decision, NEW to \in Episodes \cup {NoEpisode},
            PatchProposals(j, f, to, d)
     PROVE  Stands
  <2> DEFINE q == [jobs[j].files EXCEPT ![f] = Decided([jobs[j].files[f] EXCEPT !.to = to, !.decision = d])]
  <2>1. SetJob(j, PatchedStatus(j, q), q)
    BY <1>12 DEF PatchProposals
  <2>2. jobs'[j].files = q
    BY <2>1, SetsOneJob
  <2>3. \A g \in DOMAIN jobs[j].files \ {f} : g \in DOMAIN q /\ q[g] = jobs[j].files[g]
    OBVIOUS
  <2>4. \E dd \in Decision, tt \in Episodes \cup {NoEpisode} : PatchProposals(j, f, tt, dd)
    BY <1>12
  <2>5. KeptButByUser(j)
    <3> HIDE DEF q
    <3> QED BY <2>2, <2>3, <2>4 DEF KeptButByUser
  <2> QED BY <2>1, <2>5, OneJobStands
<1>13. ASSUME NEW j \in Jobs, Discard(j) PROVE Stands
  <2>1. j \in Jobs /\ SetJob(j, "cancelled", jobs[j].files)
    BY <1>13 DEF Discard, SetStatus
  <2>2. jobs'[j].files = jobs[j].files
    BY <2>1, SetsOneJob
  <2> QED BY <2>1, <2>2, OneJobStands DEF KeptButByUser
<1>14. ASSUME NEW j \in Jobs, Apply(j) PROVE Stands
  <2>1. jobs' = jobs
    BY <1>14 DEF Apply
  <2> QED BY <2>1, SameFilesStand
<1>15. ASSUME NEW j \in Jobs, AssignShowAndWait(j) PROVE Stands
  <2>1. jobs' = jobs
    BY <1>15 DEF AssignShowAndWait
  <2> QED BY <2>1, SameFilesStand
<1>16. ASSUME NEW i \in Episodes, NEW h \in Torrents, NEW f \in FilesOf[h],
            override(i, h, f)
     PROVE  Stands
  <2>1. jobs' = jobs
    BY <1>16 DEF override
  <2> QED BY <2>1, SameFilesStand
<1>17. ASSUME NEW o \in Owners, writeAssignments(o) PROVE Stands
  <2>1. jobs' = jobs
    BY <1>17 DEF writeAssignments
  <2> QED BY <2>1, SameFilesStand
<1>18. ASSUME NEW o \in Owners, Commit(o) PROVE Stands
  <2>1. CASE o = 0
    <3>1. jobs' = jobs
      BY <1>18, <2>1 DEF Commit
    <3> QED BY <3>1, SameFilesStand
  <2>2. CASE o # 0
    <3>1. o \in Jobs /\ SetJob(o, "applied", tx[o].files)
      BY <1>18, <2>2 DEF Commit, Owners
    <3>2. tx[o].mode = "legacy" \/ tx[o].files = jobs[o].files
      BY <1>18, <3>1 DEF Commit, HeldJobs
    <3>3. jobs'[o].files = tx[o].files
      BY <3>1, SetsOneJob
    <3>4. KeptButByUser(o)
      BY <1>18, <3>2, <3>3 DEF KeptButByUser
    <3> QED BY <3>1, <3>4, OneJobStands
  <2> QED BY <2>1, <2>2
<1>19. ASSUME NEW o \in Owners, NEW r \in unrecorded[o], Record(o, r) PROVE Stands
  <2>1. jobs' = jobs
    BY <1>19 DEF Record
  <2> QED BY <2>1, SameFilesStand
<1>20. CASE Restart
  <2>1. \A j \in Jobs : jobs'[j] = recoverInterrupted(jobs[j])
    BY <1>20 DEF Restart
  <2>2. \A j \in Jobs : recoverInterrupted(jobs[j]).files = jobs[j].files
    <3> TAKE j \in Jobs
    <3>1. CASE jobs[j].status \in {"fetching_metadata", "classifying", "resolving"}
      <4>1. \E s : recoverInterrupted(jobs[j]) = Gets(jobs[j], s)
        BY <3>1 DEF recoverInterrupted
      <4> QED BY <4>1 DEF Gets
    <3>2. CASE jobs[j].status \notin {"fetching_metadata", "classifying", "resolving"}
      BY <3>2 DEF recoverInterrupted
    <3> QED BY <3>1, <3>2
  <2> QED BY <2>1, <2>2, SameFilesStand
<1>21. CASE UNCHANGED vars
  BY <1>21, SameFilesStand DEF vars
<1> QED
  BY <1>1, <1>2, <1>3, <1>4, <1>5, <1>6, <1>7, <1>8, <1>9, <1>10, <1>11, <1>12, <1>13,
    <1>14, <1>15, <1>16, <1>17, <1>18, <1>19, <1>20, <1>21 DEF Next, WorkerStep,
    RecheckStep, ApplyStep

-----------------------------------------------------------------------------
(* The invariant is inductive, and what follows.                           *)

LEMMA InitInv == Init => IInv
<1> SUFFICES ASSUME Init PROVE IInv
  OBVIOUS
<1>1. Domains
  BY DEF Init, Domains
<1>2. Assigned
  BY DEF Init, Assigned, Resting
<1>3. \A j \in Jobs : jobs[j] = NoJob
  BY DEF Init
<1>4. Numbered /\ SettledAgrees
  BY <1>3 DEF Numbered, SettledAgrees, NoJob, NoFiles
<1>5. \A o \in Owners : tx[o].at = "none"
  BY DEF Init, NoTx
<1>6. HeldJobs /\ Writes
  BY <1>5, Zero DEF HeldJobs, Writes
<1>7. OneActiveRow
  BY DEF Init, OneActiveRow
<1> QED BY <1>1, <1>2, <1>4, <1>6, <1>7 DEF IInv

LEMMA NextInv == IInv /\ [Next]_vars => IInv'
BY DomainsStep, AssignedStep, NumberedStep, HeldJobsStep, SettledStep, WritesStep, OneRowStep
  DEF IInv

LEMMA Inductive == Spec => []IInv
BY InitInv, NextInv, PTL DEF Spec

(* An episode has one active file, whatever applies and overrides overlap  *)
(* on it (lockTitle, writeAssignments).                                    *)
THEOREM OneRowEach == Spec => []OneActiveRow
<1>1. IInv => OneActiveRow
  BY DEF IInv
<1> QED BY <1>1, Inductive, PTL

(* A settled job is ready exactly when nothing of it waits for the user    *)
(* (settledStatus wherever the proposals change, recoverInterrupted).      *)
THEOREM SettledIsRight == Spec => []SettledAgrees
<1>1. IInv => SettledAgrees
  BY DEF IInv
<1> QED BY <1>1, Inductive, PTL

(* An AI run, a restart or an apply leaves what the user decided about a   *)
(* file (mergeFirstRun, recheckChanges).                                   *)
THEOREM DecisionsStand == Spec => UserDecisionStands
<1>1. IInv /\ [Next]_vars => [Stands]_vars
  BY StandsStep DEF IInv
<1> QED BY <1>1, Inductive, PTL DEF Spec, UserDecisionStands, Stands, KeptButByUser

(* An apply makes the torrent's rows those its job accepts as it commits   *)
(* (applyChecks, writeAssignments, MarkApplied under the job's row lock).  *)
THEOREM ApplyIsWhole == Spec => AppliedIsAccepted
<1>1. IInv /\ [Next]_vars => [Accepts]_vars
  BY AcceptsStep DEF IInv
<1> QED BY <1>1, Inductive, PTL DEF Spec, AppliedIsAccepted, Accepts

(* A job that ended stays as it ended: late answers are dropped            *)
(* (resolveFirst, runRecheck, Fail).                                       *)
THEOREM EndedStaysEnded == Spec => ClosedIsFinal
<1>1. IInv /\ [Next]_vars => [Final]_vars
  BY FinalStep DEF IInv
<1> QED BY <1>1, Inductive, PTL DEF Spec, ClosedIsFinal, Final
=============================================================================
