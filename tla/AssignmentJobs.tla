--------------------------- MODULE AssignmentJobs ---------------------------
(***************************************************************************)
(* Assignment jobs (service/assignment_*.go, library/assignment_job_repo): *)
(* torrents assigned to one show, classified by workers and the AI,        *)
(* reviewed by users and applied to the show's episodes.                   *)
(*                                                                         *)
(* A change of a job is one transaction on its locked row, and one step,   *)
(* but for an apply and a manual override: those check, write (under the   *)
(* title's lock) and commit in three, and the rows they write are seen by  *)
(* nobody until the commit.  The torrent's subtitles are recorded after    *)
(* it, one at a time.                                                      *)
(***************************************************************************)
EXTENDS AssignmentRules

CONSTANTS
  Workers,     \* goroutines that claim jobs
  MaxJobs,
  MaxChanges,  \* changes by users, re-checks and restarts in a behaviour
  Readings,    \* what the rules make of the files of each torrent
  AIModes,     \* "off", "auto" or "always"
  Answers,     \* the AI's answers for a file
  Nobody

ASSUME JobsAssumption ==
  /\ MaxJobs \in Nat /\ MaxChanges \in Nat
  /\ \A h \in Torrents : Readings[h] \subseteq [FilesOf[h] -> Reading]
  /\ AIModes \subseteq {"off", "auto", "always"}
  /\ Answers \subseteq Answer
  /\ Nobody \notin Torrents

VARIABLES
  jobs,      \* assignment_jobs, with their proposals
  rows,      \* the active torrent_assignments
  subs,      \* the rows whose torrent subtitle is recorded
  worker,    \* what each worker is doing
  run,       \* the re-check of each job
  tx,        \* the apply or override under way: by a job, or 0
  unrecorded,\* the subtitles each has still to record
  changes

vars == <<jobs, rows, subs, worker, run, tx, unrecorded, changes>>
appliedVars == <<rows, subs, unrecorded>>

Jobs == 1..MaxJobs
Owners == Jobs \cup {0}
NoFiles == <<>>
NoJob == [status |-> "none", torrent |-> Nobody, files |-> NoFiles]
Resting == [at |-> "idle", job |-> 0, reading |-> NoFiles, scope |-> {}]
NoRun == [at |-> "none", seen |-> NoFiles, all |-> FALSE]
NoTx == [at |-> "none", mode |-> "review", torrent |-> Nobody, files |-> NoFiles,
         ins |-> {}, out |-> {}, drop |-> {}]

Working == {"queued", "fetching_metadata", "classifying", "resolving"}
Open == Working \cup {"needs_review", "ready"}
Closed == {"applied", "failed", "cancelled"}
Classified == {"resolving", "needs_review", "ready", "applied"}

\* The job's row is not held by an apply.
Unlocked(j) == tx[j].at = "none"

SetJob(j, status, files) ==
  jobs' = [jobs EXCEPT ![j] = [status |-> status, torrent |-> jobs[j].torrent, files |-> files]]
SetStatus(j, status) == SetJob(j, status, jobs[j].files)
Sets(w, at, j, reading, scope) ==
  worker' = [worker EXCEPT ![w] = [at |-> at, job |-> j, reading |-> reading, scope |-> scope]]
Goes(w, at) == Sets(w, at, worker[w].job, worker[w].reading, worker[w].scope)
Rests(w) == worker' = [worker EXCEPT ![w] = Resting]

Bounded == changes < MaxChanges /\ changes' = changes + 1

-----------------------------------------------------------------------------
(* Assigning, and the worker's first run.                                  *)

Assign(h) ==
  /\ \A j \in Jobs : jobs[j].torrent = h => jobs[j].status \notin Open
  /\ \E j \in Jobs :
       /\ jobs[j] = NoJob /\ \A k \in Jobs : k < j => jobs[k] # NoJob
       /\ jobs' = [jobs EXCEPT ![j] = [status |-> "queued", torrent |-> h, files |-> NoFiles]]
  /\ UNCHANGED <<appliedVars, worker, run, tx, changes>>

(* A worker that applies a job stays until its subtitles are recorded.     *)
Free(w) ==
  \/ worker[w].at = "idle"
  \/ worker[w].at = "applying" /\ tx[worker[w].job] = NoTx /\ unrecorded[worker[w].job] = {}

Claim(w, j) ==
  /\ Free(w) /\ jobs[j].status = "queued"
  /\ \A k \in Jobs : k < j => jobs[k].status # "queued"
  /\ SetStatus(j, "fetching_metadata")
  /\ Sets(w, "adds", j, NoFiles, {})
  /\ UNCHANGED <<appliedVars, run, tx, changes>>

(* The torrent could not be added: fail.                                   *)
AddFails(w) ==
  LET j == worker[w].job
  IN /\ worker[w].at = "adds" /\ Unlocked(j)
     /\ IF jobs[j].status \in Working THEN SetStatus(j, "failed") ELSE UNCHANGED jobs
     /\ Rests(w)
     /\ UNCHANGED <<appliedVars, run, tx, changes>>

setFileList(w) ==
  LET j == worker[w].job
  IN /\ worker[w].at = "adds"
     /\ IF jobs[j].status = "fetching_metadata"
        THEN SetStatus(j, "classifying") /\ Goes(w, "classifies")
        ELSE Rests(w) /\ UNCHANGED jobs
     /\ UNCHANGED <<appliedVars, run, tx, changes>>

Classify(w) ==
  LET j == worker[w].job
  IN /\ worker[w].at = "classifies"
     /\ IF jobs[j].status # "classifying" THEN Rests(w) /\ UNCHANGED jobs
        ELSE \E r \in Readings[jobs[j].torrent], m \in AIModes :
          LET scope == IF m = "off" THEN {} ELSE FirstScope(r, m = "always")
          IN IF scope # {}
             THEN /\ SetJob(j, "resolving", Drafts(r))
                  /\ Sets(w, "asks", j, r, scope)
             ELSE SetJob(j, settledStatus(Drafts(r)), Drafts(r)) /\ Goes(w, "applies")
     /\ UNCHANGED <<appliedVars, run, tx, changes>>

StillResolving(j) == jobs[j].status = "resolving"

(* The AI answers, in full or in part, or not at all.                      *)
resolveFirst(w) ==
  LET j == worker[w].job
  IN /\ worker[w].at = "asks" /\ Unlocked(j)
     /\ IF ~StillResolving(j) THEN Rests(w) /\ UNCHANGED jobs
        ELSE \E answers \in [worker[w].scope -> Answers] :
          LET ps == mergeFirstRun(jobs[j].files, Drafts(mergeAnswers(worker[w].reading, answers)))
          IN /\ SetJob(j, settledStatus(ps), ps)
             /\ Rests(w) \/ Sets(w, "applies", j, NoFiles, {})
     /\ UNCHANGED <<appliedVars, run, tx, changes>>

(* autoApply, when the setting or the checks keep the job for review.      *)
KeptForReview(w) ==
  /\ worker[w].at = "applies"
  /\ Rests(w)
  /\ UNCHANGED <<jobs, appliedVars, run, tx, changes>>

-----------------------------------------------------------------------------
(* Re-checks.                                                              *)

Reclassify(j, all) ==
  LET ps == jobs[j].files
  IN /\ Bounded /\ Unlocked(j)
     /\ jobs[j].status \in Open \ Working /\ AIModes # {"off"}
     /\ recheckScope(ps, all) # {}
     /\ SetStatus(j, "resolving")
     /\ run' = [run EXCEPT ![j] = [at |-> "starts", seen |-> NoFiles, all |-> all]]
     /\ UNCHANGED <<appliedVars, worker, tx>>

RecheckReads(j) ==
  /\ run[j].at = "starts"
  /\ run' = [run EXCEPT ![j] =
       IF jobs[j].status = "resolving"
       THEN [at |-> "asks", seen |-> jobs[j].files, all |-> run[j].all] ELSE NoRun]
  /\ UNCHANGED <<jobs, appliedVars, worker, tx, changes>>

(* The answers are stored while the job is still being asked about.        *)
RecheckStores(j) ==
  /\ run[j].at = "asks" /\ Unlocked(j)
  /\ run' = [run EXCEPT ![j] = NoRun]
  /\ IF ~StillResolving(j) THEN UNCHANGED jobs
     ELSE \E answers \in [recheckScope(run[j].seen, run[j].all) -> Answers],
             fresh \in SUBSET {f \in DOMAIN run[j].seen : Maps(run[j].seen[f])} :
       LET ps == recheckChanges(jobs[j].files, currentAnswers(run[j].seen, fresh), answers, run[j].all)
       IN SetJob(j, settledStatus(ps), ps)
  /\ UNCHANGED <<appliedVars, worker, tx, changes>>

-----------------------------------------------------------------------------
(* The user's changes.                                                     *)

\* Bug: the change is made to a job an apply holds.
BugPatchable(j) == jobs[j].status \in Open \cap Classified
Patchable(j) == Unlocked(j) /\ jobs[j].status \in Open \cap Classified

\* Bug: the status is left as the classification set it.
BugPatchedStatus(j, ps) == jobs[j].status
PatchedStatus(j, ps) ==
  IF jobs[j].status = "resolving" THEN "resolving" ELSE settledStatus(ps)

PatchProposals(j, f, to, d) ==
  /\ Bounded /\ Patchable(j)
  /\ f \in DOMAIN jobs[j].files
  /\ LET p == jobs[j].files[f]
         ps == [jobs[j].files EXCEPT ![f] = Decided([p EXCEPT !.to = to, !.decision = d])]
     IN /\ to \in Episodes \cup {p.to}
        /\ d = "accepted" => to # NoEpisode
        /\ ps # jobs[j].files
        /\ SetJob(j, PatchedStatus(j, ps), ps)
  /\ UNCHANGED <<appliedVars, worker, run, tx>>

Discard(j) ==
  /\ Unlocked(j)
  /\ jobs[j].status \in Open
  /\ SetStatus(j, "cancelled")
  /\ UNCHANGED <<appliedVars, worker, run, tx, changes>>

-----------------------------------------------------------------------------
(* Applies and overrides.                                                  *)

Begin(o, mode, h, ps, ins) ==
  tx' = [tx EXCEPT ![o] = [at |-> "begun", mode |-> mode, torrent |-> h, files |-> ps,
                           ins |-> ins, out |-> {}, drop |-> {}]]

Apply(j) ==
  LET ps == jobs[j].files
  IN /\ Unlocked(j)
     /\ jobs[j].status = "ready" /\ Pending(ps) \cup Conflicts(ps) = {}
     /\ Begin(j, "review", jobs[j].torrent, ps, planApply(jobs[j].torrent, ps))
     /\ UNCHANGED <<jobs, appliedVars, worker, run, changes>>

autoApply(w) ==
  LET j == worker[w].job
      ps == jobs[j].files
  IN /\ worker[w].at = "applies" /\ Unlocked(j)
     /\ jobs[j].status = "ready" /\ autoApplies(jobs[j].torrent, ps, rows)
     /\ Begin(j, "auto", jobs[j].torrent, ps, planApply(jobs[j].torrent, ps))
     /\ Goes(w, "applying")
     /\ UNCHANGED <<jobs, appliedVars, run, changes>>

AssignShowAndWait(j) ==
  LET ps == legacyAcceptShow(jobs[j].files)
  IN /\ Bounded /\ Unlocked(j)
     /\ jobs[j].status \in Open \ Working
     /\ Begin(j, "legacy", jobs[j].torrent, ps, planApply(jobs[j].torrent, ps))
     /\ UNCHANGED <<jobs, appliedVars, worker, run>>

override(i, h, f) ==
  /\ Bounded /\ tx[0].at = "none" /\ unrecorded[0] = {}
  /\ Begin(0, "override", h, NoFiles, {[item |-> i, torrent |-> h, file |-> f]})
  /\ UNCHANGED <<jobs, appliedVars, worker, run>>

\* Bug: nothing serialises the writes to a title.
BuglockTitle(o) == TRUE
lockTitle(o) == \A p \in Owners \ {o} : tx[p].at # "written"

(* writeAssignments, over the rows committed by then.                      *)
writeAssignments(o) ==
  LET t == tx[o]
      mapped == {r \in rows : \E m \in t.ins : m.item = r.item}
  IN /\ t.at = "begun" /\ lockTitle(o)
     /\ tx' = [tx EXCEPT ![o] = [
          at |-> "written", mode |-> t.mode, torrent |-> t.torrent, files |-> t.files, ins |-> t.ins,
          out |-> (mapped \cup {r \in rows : t.mode # "override" /\ r.torrent = t.torrent}) \ t.ins,
          drop |-> {s \in subs : \E m \in t.ins \ rows : m.item = s.item}]]
     /\ UNCHANGED <<jobs, appliedVars, worker, run, changes>>

Commit(o) ==
  LET t == tx[o]
  IN /\ t.at = "written"
     /\ rows' = (rows \ t.out) \cup t.ins
     /\ subs' = subs \ t.drop
     /\ unrecorded' = [unrecorded EXCEPT ![o] = t.ins]
     /\ tx' = [tx EXCEPT ![o] = NoTx]
     /\ IF o = 0 THEN UNCHANGED jobs ELSE SetJob(o, "applied", t.files)
     /\ UNCHANGED <<worker, run, changes>>

(* CreateTorrentSubtitle: the item's subtitles of other torrents go.       *)
Record(o, r) ==
  /\ r \in unrecorded[o]
  /\ unrecorded' = [unrecorded EXCEPT ![o] = @ \ {r}]
  /\ subs' = {s \in subs : s.item = r.item => s.torrent = r.torrent} \cup {r}
  /\ UNCHANGED <<jobs, rows, worker, run, tx, changes>>

-----------------------------------------------------------------------------
(* A stop of the process anywhere, and what the next start recovers.       *)

Gets(j, status) == [status |-> status, torrent |-> j.torrent, files |-> j.files]

\* Bug: a job whose files were being matched is left as it was.
BugStuck(j) ==
  IF j.status = "fetching_metadata" THEN Gets(j, "queued")
  ELSE IF j.status = "resolving" THEN Gets(j, settledStatus(j.files))
  ELSE j

recoverInterrupted(j) ==
  IF j.status \in {"fetching_metadata", "classifying"} THEN Gets(j, "queued")
  ELSE IF j.status = "resolving" THEN Gets(j, settledStatus(j.files))
  ELSE j

Restart ==
  /\ Bounded
  /\ jobs' = [j \in Jobs |-> recoverInterrupted(jobs[j])]
  /\ worker' = [w \in Workers |-> Resting]
  /\ run' = [j \in Jobs |-> NoRun]
  /\ tx' = [o \in Owners |-> NoTx]
  /\ unrecorded' = [o \in Owners |-> {}]
  /\ UNCHANGED <<rows, subs>>

Init ==
  /\ jobs = [j \in Jobs |-> NoJob]
  /\ rows = {} /\ subs = {}
  /\ worker = [w \in Workers |-> Resting]
  /\ run = [j \in Jobs |-> NoRun]
  /\ tx = [o \in Owners |-> NoTx]
  /\ unrecorded = [o \in Owners |-> {}]
  /\ changes = 0

WorkerStep(w) ==
  \/ \E j \in Jobs : Claim(w, j)
  \/ setFileList(w) \/ AddFails(w) \/ Classify(w) \/ resolveFirst(w)
  \/ KeptForReview(w) \/ autoApply(w)

ApplyStep(o) == writeAssignments(o) \/ Commit(o) \/ \E r \in unrecorded[o] : Record(o, r)
RecheckStep(j) == RecheckReads(j) \/ RecheckStores(j)

Next ==
  \/ \E h \in Torrents : Assign(h)
  \/ \E w \in Workers : WorkerStep(w)
  \/ \E j \in Jobs :
       \/ \E all \in BOOLEAN : Reclassify(j, all)
       \/ RecheckStep(j)
       \/ \E f \in DOMAIN jobs[j].files, d \in Decision, to \in Episodes \cup {NoEpisode} :
            PatchProposals(j, f, to, d)
       \/ Discard(j) \/ Apply(j) \/ AssignShowAndWait(j)
  \/ \E i \in Episodes, h \in Torrents : \E f \in FilesOf[h] : override(i, h, f)
  \/ \E o \in Owners : ApplyStep(o)
  \/ Restart

Spec == Init /\ [][Next]_vars

(* The workers run, the AI answers or times out, and the database commits. *)
Fairness ==
  /\ \A w \in Workers : WF_vars(WorkerStep(w))
  /\ \A j \in Jobs : WF_vars(RecheckStep(j))
  /\ \A o \in Owners : WF_vars(ApplyStep(o))

FairSpec == Spec /\ Fairness

-----------------------------------------------------------------------------
TypeOK ==
  /\ \A j \in Jobs : jobs[j] = NoJob \/
       /\ jobs[j].status \in Working \cup Open \cup Closed
       /\ jobs[j].torrent \in Torrents
       /\ jobs[j].files = NoFiles \/ jobs[j].files \in [FilesOf[jobs[j].torrent] -> Proposal]
  /\ rows \subseteq Row /\ subs \subseteq Row
  /\ \A o \in Owners : unrecorded[o] \subseteq Row
  /\ changes \in 0..MaxChanges

(* An episode has one active file, whatever applies and overrides overlap  *)
(* on it.                                                                  *)
OneActiveRow ==
  \A r, q \in rows : r.item = q.item => r = q

(* A settled job is ready exactly when nothing of it waits for the user,   *)
(* after every change of the user, the AI and a restart.                   *)
SettledAgrees ==
  \A j \in Jobs : jobs[j].status \in {"needs_review", "ready"}
                   => jobs[j].status = settledStatus(jobs[j].files)

(* What the user decided about a file changes by the user alone: not by an *)
(* AI run that started before, nor by a restart or an apply.               *)
UserDecisionStands ==
  [][\A j \in Jobs : \A f \in DOMAIN jobs[j].files :
       (jobs[j].files[f].decided /\ jobs'[j].files # jobs[j].files)
       => \/ f \in DOMAIN jobs'[j].files /\ jobs'[j].files[f] = jobs[j].files[f]
          \/ \E d \in Decision, to \in Episodes \cup {NoEpisode} : PatchProposals(j, f, to, d)
          \/ Commit(j) /\ tx[j].mode = "legacy"]_vars

(* A reviewed or automatic apply makes the torrent's rows those its        *)
(* proposals accept as it commits, with nothing left to decide.            *)
AppliedIsAccepted ==
  [][\A j \in Jobs : (jobs[j].status # "applied" /\ jobs'[j].status = "applied"
                       /\ tx[j].mode # "legacy")
       => LET h == jobs[j].torrent
              ps == jobs[j].files
          IN {r \in rows' : r.torrent = h} = planApply(h, ps) /\ settledStatus(ps) = "ready"]_vars

(* A job that ended stays as it ended: what its worker or its re-check     *)
(* still brings is dropped.                                                *)
ClosedIsFinal ==
  [][\A j \in Jobs : jobs[j].status \in Closed => jobs'[j] = jobs[j]]_vars

(* A job the worker or the AI has is settled or ended in the end, also     *)
(* when the process stops meanwhile.                                       *)
JobsSettle ==
  \A j \in Jobs : jobs[j].status \in Working ~> jobs[j].status \notin Working

(* Once every apply has recorded its subtitles, those of an episode's file *)
(* are its torrent's ("a reassignment leaves none behind").                *)
SubtitlesFollow ==
  (\A o \in Owners : tx[o] = NoTx /\ unrecorded[o] = {})
  => \A s \in subs, r \in rows : s.item = r.item => s.torrent = r.torrent
=============================================================================
