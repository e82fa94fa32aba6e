---------------------------- MODULE RecommendRuns ----------------------------
(***************************************************************************)
(* The picks' runs: rows of rec_runs (library/rec_runs_repo.go) that the   *)
(* server's scheduler queues and its worker executes                       *)
(* (recommend/schedule/scheduler.go, recommend/runs/run.go), that the      *)
(* command recommend-run executes in a process of its own                  *)
(* (cmd/momoshtrem/recommend_run.go), and that go with a removed member    *)
(* (member/service.go).                                                    *)
(***************************************************************************)
EXTENDS Naturals, FiniteSets

CONSTANTS
  Members,    \* the household's
  Leavers,    \* those that may be removed
  MaxRuns,    \* rows in a behaviour; their ids are never used again
  MaxErrors,  \* store errors in a behaviour
  MaxStops,   \* stops of the server and interruptions of the command
  Nobody

ASSUME RecommendAssumption ==
  /\ Nobody \notin Members
  /\ IsFiniteSet(Members) /\ Leavers \subseteq Members
  /\ MaxRuns \in Nat \ {0}
  /\ MaxErrors \in Nat
  /\ MaxStops \in Nat

VARIABLES
  runs,       \* rec_runs, by id: whose, and "none", "queued", "running" or "ended"
  members,    \* "in", being removed ("forgotten" by Trakt, "told" to the scheduler), "gone"
  connected,  \* members with Trakt connected
  server,     \* "down", "keyless", "unstarted" (its sweep failed), "started", "closing"
  exec,       \* the worker and the command: at which step, on which run, cancelled
  work,       \* Scheduler.work holds a token
  retrying,   \* a wake-up after a store error is pending
  todo,       \* members the schedule's loop has still to queue a run for
  errors,
  stops

tables == <<runs, members, connected>>
memory == <<work, retrying, todo>>
vars == <<tables, server, exec, memory, errors, stops>>

Runs == 1..MaxRuns
Executors == {"worker", "command"}

Idle == [at |-> "idle", run |-> 0, cancelled |-> FALSE]
Waiting == [Idle EXCEPT !.at = "waits"]

(* The steps of Execute, during which the worker's run is s.current.       *)
Executing == {"checks", "starts", "runs", "publishes", "fails", "skips"}
Live == {"runs", "publishes"}

Active(r) == runs[r].status \in {"queued", "running"}
Queued == {r \in Runs : runs[r].status = "queued"}
Mine(r) == exec["worker"].at \in Executing /\ exec["worker"].run = r
OwnerOf(e) == runs[exec[e].run].of

Up == server \in {"started", "unstarted"}

Error == errors < MaxErrors /\ errors' = errors + 1
Stop == stops < MaxStops /\ stops' = stops + 1
Moves(e, step) == exec' = [exec EXCEPT ![e].at = step]

-----------------------------------------------------------------------------
(* The table.                                                              *)

SetStatus(S, s) ==
  runs' = [r \in Runs |-> IF r \in S THEN [runs[r] EXCEPT !.status = s] ELSE runs[r]]

(* Inserts unless the member has an active run, or is gone. Beyond MaxRuns *)
(* nothing is queued.                                                      *)
QueueRecRun(m) ==
  LET free == {r \in Runs : runs[r].status = "none"}
      joined == \E r \in Runs : runs[r].of = m /\ Active(r)
  IN  IF joined \/ members[m] = "gone" \/ free = {} THEN UNCHANGED runs
      ELSE \E r \in free :
             /\ \A q \in free : r <= q
             /\ runs' = [runs EXCEPT ![r] = [of |-> m, status |-> "queued"]]

-----------------------------------------------------------------------------
(* Execute, by the worker or the command.                                  *)

(* What the worker does once Execute returned: on to the next run, or with *)
(* the last write lost, a pause. It stops with the scheduler.              *)
Returns(e, how) ==
  /\ exec' = [exec EXCEPT ![e] =
       IF e = "command" \/ server = "closing" THEN Idle
       ELSE IF how = "lost" THEN Waiting ELSE [Idle EXCEPT !.at = "looks"]]
  /\ retrying' = (retrying \/ (e = "worker" /\ how = "lost"))
  /\ UNCHANGED <<work, todo>>

(* finalWrite: a guarded update, tried again after an error, unless it was *)
(* the last time or the executor was cancelled.                            *)
FinalWrite(e, from, to, GivesUp) ==
  /\ \/ /\ runs[exec[e].run].status \in from
        /\ SetStatus({exec[e].run}, to) /\ Returns(e, "recorded") /\ UNCHANGED errors
     \/ /\ runs[exec[e].run].status \notin from
        /\ Returns(e, "gone") /\ UNCHANGED <<runs, errors>>
     \/ /\ Error /\ UNCHANGED runs
        /\ \/ ~exec[e].cancelled /\ UNCHANGED <<exec, memory>>
           \/ GivesUp
  /\ UNCHANGED <<members, connected, server, stops>>

(* Before it starts: the settings, the budget, and last the history and    *)
(* Trakt's connection, which the command read when it began.               *)
Checks(e) ==
  /\ exec[e].at = "checks"
  /\ \/ Moves(e, "fails")
     \/ ~exec[e].cancelled /\ Moves(e, "skips")
     \/ /\ e = "worker" => OwnerOf(e) \in connected
        /\ Moves(e, "starts")
  /\ UNCHANGED <<tables, server, memory, errors, stops>>

Cancelled(e) == exec[e].cancelled /\ UNCHANGED errors

BugStartRecRun(e) ==
  /\ exec[e].at = "starts"
  /\ SetStatus({r \in {exec[e].run} : Active(r)}, "running")
  /\ Moves(e, "runs")
  /\ UNCHANGED <<members, connected, server, memory, errors, stops>>

StartRecRun(e) ==
  /\ exec[e].at = "starts"
  /\ \/ /\ Cancelled(e) \/ Error
        /\ Moves(e, "fails")
        /\ UNCHANGED <<runs, memory>>
     \/ /\ ~exec[e].cancelled
        /\ runs[exec[e].run].status = "queued"
        /\ SetStatus({exec[e].run}, "running")
        /\ Moves(e, "runs")
        /\ UNCHANGED <<errors, memory>>
     \/ /\ ~exec[e].cancelled
        /\ runs[exec[e].run].status # "queued"
        /\ Returns(e, "ended")
        /\ UNCHANGED <<runs, errors>>
  /\ UNCHANGED <<members, connected, server, stops>>

(* The profile, the candidates and the agent's loop.                       *)
RunsAgent(e) ==
  /\ exec[e].at = "runs"
  /\ \/ Moves(e, "fails")
     \/ ~exec[e].cancelled /\ Moves(e, "publishes")
  /\ UNCHANGED <<tables, server, memory, errors, stops>>

PublishRecRun(e) ==
  /\ exec[e].at = "publishes"
  /\ FinalWrite(e, {"running"}, "ended", Moves(e, "fails") /\ UNCHANGED memory)

FailRecRun(e) ==
  /\ exec[e].at = "fails"
  /\ FinalWrite(e, {"queued", "running"}, "ended", Returns(e, "lost"))

SkipRecRun(e) ==
  /\ exec[e].at = "skips"
  /\ FinalWrite(e, {"queued"}, "ended", Returns(e, "lost"))

Execute(e) ==
  \/ Checks(e) \/ StartRecRun(e) \/ RunsAgent(e)
  \/ PublishRecRun(e) \/ FailRecRun(e) \/ SkipRecRun(e)

-----------------------------------------------------------------------------
(* The worker.                                                             *)

WorkerWakes ==
  /\ exec["worker"].at = "waits" /\ work
  /\ work' = FALSE
  /\ Moves("worker", "looks")
  /\ UNCHANGED <<tables, server, retrying, todo, errors, stops>>

(* NextQueuedRecRun: the oldest queued run, whoever's.                     *)
WorkerLooks ==
  /\ exec["worker"].at = "looks"
  /\ \/ /\ Queued = {}
        /\ Moves("worker", "waits")
        /\ UNCHANGED <<errors, retrying>>
     \/ /\ \E r \in Queued :
             /\ \A q \in Queued : r <= q
             /\ exec' = [exec EXCEPT !["worker"].at = "holds", !["worker"].run = r]
        /\ UNCHANGED <<errors, retrying>>
     \/ /\ Error
        /\ Moves("worker", "waits")
        /\ retrying' = TRUE
  /\ UNCHANGED <<tables, server, work, todo, stops>>

(* The run read becomes s.current.                                         *)
WorkerExecutes ==
  /\ exec["worker"].at = "holds"
  /\ Moves("worker", "checks")
  /\ UNCHANGED <<tables, server, memory, errors, stops>>

(* retry, a while after an error. An error that comes before the last      *)
(* retry has cleared its flag asks for none: it is one that never comes.   *)
RetryKicks ==
  /\ retrying
  /\ retrying' = FALSE /\ work' = TRUE
  /\ UNCHANGED <<tables, server, exec, todo, errors, stops>>

-----------------------------------------------------------------------------
(* Queueing: the schedule, a refresh, the first sync.                      *)

(* Running, and nobody executes it: once runs.Timeout and the margin are   *)
(* past, it is stale.                                                      *)
Orphans ==
  {r \in Runs : runs[r].status = "running" /\ \A e \in Executors : exec[e].run # r}

BugReap(S, kick) ==
  /\ SetStatus(S, "ended")
  /\ work' = (work \/ kick)
(* Fails the stale runs, which are those of S, and wakes the worker for a  *)
(* queued one that it isn't executing, or when asked.                      *)
reap(S, kick) ==
  /\ SetStatus(S, "ended")
  /\ work' = (work \/ kick \/ \E r \in Queued : ~Mine(r))

(* By the loop's iterations, at least hourly, and by refreshes.            *)
Reaps(S) ==
  /\ Up
  /\ \/ reap(S, FALSE) /\ UNCHANGED errors
     \/ Error /\ UNCHANGED <<runs, work>>
  /\ UNCHANGED <<members, connected, server, exec, retrying, todo, stops>>

(* A slot, or the catch-up of one: who is eligible is read once, and the   *)
(* worker woken after the last.                                            *)
SlotStarts(S) ==
  /\ server = "started" /\ todo = {}
  /\ todo' = {m \in connected : members[m] = "in"}
  /\ \/ reap(S, todo' = {}) /\ UNCHANGED errors
     \/ Error /\ UNCHANGED runs /\ work' = (work \/ todo' = {})
  /\ UNCHANGED <<members, connected, server, exec, retrying, stops>>

SlotQueues(m) ==
  /\ m \in todo
  /\ \/ QueueRecRun(m) /\ UNCHANGED errors
     \/ Error /\ UNCHANGED runs
  /\ todo' = todo \ {m}
  /\ work' = (work \/ todo' = {})
  /\ UNCHANGED <<members, connected, server, exec, retrying, stops>>

(* A refresh, after its reap, or the first sync of a member without picks. *)
Refresh(m) ==
  /\ Up /\ members[m] = "in" /\ m \in connected
  /\ QueueRecRun(m)
  /\ work' = TRUE
  /\ UNCHANGED <<members, connected, server, exec, retrying, todo, errors, stops>>

-----------------------------------------------------------------------------
(* The processes.                                                          *)

(* Startup: the runs a stop left running are failed, without a key the     *)
(* queued ones too.                                                        *)
Start ==
  /\ server = "down"
  /\ \/ /\ SetStatus({r \in Runs : runs[r].status = "running"}, "ended")
        /\ server' = "started"
        /\ exec' = [exec EXCEPT !["worker"] = Waiting]
        /\ work' = TRUE
        /\ UNCHANGED errors
     \/ /\ SetStatus({r \in Runs : Active(r)}, "ended")
        /\ server' = "keyless"
        /\ UNCHANGED <<exec, work, errors>>
     \/ /\ Error
        /\ server' = "unstarted"
        /\ UNCHANGED <<runs, exec, work>>
  /\ UNCHANGED <<members, connected, retrying, todo, stops>>

(* Close: the loop and the worker end, the run in flight is cancelled.     *)
Close ==
  /\ server = "started" /\ Stop
  /\ server' = "closing"
  /\ exec' = [exec EXCEPT !["worker"] =
       IF @.at \in {"waits", "looks"} THEN Idle ELSE [@ EXCEPT !.cancelled = TRUE]]
  /\ retrying' = FALSE /\ todo' = {} /\ work' = FALSE
  /\ UNCHANGED <<tables, errors>>

(* The process is gone: closed, or killed at any step. A member whose      *)
(* removal it was at is there again.                                       *)
Crash ==
  /\ server # "down"
  /\ IF server = "closing" THEN UNCHANGED stops ELSE Stop
  /\ server' = "down"
  /\ exec' = [exec EXCEPT !["worker"] = Idle]
  /\ members' = [m \in Members |-> IF members[m] = "gone" THEN "gone" ELSE "in"]
  /\ retrying' = FALSE /\ todo' = {} /\ work' = FALSE
  /\ UNCHANGED <<runs, connected, errors>>

(* recommend-run queues a run of its member's, unless one is active, and   *)
(* executes it.                                                            *)
Command(m) ==
  /\ exec["command"] = Idle
  /\ QueueRecRun(m)
  /\ \E r \in Runs :
       /\ runs[r].status = "none" /\ runs'[r].status = "queued"
       /\ exec' = [exec EXCEPT !["command"] = [at |-> "checks", run |-> r, cancelled |-> FALSE]]
  /\ UNCHANGED <<members, connected, server, memory, errors, stops>>

(* Interrupted before it writes how the run ended, it fails it; killed, it *)
(* leaves it.                                                              *)
CommandStops ==
  /\ exec["command"] # Idle /\ Stop
  /\ \/ exec["command"].at \in {"checks", "starts", "runs"} /\ Moves("command", "fails")
     \/ exec' = [exec EXCEPT !["command"] = Idle]
  /\ UNCHANGED <<tables, server, memory, errors>>

-----------------------------------------------------------------------------
(* The members.                                                            *)

Connect(m) ==
  /\ server # "down" /\ members[m] = "in"
  /\ connected' = connected \cup {m}
  /\ UNCHANGED <<runs, members, server, exec, memory, errors, stops>>

(* Service.Delete, one at a time: the member is leaving, and their Trakt   *)
(* is let go of first.                                                     *)
Delete(m) ==
  /\ server # "down" /\ m \in Leavers
  /\ members[m] = "in"
  /\ \A n \in Members : members[n] \in {"in", "gone"}
  /\ \E n \in Members \ {m} : members[n] = "in"
  /\ members' = [members EXCEPT ![m] = "forgotten"]
  /\ connected' = connected \ {m}
  /\ UNCHANGED <<runs, server, exec, memory, errors, stops>>

BugForgetMember(m) ==
  /\ members[m] = "forgotten"
  /\ members' = [members EXCEPT ![m] = "told"]
  /\ exec' = IF exec["worker"].at \in Live /\ OwnerOf("worker") = m
             THEN [exec EXCEPT !["worker"].cancelled = TRUE] ELSE exec
  /\ UNCHANGED <<runs, connected, server, memory, errors, stops>>
(* The run the worker executes is cancelled when it's theirs, and waited   *)
(* for, not forever.                                                       *)
ForgetMember(m) ==
  /\ members[m] = "forgotten"
  /\ members' = [members EXCEPT ![m] = "told"]
  /\ exec' = IF exec["worker"].at \in Executing /\ OwnerOf("worker") = m
             THEN [exec EXCEPT !["worker"].cancelled = TRUE] ELSE exec
  /\ UNCHANGED <<runs, connected, server, memory, errors, stops>>

(* The row goes, and their runs with it, or stays after an error.          *)
DeleteRow(m) ==
  /\ members[m] = "told"
  /\ \/ /\ members' = [members EXCEPT ![m] = "gone"]
        /\ SetStatus({r \in Runs : runs[r].of = m}, "ended")
        /\ UNCHANGED errors
     \/ /\ Error
        /\ members' = [members EXCEPT ![m] = "in"]
        /\ UNCHANGED runs
  /\ UNCHANGED <<connected, server, exec, memory, stops>>

-----------------------------------------------------------------------------

Init ==
  /\ runs = [r \in Runs |-> [of |-> Nobody, status |-> "none"]]
  /\ members = [m \in Members |-> "in"]
  /\ connected = Members
  /\ server = "down"
  /\ exec = [e \in Executors |-> Idle]
  /\ work = FALSE /\ retrying = FALSE /\ todo = {}
  /\ errors = 0 /\ stops = 0

Worker == WorkerWakes \/ WorkerLooks \/ WorkerExecutes \/ Execute("worker")

Next ==
  \/ Worker \/ Execute("command")
  \/ RetryKicks
  \/ \E S \in SUBSET Orphans : Reaps(S) \/ SlotStarts(S)
  \/ Start \/ Close \/ Crash \/ CommandStops
  \/ \E m \in Members :
       \/ SlotQueues(m) \/ Refresh(m)
       \/ Command(m) \/ Connect(m)
       \/ Delete(m) \/ ForgetMember(m) \/ DeleteRow(m)

(* The worker, the command and a slot's loop go on, and the loop comes back *)
(* to its reap, past the time a run may take. A request, a slot, a stop and *)
(* a retry need not come.                                                  *)
LoopReaps == server = "started" /\ todo = {} /\ Reaps(Orphans)
Slot == \E m \in Members : SlotQueues(m)

Fairness ==
  /\ WF_vars(Worker) /\ WF_vars(Execute("command"))
  /\ WF_vars(Slot) /\ SF_vars(LoopReaps)

Spec == Init /\ [][Next]_vars
FairSpec == Spec /\ Fairness

-----------------------------------------------------------------------------
(* Properties.                                                             *)

Steps == {"idle", "waits", "looks", "holds"} \cup Executing

TypeOK ==
  /\ runs \in [Runs -> [of : Members \cup {Nobody},
                        status : {"none", "queued", "running", "ended"}]]
  /\ members \in [Members -> {"in", "forgotten", "told", "gone"}]
  /\ connected \subseteq Members
  /\ server \in {"down", "keyless", "unstarted", "started", "closing"}
  /\ exec \in [Executors -> [at : Steps, run : 0..MaxRuns, cancelled : BOOLEAN]]
  /\ work \in BOOLEAN
  /\ retrying \in BOOLEAN
  /\ todo \subseteq Members
  /\ errors \in 0..MaxErrors
  /\ stops \in 0..MaxStops

(* The worker and the command never execute the same run past its start,   *)
(* though both may pick a queued one: StartRecRun lets one in.             *)
OneExecution ==
  \A r \in Runs : ~\A e \in Executors : exec[e].at \in Live /\ exec[e].run = r

(* Once the scheduler was told that a member is being removed, their run   *)
(* is cancelled or never gets past its checks, whatever the worker had     *)
(* read: Trakt is let go of first.                                         *)
RemovedIsStopped ==
  \A m \in Members :
    /\ members[m] \in {"told", "gone"}
    /\ exec["worker"].at \in {"starts"} \cup Live
    /\ OwnerOf("worker") = m
    => exec["worker"].cancelled

(* A run queued or running ends while the server is up: no crash of        *)
(* another process, lost write or lost wake-up leaves it for good.         *)
RunsEnd ==
  \A r \in Runs : (Active(r) /\ server = "started") ~> (~Active(r) \/ server # "started")
=============================================================================
