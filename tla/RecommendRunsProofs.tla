------------------------- MODULE RecommendRunsProofs -------------------------
(***************************************************************************)
(* What RecommendRuns' run checks on two members and two runs, proved for  *)
(* any household, number of runs, errors and stops.                        *)
(*                                                                         *)
(* One execution: a run that is live was started, and a row never comes    *)
(* back to queued (Started), so StartRecRun lets nobody in after the first *)
(* one. A removed member's run: who is being removed has no Trakt (Apart), *)
(* so the worker's checks let no run of theirs through once ForgetMember   *)
(* has cancelled the one it was executing. Both rest on a row, once        *)
(* queued, staying its owner's (Grows, Known).                             *)
(***************************************************************************)
EXTENDS RecommendRuns, TLAPS

Held == {"holds"} \cup Executing
RunRow == [of : Members \cup {Nobody}, status : {"none", "queued", "running", "ended"}]
ExecRow == [at : Steps, run : 0..MaxRuns, cancelled : BOOLEAN]

\* An executor's run was queued once.
Known == \A e \in Executors :
  exec[e].at \in Held => exec[e].run \in Runs /\ runs[exec[e].run].status # "none"
\* A live run is past its queue.
Started == \A e \in Executors :
  exec[e].at \in Live => runs[exec[e].run].status # "queued"
\* Who is being removed, or gone, has no Trakt.
Apart == \A m \in Members : members[m] # "in" => m \notin connected

IInv == TypeOK /\ Known /\ Started /\ OneExecution /\ Apart /\ RemovedIsStopped

-----------------------------------------------------------------------------
(* What the steps have in common.                                          *)

\* A row that was queued stays its member's, and never comes back to queued.
Grows == \A r \in Runs : runs[r].status # "none" =>
  /\ runs'[r].of = runs[r].of /\ runs'[r].status # "none"
  /\ runs[r].status # "queued" => runs'[r].status # "queued"

\* An executor lets go of its run, takes one up, or goes on with the one it
\* has: the worker to its start with Trakt connected only, and past the start
\* only what leaves the queue with it.
Goes(e) ==
  \/ exec'[e].at \notin Held
  \/ /\ exec'[e].at \in {"holds", "checks"}
     /\ exec'[e].run \in Runs /\ runs'[exec'[e].run].status # "none"
  \/ /\ exec[e].at \in Held /\ exec'[e].run = exec[e].run
     /\ exec[e].cancelled => exec'[e].cancelled
     /\ exec'[e].at = "starts" =>
          exec[e].at = "starts" \/ e = "command" \/ OwnerOf(e) \in connected'
     /\ exec'[e].at \in Live =>
          \/ exec[e].at \in Live
          \/ /\ exec[e].at = "starts" /\ runs[exec[e].run].status = "queued"
             /\ runs'[exec[e].run].status # "queued"

\* One executor moves at a time.
Alone == \E e \in Executors : \A o \in Executors \ {e} : exec'[o] = exec[o]

\* No removal is told to the scheduler.
NoneTold == \A m \in Members : members'[m] \in {"told", "gone"} => members[m] \in {"told", "gone"}

Lawful == TypeOK' /\ Grows /\ Alone /\ (\A e \in Executors : Goes(e)) /\ Apart'

LEMMA SetKinds ==
    ASSUME runs \in [Runs -> RunRow], NEW S, NEW s \in {"running", "ended"}, SetStatus(S, s)
    PROVE  runs' \in [Runs -> RunRow] /\ Grows
<1>1. \A r \in Runs : runs[r] \in RunRow
  OBVIOUS
<1>2. \A r \in Runs : runs'[r] = IF r \in S THEN [runs[r] EXCEPT !.status = s] ELSE runs[r]
  BY DEF SetStatus
<1>3. runs' \in [Runs -> RunRow]
  BY <1>1 DEF SetStatus, RunRow
<1>4. ASSUME NEW r \in Runs, runs[r].status # "none"
      PROVE  /\ runs'[r].of = runs[r].of /\ runs'[r].status # "none"
             /\ runs[r].status # "queued" => runs'[r].status # "queued"
  BY <1>1, <1>2, <1>4 DEF RunRow
<1> QED
  BY <1>3, <1>4 DEF Grows

LEMMA QueueKinds ==
    ASSUME runs \in [Runs -> RunRow], NEW m \in Members, QueueRecRun(m)
    PROVE  runs' \in [Runs -> RunRow] /\ Grows
<1>1. CASE UNCHANGED runs
  BY <1>1 DEF Grows
<1>2. ASSUME NEW r \in Runs, runs[r].status = "none",
             runs' = [runs EXCEPT ![r] = [of |-> m, status |-> "queued"]]
      PROVE  runs' \in [Runs -> RunRow] /\ Grows
  <2>1. [of |-> m, status |-> "queued"] \in RunRow
    BY DEF RunRow
  <2> QED BY <1>2, <2>1 DEF Grows
<1> QED
  BY <1>1, <1>2 DEF QueueRecRun

LEMMA SameRows ==
    ASSUME UNCHANGED runs
    PROVE  Grows
BY DEF Grows

LEMMA RunTypes ==
    TypeOK <=> /\ runs \in [Runs -> RunRow] /\ exec \in [Executors -> ExecRow]
               /\ members \in [Members -> {"in", "forgotten", "told", "gone"}]
               /\ connected \subseteq Members
               /\ server \in {"down", "keyless", "unstarted", "started", "closing"}
               /\ work \in BOOLEAN /\ retrying \in BOOLEAN /\ todo \subseteq Members
               /\ errors \in 0..MaxErrors /\ stops \in 0..MaxStops
BY DEF TypeOK, RunRow, ExecRow

\* Whoever is left alone goes on.
LEMMA LeftAlone ==
    ASSUME NEW e, exec'[e] = exec[e]
    PROVE  Goes(e)
BY DEF Goes

LEMMA SameExecs ==
    ASSUME UNCHANGED exec
    PROVE  Alone /\ \A e \in Executors : Goes(e)
<1>1. "worker" \in Executors
  BY DEF Executors
<1> QED BY <1>1, LeftAlone DEF Alone

\* A step of one executor.
LEMMA OneGoes ==
    ASSUME exec \in [Executors -> ExecRow], NEW e \in Executors, NEW x,
           exec' = [exec EXCEPT ![e] = x], x \in ExecRow, Goes(e)
    PROVE  exec' \in [Executors -> ExecRow] /\ Alone /\ \A o \in Executors : Goes(o)
<1>1. \A o \in Executors \ {e} : exec'[o] = exec[o]
  OBVIOUS
<1> QED BY <1>1, LeftAlone DEF Alone

LEMMA MoveKinds ==
    ASSUME exec \in [Executors -> ExecRow], NEW e \in Executors, NEW step \in Steps,
           Moves(e, step), Goes(e)
    PROVE  exec' \in [Executors -> ExecRow] /\ Alone /\ \A o \in Executors : Goes(o)
<1>1. exec' = [exec EXCEPT ![e] = [exec[e] EXCEPT !.at = step]]
  BY DEF Moves
<1>2. [exec[e] EXCEPT !.at = step] \in ExecRow
  BY DEF ExecRow
<1> QED BY <1>1, <1>2, OneGoes

\* What a step of Moves comes to.
LEMMA MoveTo ==
    ASSUME exec \in [Executors -> ExecRow], NEW e \in Executors, NEW step, Moves(e, step)
    PROVE  /\ exec'[e].at = step /\ exec'[e].run = exec[e].run
           /\ exec'[e].cancelled = exec[e].cancelled
BY DEF Moves, ExecRow

LEMMA StillKinds ==
    ASSUME NEW at \in {"idle", "waits", "looks"}
    PROVE  /\ [Idle EXCEPT !.at = at] \in ExecRow /\ [Idle EXCEPT !.at = at].at = at
           /\ at \notin Held
<1>1. Idle \in ExecRow
  <2>1. 0 \in 0..MaxRuns /\ "idle" \in Steps
    BY RecommendAssumption DEF Steps
  <2> QED BY <2>1 DEF Idle, ExecRow
<1>2. at \in Steps
  BY DEF Steps
<1>3. [Idle EXCEPT !.at = at] \in ExecRow /\ [Idle EXCEPT !.at = at].at = at
  BY <1>1, <1>2 DEF ExecRow
<1> QED BY <1>3 DEF Held, Executing

\* An executor that lets go of its run.
LEMMA LetsGo ==
    ASSUME exec \in [Executors -> ExecRow], NEW e \in Executors,
           NEW x \in {Idle, Waiting, [Idle EXCEPT !.at = "looks"]},
           exec' = [exec EXCEPT ![e] = x]
    PROVE  exec' \in [Executors -> ExecRow] /\ Alone /\ \A o \in Executors : Goes(o)
<1>1. Idle = [Idle EXCEPT !.at = "idle"] /\ Waiting = [Idle EXCEPT !.at = "waits"]
  BY DEF Idle, Waiting
<1>2. x \in ExecRow /\ x.at \notin Held
  BY <1>1, StillKinds
<1>3. exec'[e].at \notin Held
  BY <1>2
<1> QED BY <1>2, <1>3, OneGoes DEF Goes

LEMMA ReturnKinds ==
    ASSUME exec \in [Executors -> ExecRow], retrying \in BOOLEAN,
           NEW e \in Executors, NEW how, Returns(e, how)
    PROVE  /\ exec' \in [Executors -> ExecRow] /\ Alone /\ \A o \in Executors : Goes(o)
           /\ retrying' \in BOOLEAN /\ UNCHANGED <<work, todo>>
<1>1. PICK x \in {Idle, Waiting, [Idle EXCEPT !.at = "looks"]} : exec' = [exec EXCEPT ![e] = x]
  BY DEF Returns
<1>2. exec' \in [Executors -> ExecRow] /\ Alone /\ \A o \in Executors : Goes(o)
  BY <1>1, LetsGo
<1>3. retrying' \in BOOLEAN /\ UNCHANGED <<work, todo>>
  BY DEF Returns
<1> QED BY <1>2, <1>3

\* Lawful steps keep what is about executions.
LEMMA GoesKeep ==
    ASSUME IInv, Lawful
    PROVE  Known' /\ Started' /\ OneExecution'
<1>1. Held = {"holds", "checks", "starts", "runs", "publishes", "fails", "skips"}
  BY DEF Held, Executing
<1>2. \A e \in Executors : exec[e].at \in Held =>
        exec[e].run \in Runs /\ runs[exec[e].run].status # "none"
  BY DEF IInv, Known
<1>3. \A r \in Runs : runs[r].status # "none" =>
        /\ runs'[r].status # "none"
        /\ runs[r].status # "queued" => runs'[r].status # "queued"
  BY DEF Lawful, Grows
<1>4. \A e \in Executors : Goes(e)
  BY DEF Lawful
<1>5. Known'
  <2> SUFFICES ASSUME NEW e \in Executors, exec'[e].at \in Held
               PROVE  exec'[e].run \in Runs /\ runs'[exec'[e].run].status # "none"
    BY DEF Known
  <2> QED BY <1>2, <1>3, <1>4 DEF Goes
<1>6. Started'
  <2> SUFFICES ASSUME NEW e \in Executors, exec'[e].at \in Live
               PROVE  runs'[exec'[e].run].status # "queued"
    BY DEF Started
  <2>1. exec[e].at \in Live => runs[exec[e].run].status # "queued"
    BY DEF IInv, Started
  <2> QED BY <1>1, <1>2, <1>3, <1>4, <2>1 DEF Goes, Live
<1>7. OneExecution'
  <2> SUFFICES ASSUME NEW r \in Runs,
                      \A e \in Executors : exec'[e].at \in Live /\ exec'[e].run = r
               PROVE  FALSE
    BY DEF OneExecution
  <2>1. PICK e \in Executors : \A o \in Executors \ {e} : exec'[o] = exec[o]
    BY DEF Lawful, Alone
  <2>2. PICK o \in Executors \ {e} : TRUE
    BY DEF Executors
  <2>3. exec[o].at \in Live /\ exec[o].run = r /\ runs[r].status # "queued"
    BY <2>1, <2>2 DEF IInv, Started
  <2>4. exec[e].at \in Live /\ exec[e].run = r
    BY <1>1, <1>4, <2>3 DEF Goes, Live
  <2>5. \A a \in Executors : a = e \/ a = o
    BY <2>2 DEF Executors
  <2> QED BY <2>3, <2>4, <2>5 DEF IInv, OneExecution
<1> QED BY <1>5, <1>6, <1>7

LEMMA StopsKeep ==
    ASSUME IInv, Lawful, NoneTold
    PROVE  RemovedIsStopped'
<1>1. "worker" \in Executors /\ "worker" # "command"
  BY DEF Executors
<1> SUFFICES ASSUME NEW m \in Members, members'[m] \in {"told", "gone"},
                    exec'["worker"].at \in {"starts"} \cup Live, OwnerOf("worker")' = m
             PROVE  exec'["worker"].cancelled
  BY DEF RemovedIsStopped
<1>2. exec'["worker"].at \in Held \ {"holds", "checks"}
  BY DEF Live, Held, Executing
<1>3. Goes("worker")
  BY <1>1 DEF Lawful
<1>4. /\ exec["worker"].at \in Held /\ exec'["worker"].run = exec["worker"].run
      /\ exec["worker"].cancelled => exec'["worker"].cancelled
  BY <1>2, <1>3 DEF Goes
<1>5. exec["worker"].run \in Runs /\ runs[exec["worker"].run].status # "none"
  BY <1>1, <1>4 DEF IInv, Known
<1>6. OwnerOf("worker") = m
  BY <1>4, <1>5 DEF OwnerOf, Lawful, Grows
<1>7. m \notin connected'
  BY DEF Lawful, Apart
<1>8. exec["worker"].at \in {"starts"} \cup Live
  BY <1>1, <1>2, <1>3, <1>6, <1>7 DEF Goes, Live
<1>9. exec["worker"].cancelled
  BY <1>6, <1>8 DEF IInv, RemovedIsStopped, NoneTold
<1> QED BY <1>4, <1>9

LEMMA LawfulKeeps ==
    ASSUME IInv, Lawful, NoneTold
    PROVE  IInv'
BY GoesKeep, StopsKeep DEF IInv, Lawful

LEMMA ErrorKinds ==
    ASSUME errors \in 0..MaxErrors, Error \/ UNCHANGED errors
    PROVE  errors' \in 0..MaxErrors
BY RecommendAssumption DEF Error

LEMMA StopKinds ==
    ASSUME stops \in 0..MaxStops, Stop \/ UNCHANGED stops
    PROVE  stops' \in 0..MaxStops
BY RecommendAssumption DEF Stop

LEMMA Still ==
    ASSUME Apart, UNCHANGED <<members, connected>>
    PROVE  Apart' /\ NoneTold
BY DEF Apart, NoneTold
\* A step that leaves the executors and the members alone.
LEMMA RowsStep ==
    ASSUME IInv, UNCHANGED <<exec, members, connected>>, TypeOK', Grows
    PROVE  IInv'
<1>1. Apart' /\ NoneTold
  BY Still DEF IInv
<1>2. Lawful
  BY <1>1, SameExecs DEF Lawful
<1> QED BY <1>1, <1>2, LawfulKeeps

\* A step of an executor.
LEMMA ExecStep ==
    ASSUME IInv, UNCHANGED <<members, connected>>, TypeOK', Grows,
           Alone, \A e \in Executors : Goes(e)
    PROVE  IInv'
<1>1. Apart' /\ NoneTold
  BY Still DEF IInv
<1>2. Lawful
  BY <1>1 DEF Lawful
<1> QED BY <1>1, <1>2, LawfulKeeps

-----------------------------------------------------------------------------
(* Execute.                                                                *)

LEMMA ChecksStep ==
    ASSUME IInv, NEW e \in Executors, Checks(e)
    PROVE  IInv'
<1>1. /\ UNCHANGED <<runs, members, connected, server, work, retrying, todo, errors, stops>>
      /\ exec \in [Executors -> ExecRow]
  BY RunTypes DEF Checks, tables, memory, IInv
<1>2. PICK step \in {"fails", "skips", "starts"} :
        /\ Moves(e, step)
        /\ step = "starts" /\ e = "worker" => OwnerOf(e) \in connected
  BY DEF Checks
<1>3. Goes(e)
  <2>1. e = "worker" \/ e = "command"
    BY DEF Executors
  <2>2. exec[e].at \in Held /\ exec'[e].at \notin Live
    BY <1>1, <1>2, MoveTo DEF Checks, Held, Executing, Live
  <2> QED BY <1>1, <1>2, <2>1, <2>2, MoveTo DEF Goes
<1>4. step \in Steps
  BY DEF Steps, Executing
<1>5. exec' \in [Executors -> ExecRow] /\ Alone /\ \A o \in Executors : Goes(o)
  BY <1>1, <1>2, <1>3, <1>4, MoveKinds
<1>6. TypeOK' /\ Grows
  BY <1>1, <1>5, RunTypes, SameRows DEF IInv, TypeOK, ExecRow
<1> QED BY <1>1, <1>5, <1>6, ExecStep

LEMMA StartRecRunStep ==
    ASSUME IInv, NEW e \in Executors, StartRecRun(e)
    PROVE  IInv'
<1>1. /\ UNCHANGED <<members, connected, server, stops>>
      /\ exec \in [Executors -> ExecRow] /\ exec[e].at = "starts"
      /\ runs \in [Runs -> RunRow] /\ retrying \in BOOLEAN
  BY RunTypes DEF StartRecRun, IInv
<1>2. exec[e].at \in Held /\ exec[e].run \in Runs
  BY <1>1 DEF Held, Executing, IInv, Known
<1>3. ASSUME exec' \in [Executors -> ExecRow], Alone, \A o \in Executors : Goes(o),
             runs' \in [Runs -> RunRow], Grows, Error \/ UNCHANGED errors,
             retrying' \in BOOLEAN, UNCHANGED <<work, todo>>
      PROVE  IInv'
  <2>1. errors' \in 0..MaxErrors
    BY <1>3, ErrorKinds DEF IInv, TypeOK
  <2>2. TypeOK'
    BY <1>1, <1>3, <2>1 DEF IInv, TypeOK, RunRow, ExecRow
  <2> QED BY <1>1, <1>3, <2>2, ExecStep
<1>4. ASSUME Cancelled(e) \/ Error, Moves(e, "fails"), UNCHANGED <<runs, memory>>
      PROVE  IInv'
  <2>1. Goes(e)
    BY <1>1, <1>2, <1>4, MoveTo DEF Goes, Live
  <2>2. "fails" \in Steps
    BY DEF Steps, Executing
  <2>3. exec' \in [Executors -> ExecRow] /\ Alone /\ \A o \in Executors : Goes(o)
    BY <1>1, <1>4, <2>1, <2>2, MoveKinds
  <2>4. Error \/ UNCHANGED errors
    BY <1>4 DEF Cancelled
  <2> QED BY <1>1, <1>3, <1>4, <2>3, <2>4, SameRows DEF memory
<1>5. ASSUME runs[exec[e].run].status = "queued", SetStatus({exec[e].run}, "running"),
             Moves(e, "runs"), UNCHANGED <<errors, memory>>
      PROVE  IInv'
  <2>1. runs' \in [Runs -> RunRow] /\ Grows
    BY <1>1, <1>5, SetKinds
  <2>2. runs'[exec[e].run].status = "running"
    BY <1>1, <1>2, <1>5 DEF SetStatus, RunRow
  <2>3. Goes(e)
    BY <1>1, <1>2, <1>5, <2>2, MoveTo DEF Goes
  <2>4. "runs" \in Steps
    BY DEF Steps, Executing
  <2>5. exec' \in [Executors -> ExecRow] /\ Alone /\ \A o \in Executors : Goes(o)
    BY <1>1, <1>5, <2>3, <2>4, MoveKinds
  <2> QED BY <1>1, <1>3, <1>5, <2>1, <2>5 DEF memory
<1>6. ASSUME Returns(e, "ended"), UNCHANGED <<runs, errors>>
      PROVE  IInv'
  BY <1>1, <1>3, <1>6, ReturnKinds, SameRows
<1> QED BY <1>4, <1>5, <1>6 DEF StartRecRun

LEMMA RunsAgentStep ==
    ASSUME IInv, NEW e \in Executors, RunsAgent(e)
    PROVE  IInv'
<1>1. /\ UNCHANGED <<runs, members, connected, server, work, retrying, todo, errors, stops>>
      /\ exec \in [Executors -> ExecRow]
  BY RunTypes DEF RunsAgent, tables, memory, IInv
<1>2. PICK step \in {"fails", "publishes"} : Moves(e, step)
  BY DEF RunsAgent
<1>3. exec[e].at \in Held /\ exec[e].at \in Live /\ step \in Steps
  BY DEF RunsAgent, Held, Executing, Live, Steps
<1>4. Goes(e)
  BY <1>1, <1>2, <1>3, MoveTo DEF Goes
<1>5. exec' \in [Executors -> ExecRow] /\ Alone /\ \A o \in Executors : Goes(o)
  BY <1>1, <1>2, <1>3, <1>4, MoveKinds
<1>6. TypeOK' /\ Grows
  BY <1>1, <1>5, SameRows DEF IInv, TypeOK, ExecRow
<1> QED BY <1>1, <1>5, <1>6, ExecStep

\* A write that ends a run: whoever gives up on it goes on to the failure, or
\* lets go of the run.
Writes(e) ==
  /\ UNCHANGED <<members, connected, server, stops>>
  /\ UNCHANGED runs \/ SetStatus({exec[e].run}, "ended")
  /\ Error \/ UNCHANGED errors
  /\ \/ \E how \in {"recorded", "gone", "lost"} : Returns(e, how)
     \/ UNCHANGED <<exec, memory>>
     \/ Moves(e, "fails") /\ UNCHANGED memory

LEMMA FinalWriteStep ==
    ASSUME IInv, NEW e \in Executors, exec[e].at \in {"publishes", "fails", "skips"},
           Writes(e)
    PROVE  IInv'
<1>1. /\ UNCHANGED <<members, connected, server, stops>>
      /\ exec \in [Executors -> ExecRow]
      /\ runs \in [Runs -> RunRow] /\ retrying \in BOOLEAN
  BY RunTypes DEF Writes, IInv
<1>2. exec[e].at \in Held
  BY DEF Held, Executing
<1>3. runs' \in [Runs -> RunRow] /\ Grows
  <2>1. UNCHANGED runs \/ SetStatus({exec[e].run}, "ended")
    BY DEF Writes
  <2> QED BY <1>1, <2>1, SetKinds, SameRows
<1>4. errors' \in 0..MaxErrors
  <2>1. Error \/ UNCHANGED errors
    BY DEF Writes
  <2> QED BY <2>1, ErrorKinds DEF IInv, TypeOK
<1>5. /\ exec' \in [Executors -> ExecRow] /\ Alone /\ \A o \in Executors : Goes(o)
      /\ retrying' \in BOOLEAN /\ UNCHANGED <<work, todo>>
  <2>1. \/ \E how \in {"recorded", "gone", "lost"} : Returns(e, how)
        \/ UNCHANGED <<exec, memory>>
        \/ Moves(e, "fails") /\ UNCHANGED memory
    BY DEF Writes
  <2>2. CASE \E how \in {"recorded", "gone", "lost"} : Returns(e, how)
    <3>1. PICK how \in {"recorded", "gone", "lost"} : Returns(e, how)
      BY <2>2
    <3> QED BY <1>1, <3>1, ReturnKinds
  <2>3. CASE UNCHANGED <<exec, memory>>
    BY <1>1, <2>3, SameExecs DEF memory
  <2>4. CASE Moves(e, "fails") /\ UNCHANGED memory
    <3>1. Goes(e)
      BY <1>1, <1>2, <2>4, MoveTo DEF Goes, Live
    <3>2. "fails" \in Steps
      BY DEF Steps, Executing
    <3> QED BY <1>1, <2>4, <3>1, <3>2, MoveKinds DEF memory
  <2> QED BY <2>1, <2>2, <2>3, <2>4
<1>6. TypeOK'
  BY <1>1, <1>3, <1>4, <1>5 DEF IInv, TypeOK, RunRow, ExecRow
<1> QED BY <1>1, <1>3, <1>5, <1>6, ExecStep

LEMMA PublishRecRunStep ==
    ASSUME IInv, NEW e \in Executors, PublishRecRun(e)
    PROVE  IInv'
<1>1. Writes(e)
  BY DEF PublishRecRun, FinalWrite, Writes
<1>2. exec[e].at \in {"publishes", "fails", "skips"}
  BY DEF PublishRecRun
<1> QED BY <1>1, <1>2, FinalWriteStep

LEMMA FailRecRunStep ==
    ASSUME IInv, NEW e \in Executors, FailRecRun(e)
    PROVE  IInv'
<1>1. Writes(e)
  BY DEF FailRecRun, FinalWrite, Writes
<1>2. exec[e].at \in {"publishes", "fails", "skips"}
  BY DEF FailRecRun
<1> QED BY <1>1, <1>2, FinalWriteStep

LEMMA SkipRecRunStep ==
    ASSUME IInv, NEW e \in Executors, SkipRecRun(e)
    PROVE  IInv'
<1>1. Writes(e)
  BY DEF SkipRecRun, FinalWrite, Writes
<1>2. exec[e].at \in {"publishes", "fails", "skips"}
  BY DEF SkipRecRun
<1> QED BY <1>1, <1>2, FinalWriteStep

LEMMA ExecuteStep ==
    ASSUME IInv, NEW e \in Executors, Execute(e)
    PROVE  IInv'
BY ChecksStep, StartRecRunStep, RunsAgentStep, PublishRecRunStep, FailRecRunStep,
   SkipRecRunStep DEF Execute

-----------------------------------------------------------------------------
(* The worker, and who queues and reaps.                                   *)

LEMMA WorkerWakesStep ==
    ASSUME IInv, WorkerWakes
    PROVE  IInv'
<1>1. /\ UNCHANGED <<runs, members, connected, server, retrying, todo, errors, stops>>
      /\ work' = FALSE /\ Moves("worker", "looks")
      /\ exec \in [Executors -> ExecRow]
  BY RunTypes DEF WorkerWakes, tables, IInv
<1>2. "worker" \in Executors /\ "looks" \in Steps /\ "looks" \notin Held
  BY DEF Executors, Steps, Held, Executing
<1>3. Goes("worker")
  BY <1>1, <1>2, MoveTo DEF Goes
<1>4. exec' \in [Executors -> ExecRow] /\ Alone /\ \A o \in Executors : Goes(o)
  BY <1>1, <1>2, <1>3, MoveKinds
<1>5. TypeOK' /\ Grows
  BY <1>1, <1>4, SameRows DEF IInv, TypeOK, ExecRow
<1> QED BY <1>1, <1>4, <1>5, ExecStep

LEMMA WorkerLooksStep ==
    ASSUME IInv, WorkerLooks
    PROVE  IInv'
<1>1. /\ UNCHANGED <<runs, members, connected, server, work, todo, stops>>
      /\ exec \in [Executors -> ExecRow] /\ runs \in [Runs -> RunRow]
  BY RunTypes DEF WorkerLooks, tables, IInv
<1>2. "worker" \in Executors /\ "waits" \in Steps /\ "waits" \notin Held /\ "holds" \in Steps
  BY DEF Executors, Steps, Held, Executing
<1>3. errors' \in 0..MaxErrors /\ retrying' \in BOOLEAN
  <2>1. Error \/ UNCHANGED errors
    BY DEF WorkerLooks
  <2>2. retrying' \in BOOLEAN
    BY DEF WorkerLooks, IInv, TypeOK
  <2> QED BY <2>1, <2>2, ErrorKinds DEF IInv, TypeOK
<1>4. exec' \in [Executors -> ExecRow] /\ Alone /\ \A o \in Executors : Goes(o)
  <2>1. CASE Moves("worker", "waits")
    <3>1. Goes("worker")
      BY <1>1, <1>2, <2>1, MoveTo DEF Goes
    <3> QED BY <1>1, <1>2, <2>1, <3>1, MoveKinds
  <2>2. ASSUME NEW r \in Queued,
               exec' = [exec EXCEPT !["worker"].at = "holds", !["worker"].run = r]
        PROVE  exec' \in [Executors -> ExecRow] /\ Alone /\ \A o \in Executors : Goes(o)
    <3> DEFINE x == [exec["worker"] EXCEPT !.at = "holds", !.run = r]
    <3>1. r \in Runs /\ r \in 0..MaxRuns /\ runs[r].status = "queued"
      BY RecommendAssumption DEF Queued, Runs
    <3>2. exec' = [exec EXCEPT !["worker"] = x]
      BY <1>1, <1>2, <2>2 DEF ExecRow
    <3>3. x \in ExecRow /\ x.at = "holds" /\ x.run = r
      BY <1>1, <1>2, <3>1 DEF ExecRow
    <3> HIDE DEF x
    <3>4. exec'["worker"].at = "holds" /\ exec'["worker"].run = r
      BY <1>1, <1>2, <3>2, <3>3
    <3>5. runs'[r].status # "none"
      BY <1>1, <3>1
    <3>6. Goes("worker")
      BY <3>1, <3>4, <3>5 DEF Goes
    <3> QED BY <1>1, <1>2, <3>2, <3>3, <3>6, OneGoes
  <2> QED BY <2>1, <2>2 DEF WorkerLooks
<1>5. TypeOK' /\ Grows
  BY <1>1, <1>3, <1>4, SameRows DEF IInv, TypeOK, ExecRow
<1> QED BY <1>1, <1>4, <1>5, ExecStep

LEMMA WorkerExecutesStep ==
    ASSUME IInv, WorkerExecutes
    PROVE  IInv'
<1>1. /\ UNCHANGED <<runs, members, connected, server, work, retrying, todo, errors, stops>>
      /\ Moves("worker", "checks")
      /\ exec \in [Executors -> ExecRow]
  BY RunTypes DEF WorkerExecutes, tables, memory, IInv
<1>2. /\ "worker" \in Executors /\ "checks" \in Steps
      /\ exec["worker"].at \in Held /\ "checks" \notin Live
  BY DEF Executors, Steps, Held, Executing, Live, WorkerExecutes
<1>3. Goes("worker")
  BY <1>1, <1>2, MoveTo DEF Goes
<1>4. exec' \in [Executors -> ExecRow] /\ Alone /\ \A o \in Executors : Goes(o)
  BY <1>1, <1>2, <1>3, MoveKinds
<1>5. TypeOK' /\ Grows
  BY <1>1, <1>4, SameRows DEF IInv, TypeOK, ExecRow
<1> QED BY <1>1, <1>4, <1>5, ExecStep

LEMMA RetryKicksStep ==
    ASSUME IInv, RetryKicks
    PROVE  IInv'
<1>1. /\ UNCHANGED <<runs, members, connected, server, exec, todo, errors, stops>>
      /\ retrying' = FALSE /\ work' = TRUE
  BY DEF RetryKicks, tables
<1>2. TypeOK' /\ Grows
  BY <1>1, SameRows DEF IInv, TypeOK
<1> QED BY <1>1, <1>2, RowsStep

LEMMA ReapKinds ==
    ASSUME runs \in [Runs -> RunRow], NEW S, NEW kick \in BOOLEAN, work \in BOOLEAN,
           reap(S, kick)
    PROVE  runs' \in [Runs -> RunRow] /\ Grows /\ work' \in BOOLEAN
<1>1. runs' \in [Runs -> RunRow] /\ Grows
  BY SetKinds DEF reap
<1>2. work' \in BOOLEAN
  BY DEF reap
<1> QED BY <1>1, <1>2

LEMMA ReapsStep ==
    ASSUME IInv, NEW S, Reaps(S)
    PROVE  IInv'
<1>1. /\ UNCHANGED <<members, connected, server, exec, retrying, todo, stops>>
      /\ runs \in [Runs -> RunRow] /\ work \in BOOLEAN
  BY RunTypes DEF Reaps, IInv
<1>2. runs' \in [Runs -> RunRow] /\ Grows /\ work' \in BOOLEAN
  <2>1. reap(S, FALSE) \/ UNCHANGED <<runs, work>>
    BY DEF Reaps
  <2>2. CASE reap(S, FALSE)
    BY <1>1, <2>2, ReapKinds
  <2>3. CASE UNCHANGED <<runs, work>>
    BY <1>1, <2>3, SameRows
  <2> QED BY <2>1, <2>2, <2>3
<1>3. errors' \in 0..MaxErrors
  <2>1. Error \/ UNCHANGED errors
    BY DEF Reaps
  <2> QED BY <2>1, ErrorKinds DEF IInv, TypeOK
<1>4. TypeOK'
  BY <1>1, <1>2, <1>3 DEF IInv, TypeOK, RunRow
<1> QED BY <1>1, <1>2, <1>4, RowsStep

LEMMA SlotStartsStep ==
    ASSUME IInv, NEW S, SlotStarts(S)
    PROVE  IInv'
<1>1. /\ UNCHANGED <<members, connected, server, exec, retrying, stops>>
      /\ runs \in [Runs -> RunRow] /\ work \in BOOLEAN /\ todo' \subseteq Members
  BY RunTypes DEF SlotStarts, IInv
<1>2. runs' \in [Runs -> RunRow] /\ Grows /\ work' \in BOOLEAN
  <2>1. \/ reap(S, todo' = {})
        \/ UNCHANGED runs /\ work' = (work \/ todo' = {})
    BY DEF SlotStarts
  <2>2. CASE reap(S, todo' = {})
    <3>1. PICK kick \in BOOLEAN : kick = (todo' = {})
      OBVIOUS
    <3>2. SetStatus(S, "ended")
      BY <2>2 DEF reap
    <3>3. work' \in BOOLEAN
      BY <2>2 DEF reap
    <3> QED BY <1>1, <3>2, <3>3, SetKinds
  <2>3. CASE UNCHANGED runs /\ work' = (work \/ todo' = {})
    BY <1>1, <2>3, SameRows
  <2> QED BY <2>1, <2>2, <2>3
<1>3. errors' \in 0..MaxErrors
  <2>1. Error \/ UNCHANGED errors
    BY DEF SlotStarts
  <2> QED BY <2>1, ErrorKinds DEF IInv, TypeOK
<1>4. TypeOK'
  BY <1>1, <1>2, <1>3 DEF IInv, TypeOK, RunRow
<1> QED BY <1>1, <1>2, <1>4, RowsStep

LEMMA SlotQueuesStep ==
    ASSUME IInv, NEW m \in Members, SlotQueues(m)
    PROVE  IInv'
<1>1. /\ UNCHANGED <<members, connected, server, exec, retrying, stops>>
      /\ runs \in [Runs -> RunRow]
  BY RunTypes DEF SlotQueues, IInv
<1>2. todo' \subseteq Members /\ work' \in BOOLEAN
  BY DEF SlotQueues, IInv, TypeOK
<1>3. runs' \in [Runs -> RunRow] /\ Grows
  BY <1>1, QueueKinds, SameRows DEF SlotQueues
<1>4. errors' \in 0..MaxErrors
  <2>1. Error \/ UNCHANGED errors
    BY DEF SlotQueues
  <2> QED BY <2>1, ErrorKinds DEF IInv, TypeOK
<1>5. TypeOK'
  BY <1>1, <1>2, <1>3, <1>4 DEF IInv, TypeOK, RunRow
<1> QED BY <1>1, <1>3, <1>5, RowsStep

LEMMA RefreshStep ==
    ASSUME IInv, NEW m \in Members, Refresh(m)
    PROVE  IInv'
<1>1. /\ UNCHANGED <<members, connected, server, exec, retrying, todo, errors, stops>>
      /\ work' = TRUE /\ QueueRecRun(m) /\ runs \in [Runs -> RunRow]
  BY RunTypes DEF Refresh, IInv
<1>2. runs' \in [Runs -> RunRow] /\ Grows
  BY <1>1, QueueKinds
<1>3. TypeOK'
  BY <1>1, <1>2 DEF IInv, TypeOK, RunRow
<1> QED BY <1>1, <1>2, <1>3, RowsStep

-----------------------------------------------------------------------------
(* The processes and the members.                                          *)

LEMMA StartStep ==
    ASSUME IInv, Start
    PROVE  IInv'
<1>1. /\ UNCHANGED <<members, connected, retrying, todo, stops>>
      /\ server' \in {"started", "keyless", "unstarted"}
      /\ exec \in [Executors -> ExecRow] /\ runs \in [Runs -> RunRow]
      /\ "worker" \in Executors
  BY RunTypes DEF Start, IInv, Executors
<1>2. work' \in BOOLEAN
  BY DEF Start, IInv, TypeOK
<1>3. errors' \in 0..MaxErrors
  <2>1. Error \/ UNCHANGED errors
    BY DEF Start
  <2> QED BY <2>1, ErrorKinds DEF IInv, TypeOK
<1>4. runs' \in [Runs -> RunRow] /\ Grows
  BY <1>1, SetKinds, SameRows DEF Start
<1>5. exec' \in [Executors -> ExecRow] /\ Alone /\ \A o \in Executors : Goes(o)
  <2>1. exec' = [exec EXCEPT !["worker"] = Waiting] \/ UNCHANGED exec
    BY DEF Start
  <2>2. CASE exec' = [exec EXCEPT !["worker"] = Waiting]
    BY <1>1, <2>2, LetsGo
  <2>3. CASE UNCHANGED exec
    BY <1>1, <2>3, SameExecs
  <2> QED BY <2>1, <2>2, <2>3
<1>6. TypeOK'
  BY <1>1, <1>2, <1>3, <1>4, <1>5 DEF IInv, TypeOK, RunRow, ExecRow
<1> QED BY <1>1, <1>4, <1>5, <1>6, ExecStep

LEMMA CloseStep ==
    ASSUME IInv, Close
    PROVE  IInv'
<1>1. /\ UNCHANGED <<runs, members, connected, errors>> /\ Stop
      /\ server' = "closing" /\ retrying' = FALSE /\ todo' = {} /\ work' = FALSE
      /\ exec \in [Executors -> ExecRow] /\ "worker" \in Executors
  BY RunTypes DEF Close, tables, IInv, Executors
<1>2. exec' \in [Executors -> ExecRow] /\ Alone /\ \A o \in Executors : Goes(o)
  <2>1. CASE exec' = [exec EXCEPT !["worker"] = Idle]
    BY <1>1, <2>1, LetsGo
  <2>2. CASE exec' = [exec EXCEPT !["worker"] = [exec["worker"] EXCEPT !.cancelled = TRUE]]
    <3> DEFINE x == [exec["worker"] EXCEPT !.cancelled = TRUE]
    <3>1. x \in ExecRow /\ x.at = exec["worker"].at /\ x.run = exec["worker"].run
          /\ x.cancelled
      BY <1>1 DEF ExecRow
    <3>2. exec' = [exec EXCEPT !["worker"] = x]
      BY <2>2
    <3> HIDE DEF x
    <3>3. exec'["worker"] = x
      BY <1>1, <3>2
    <3>4. Goes("worker")
      BY <3>1, <3>3 DEF Goes
    <3> QED BY <1>1, <3>1, <3>2, <3>4, OneGoes
  <2> QED BY <2>1, <2>2 DEF Close
<1>3. stops' \in 0..MaxStops
  BY <1>1, StopKinds DEF IInv, TypeOK
<1>4. TypeOK' /\ Grows
  BY <1>1, <1>2, <1>3, SameRows DEF IInv, TypeOK, ExecRow
<1> QED BY <1>1, <1>2, <1>4, ExecStep

LEMMA CrashStep ==
    ASSUME IInv, Crash
    PROVE  IInv'
<1>1. /\ UNCHANGED <<runs, connected, errors>>
      /\ server' = "down" /\ retrying' = FALSE /\ todo' = {} /\ work' = FALSE
      /\ exec' = [exec EXCEPT !["worker"] = Idle]
      /\ members' = [m \in Members |-> IF members[m] = "gone" THEN "gone" ELSE "in"]
      /\ exec \in [Executors -> ExecRow] /\ "worker" \in Executors
  BY RunTypes DEF Crash, IInv, Executors
<1>2. exec' \in [Executors -> ExecRow] /\ Alone /\ \A o \in Executors : Goes(o)
  BY <1>1, LetsGo
<1>3. stops' \in 0..MaxStops
  <2>1. Stop \/ UNCHANGED stops
    BY DEF Crash
  <2> QED BY <2>1, StopKinds DEF IInv, TypeOK
<1>4. TypeOK' /\ Grows
  BY <1>1, <1>2, <1>3, SameRows DEF IInv, TypeOK, ExecRow
<1>5. Apart' /\ NoneTold
  BY <1>1 DEF IInv, Apart, NoneTold
<1>6. Lawful
  BY <1>2, <1>4, <1>5 DEF Lawful
<1> QED BY <1>5, <1>6, LawfulKeeps

LEMMA CommandStep ==
    ASSUME IInv, NEW m \in Members, Command(m)
    PROVE  IInv'
<1>1. /\ UNCHANGED <<members, connected, server, work, retrying, todo, errors, stops>>
      /\ QueueRecRun(m)
      /\ exec \in [Executors -> ExecRow] /\ "command" \in Executors
      /\ runs \in [Runs -> RunRow]
  BY RunTypes DEF Command, memory, IInv, Executors
<1>2. runs' \in [Runs -> RunRow] /\ Grows
  BY <1>1, QueueKinds
<1>3. PICK r \in Runs :
        /\ runs'[r].status = "queued"
        /\ exec' = [exec EXCEPT !["command"] = [at |-> "checks", run |-> r, cancelled |-> FALSE]]
  BY DEF Command
<1> DEFINE x == [at |-> "checks", run |-> r, cancelled |-> FALSE]
<1>4. x \in ExecRow /\ x.at = "checks" /\ x.run = r
  <2>1. r \in 0..MaxRuns /\ "checks" \in Steps
    BY RecommendAssumption DEF Runs, Steps, Executing
  <2> QED BY <2>1 DEF ExecRow
<1>5. exec' = [exec EXCEPT !["command"] = x]
  BY <1>3
<1> HIDE DEF x
<1>6. exec'["command"] = x
  BY <1>1, <1>5
<1>7. Goes("command")
  BY <1>3, <1>4, <1>6 DEF Goes
<1>8. exec' \in [Executors -> ExecRow] /\ Alone /\ \A o \in Executors : Goes(o)
  BY <1>1, <1>4, <1>5, <1>7, OneGoes
<1>9. TypeOK'
  BY <1>1, <1>2, <1>8 DEF IInv, TypeOK, RunRow, ExecRow
<1> QED BY <1>1, <1>2, <1>8, <1>9, ExecStep

LEMMA CommandStopsStep ==
    ASSUME IInv, CommandStops
    PROVE  IInv'
<1>1. /\ UNCHANGED <<runs, members, connected, server, work, retrying, todo, errors>> /\ Stop
      /\ exec \in [Executors -> ExecRow] /\ "command" \in Executors
  BY RunTypes DEF CommandStops, tables, memory, IInv, Executors
<1>2. exec' \in [Executors -> ExecRow] /\ Alone /\ \A o \in Executors : Goes(o)
  <2>1. CASE exec["command"].at \in {"checks", "starts", "runs"} /\ Moves("command", "fails")
    <3>1. /\ exec["command"].at \in Held /\ "fails" \in Steps /\ "fails" \notin Live
      BY <2>1 DEF Held, Executing, Steps, Live
    <3>2. Goes("command")
      BY <1>1, <2>1, <3>1, MoveTo DEF Goes
    <3> QED BY <1>1, <2>1, <3>1, <3>2, MoveKinds
  <2>2. CASE exec' = [exec EXCEPT !["command"] = Idle]
    BY <1>1, <2>2, LetsGo
  <2> QED BY <2>1, <2>2 DEF CommandStops
<1>3. stops' \in 0..MaxStops
  BY <1>1, StopKinds DEF IInv, TypeOK
<1>4. TypeOK' /\ Grows
  BY <1>1, <1>2, <1>3, SameRows DEF IInv, TypeOK, ExecRow
<1> QED BY <1>1, <1>2, <1>4, ExecStep

LEMMA ConnectStep ==
    ASSUME IInv, NEW m \in Members, Connect(m)
    PROVE  IInv'
<1>1. /\ UNCHANGED <<runs, members, server, exec, work, retrying, todo, errors, stops>>
      /\ members[m] = "in" /\ connected' = connected \cup {m}
  BY DEF Connect, memory
<1>2. TypeOK' /\ Grows /\ Apart' /\ NoneTold
  BY <1>1, SameRows DEF IInv, TypeOK, Apart, NoneTold
<1>3. Lawful
  BY <1>1, <1>2, SameExecs DEF Lawful
<1> QED BY <1>2, <1>3, LawfulKeeps

LEMMA DeleteStep ==
    ASSUME IInv, NEW m \in Members, Delete(m)
    PROVE  IInv'
<1>1. /\ UNCHANGED <<runs, server, exec, work, retrying, todo, errors, stops>>
      /\ members' = [members EXCEPT ![m] = "forgotten"] /\ connected' = connected \ {m}
  BY DEF Delete, memory
<1>2. TypeOK' /\ Grows /\ Apart' /\ NoneTold
  BY <1>1, SameRows DEF IInv, TypeOK, Apart, NoneTold
<1>3. Lawful
  BY <1>1, <1>2, SameExecs DEF Lawful
<1> QED BY <1>2, <1>3, LawfulKeeps

LEMMA ForgetMemberStep ==
    ASSUME IInv, NEW m \in Members, ForgetMember(m)
    PROVE  IInv'
<1>1. /\ UNCHANGED <<runs, connected, server, work, retrying, todo, errors, stops>>
      /\ members[m] = "forgotten" /\ members' = [members EXCEPT ![m] = "told"]
      /\ exec \in [Executors -> ExecRow] /\ "worker" \in Executors
  BY RunTypes DEF ForgetMember, memory, IInv, Executors
<1> DEFINE hit == exec["worker"].at \in Executing /\ OwnerOf("worker") = m
           x == [exec["worker"] EXCEPT !.cancelled = TRUE]
<1>2. x \in ExecRow /\ x.at = exec["worker"].at /\ x.run = exec["worker"].run /\ x.cancelled
  BY <1>1 DEF ExecRow
<1>3. IF hit THEN exec' = [exec EXCEPT !["worker"] = x] ELSE UNCHANGED exec
  BY DEF ForgetMember
<1> HIDE DEF x
<1>4. hit => exec'["worker"] = x
  BY <1>1, <1>3
<1>5. Goes("worker")
  BY <1>2, <1>3, <1>4, LeftAlone DEF Goes
<1>6. exec' \in [Executors -> ExecRow] /\ Alone /\ \A o \in Executors : Goes(o)
  <2>1. CASE hit
    BY <1>1, <1>2, <1>3, <1>5, <2>1, OneGoes
  <2>2. CASE ~hit
    BY <1>1, <1>3, <2>2, SameExecs
  <2> QED BY <2>1, <2>2
<1>7. TypeOK' /\ Grows /\ Apart'
  BY <1>1, <1>6, SameRows DEF IInv, TypeOK, ExecRow, Apart
<1>8. Lawful
  BY <1>6, <1>7 DEF Lawful
<1>9. RemovedIsStopped'
  <2> SUFFICES ASSUME NEW n \in Members, members'[n] \in {"told", "gone"},
                      exec'["worker"].at \in {"starts"} \cup Live, OwnerOf("worker")' = n
               PROVE  exec'["worker"].cancelled
    BY DEF RemovedIsStopped
  <2>1. exec'["worker"].at = exec["worker"].at /\ exec'["worker"].run = exec["worker"].run
    BY <1>2, <1>3, <1>4
  <2>2. OwnerOf("worker") = n
    BY <1>1, <2>1 DEF OwnerOf
  <2>3. CASE n = m
    <3>1. hit
      BY <2>1, <2>2, <2>3 DEF Executing, Live
    <3> QED BY <1>2, <1>4, <3>1
  <2>4. CASE n # m
    <3>1. members[n] \in {"told", "gone"}
      BY <1>1, <2>4 DEF IInv, TypeOK
    <3>2. exec["worker"].cancelled
      BY <2>1, <2>2, <3>1 DEF IInv, RemovedIsStopped
    <3> QED BY <1>2, <1>3, <1>4, <3>2
  <2> QED BY <2>3, <2>4
<1>10. Known' /\ Started' /\ OneExecution'
  BY <1>8, GoesKeep
<1> QED BY <1>7, <1>9, <1>10 DEF IInv

LEMMA DeleteRowStep ==
    ASSUME IInv, NEW m \in Members, DeleteRow(m)
    PROVE  IInv'
<1>1. /\ UNCHANGED <<connected, server, exec, work, retrying, todo, stops>>
      /\ members[m] = "told" /\ runs \in [Runs -> RunRow]
  BY RunTypes DEF DeleteRow, memory, IInv
<1>2. PICK s \in {"gone", "in"} : members' = [members EXCEPT ![m] = s]
  BY DEF DeleteRow
<1>3. runs' \in [Runs -> RunRow] /\ Grows
  BY <1>1, SetKinds, SameRows DEF DeleteRow
<1>4. errors' \in 0..MaxErrors
  <2>1. Error \/ UNCHANGED errors
    BY DEF DeleteRow
  <2> QED BY <2>1, ErrorKinds DEF IInv, TypeOK
<1>5. TypeOK'
  BY <1>1, <1>2, <1>3, <1>4 DEF IInv, TypeOK, RunRow
<1>6. Apart' /\ NoneTold
  BY <1>1, <1>2 DEF IInv, TypeOK, Apart, NoneTold
<1>7. Lawful
  BY <1>1, <1>3, <1>5, <1>6, SameExecs DEF Lawful
<1> QED BY <1>6, <1>7, LawfulKeeps

-----------------------------------------------------------------------------
(* The invariant, and what it gives.                                       *)

LEMMA InvInit ==
    ASSUME Init
    PROVE  IInv
<1>1. \A e \in Executors : exec[e].at = "idle" /\ exec[e] \in ExecRow
  <2>1. 0 \in 0..MaxRuns /\ "idle" \in Steps
    BY RecommendAssumption DEF Steps
  <2> QED BY <2>1 DEF Init, Idle, ExecRow
<1>2. exec \in [Executors -> ExecRow]
  BY <1>1 DEF Init
<1>3. TypeOK
  <2>1. 0 \in 0..MaxErrors /\ 0 \in 0..MaxStops
    BY RecommendAssumption
  <2> QED BY <1>2, <2>1 DEF Init, TypeOK, ExecRow
<1>4. \A e \in Executors : exec[e].at \notin Held \cup Live
  BY <1>1 DEF Held, Executing, Live
<1>5. Known /\ Started /\ OneExecution
  BY <1>4 DEF Known, Started, OneExecution, Executors
<1>6. Apart /\ RemovedIsStopped
  BY DEF Init, Apart, RemovedIsStopped
<1> QED BY <1>3, <1>5, <1>6 DEF IInv

LEMMA InvNext ==
    ASSUME IInv, [Next]_vars
    PROVE  IInv'
<1>1. CASE UNCHANGED vars
  <2>1. /\ UNCHANGED <<runs, members, connected, server, exec>>
        /\ UNCHANGED <<work, retrying, todo, errors, stops>>
    BY <1>1 DEF vars, tables, memory
  <2>2. TypeOK' /\ Grows
    BY <2>1, SameRows DEF IInv, TypeOK
  <2> QED BY <2>1, <2>2, RowsStep
<1>2. CASE Worker \/ Execute("command")
  BY <1>2, ExecuteStep, WorkerWakesStep, WorkerLooksStep, WorkerExecutesStep
     DEF Worker, Executors
<1>3. CASE RetryKicks
  BY <1>3, RetryKicksStep
<1>4. ASSUME NEW S, Reaps(S) \/ SlotStarts(S)
      PROVE  IInv'
  BY <1>4, ReapsStep, SlotStartsStep
<1>5. CASE Start \/ Close \/ Crash \/ CommandStops
  BY <1>5, StartStep, CloseStep, CrashStep, CommandStopsStep
<1>6. ASSUME NEW m \in Members,
             SlotQueues(m) \/ Refresh(m) \/ Command(m) \/ Connect(m)
      PROVE  IInv'
  BY <1>6, SlotQueuesStep, RefreshStep, CommandStep, ConnectStep
<1>7. ASSUME NEW m \in Members, Delete(m) \/ ForgetMember(m) \/ DeleteRow(m)
      PROVE  IInv'
  BY <1>7, DeleteStep, ForgetMemberStep, DeleteRowStep
<1> QED BY <1>1, <1>2, <1>3, <1>4, <1>5, <1>6, <1>7 DEF Next

LEMMA InvHolds == Spec => []IInv
<1>1. Init => IInv
  BY InvInit
<1>2. IInv /\ [Next]_vars => IInv'
  BY InvNext
<1> QED BY <1>1, <1>2, PTL DEF Spec

(* The rows, the members, the server and the executors keep their types:   *)
(* whoever holds a run holds one of the table's.                           *)
THEOREM TypeCorrect == Spec => []TypeOK
<1>1. IInv => TypeOK
  BY DEF IInv
<1> QED BY <1>1, InvHolds, PTL

(* The server's worker and a command's process, which know of each other   *)
(* only by the table, never have the agent at work on the same run: both   *)
(* may read it queued, StartRecRun lets one of them start.                 *)
THEOREM NoRunTwice == Spec => []OneExecution
<1>1. IInv => OneExecution
  BY DEF IInv
<1> QED BY <1>1, InvHolds, PTL

(* Once the scheduler was told of a member's removal, the run of theirs    *)
(* that the worker has is cancelled, or doesn't get past its checks,       *)
(* between whichever of its steps the removal came.                        *)
THEOREM RemovedRunsStop == Spec => []RemovedIsStopped
<1>1. IInv => RemovedIsStopped
  BY DEF IInv
<1> QED BY <1>1, InvHolds, PTL
=============================================================================
