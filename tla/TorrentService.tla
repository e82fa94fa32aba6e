--------------------------- MODULE TorrentService ---------------------------
(***************************************************************************)
(* The torrents of the client: lazy loads and removals under a lock per    *)
(* info hash (torrent/service_impl.go), the idle check and the user's      *)
(* pauses (torrent/activity.go), the pauses kept in the database           *)
(* (activity/service.go, library/settings_torrents.go), and the removals   *)
(* that clear them (service/removal.go, library/removal_repo.go).          *)
(***************************************************************************)
EXTENDS Naturals, FiniteSets

CONSTANTS
  Torrents,     \* info hashes
  Pieces,       \* pieces of a torrent
  Callers,      \* goroutines of requests, jobs and background deletes
  StartPaused,  \* the values of the setting: torrents load with their network off
  MaxChanges,   \* failures and restarts in a behaviour
  Nobody

ASSUME TorrentAssumption ==
  /\ Nobody \notin Callers
  /\ StartPaused \subseteq BOOLEAN
  /\ MaxChanges \in Nat

VARIABLES
  known,        \* torrents of an active assignment or an open job, dry runs aside
  stored,       \* pauses in the database
  metainfo,     \* "none", "stored" or "corrupt": the metainfo file
  data,         \* pieces on disk
  network,      \* the client's torrents: "none", or its network "on", "off"
  loaded,       \* service.torrents
  state,        \* ActivityManager.state, "none" for one not registered
  recent,       \* active torrents accessed within the idle timeout
  paused,       \* ActivityManager.paused
  candidates,   \* what the idle check collected, Nobody between checks
  lock,         \* hashLocks: the caller that holds each
  call,         \* what each caller is at
  pausing,      \* the pause or resume that holds Service.writes
  torn,         \* history: pauses a removal overlapped, or a write failed for
  changes

serviceVars == <<metainfo, network, loaded, lock, call>>
activityVars == <<state, recent, paused, candidates>>
libraryVars == <<known, stored>>
vars == <<known, stored, metainfo, data, network, loaded, state,
          recent, paused, candidates, lock, call, pausing, torn, changes>>

NewCall(at, h, why, erase) ==
  [at |-> at, torrent |-> h, why |-> why, erase |-> erase,
   left |-> {}, failed |-> {}, fresh |-> FALSE]
Idle == NewCall("idle", Nobody, "add", FALSE)
NoPausing == [at |-> "idle", on |-> FALSE, over |-> {}, todo |-> {}]

Removing == {"drops", "unmapped", "deletes", "unstores", "unpauses"}

(* A removal and a pause are under way on h: the pause's two writes and    *)
(* the removal's two mix.                                                  *)
Overlap(c, p) ==
  {h \in p.over : \E d \in Callers :
     c[d].torrent = h /\ c[d].at \in Removing /\ c[d].why # "background"}

Bounded == changes < MaxChanges /\ changes' = changes + 1

-----------------------------------------------------------------------------
(* The activity manager, each under its mutex.                             *)

SetNetwork(h, s, n) ==
  /\ state' = [state EXCEPT ![h] = s]
  /\ network' = [network EXCEPT ![h] = n]

BugRegister(h) ==
  \/ TRUE \in StartPaused /\ SetNetwork(h, "idle", "off") /\ UNCHANGED recent
  \/ FALSE \in StartPaused /\ SetNetwork(h, "active", network[h]) /\ recent' = recent \cup {h}
(* The state a torrent registers in. Without idle mode the manager starts  *)
(* torrents active.                                                        *)
register(h) ==
  IF h \in paused THEN SetNetwork(h, "paused", "off") /\ UNCHANGED recent
  ELSE \/ TRUE \in StartPaused /\ SetNetwork(h, "idle", "off") /\ UNCHANGED recent
       \/ FALSE \in StartPaused /\ SetNetwork(h, "active", network[h]) /\ recent' = recent \cup {h}

Pause(h) ==
  /\ paused' = paused \cup {h}
  /\ IF h \notin paused /\ state[h] # "none"
     THEN SetNetwork(h, "paused", "off") /\ recent' = recent \ {h}
     ELSE UNCHANGED <<state, network, recent>>

Resume(h) ==
  /\ paused' = paused \ {h}
  /\ IF h \in paused /\ state[h] # "none"
     THEN SetNetwork(h, "active", "on") /\ recent' = recent \cup {h}
     ELSE UNCHANGED <<state, network, recent>>

(* A read or a download of the torrent, which wakes it.                    *)
MarkActive(h) ==
  /\ state[h] # "none" /\ h \notin paused
  /\ recent' = recent \cup {h}
  /\ IF state[h] = "idle" THEN SetNetwork(h, "active", "on")
                          ELSE UNCHANGED <<state, network>>
  /\ UNCHANGED <<paused, candidates, libraryVars, metainfo, data, loaded,
                 lock, call, pausing, torn, changes>>

Ages(h) ==
  /\ h \in recent
  /\ recent' = recent \ {h}
  /\ UNCHANGED <<state, paused, candidates, serviceVars, libraryVars, data,
                 pausing, torn, changes>>

(* checkIdleTorrents, first under the read lock, then under the lock.      *)
IdleCollects ==
  /\ candidates = Nobody
  /\ candidates' = {h \in Torrents : state[h] = "active" /\ h \notin recent}
  /\ candidates' # {}
  /\ UNCHANGED <<state, recent, paused, serviceVars, libraryVars, data,
                 pausing, torn, changes>>

BugGoesIdle(h) == state[h] = "active"
GoesIdle(h) == state[h] = "active" /\ h \notin recent

IdleApplies ==
  /\ candidates # Nobody
  /\ candidates' = Nobody
  /\ state' = [h \in Torrents |->
       IF h \in candidates /\ GoesIdle(h) THEN "idle" ELSE state[h]]
  /\ network' = [h \in Torrents |->
       IF h \in candidates /\ GoesIdle(h) THEN "off" ELSE network[h]]
  /\ UNCHANGED <<recent, paused, libraryVars, metainfo, data, loaded, lock,
                 call, pausing, torn, changes>>

-----------------------------------------------------------------------------
(* AddTorrent: one attempt at a time for a hash, whose callers share it.   *)

(* The callers that share the attempt of c: itself and those that joined.  *)
Sharing(c) ==
  {c} \cup {d \in Callers : call[d].at = "joined" /\ call[d].torrent = call[c].torrent}

(* A caller's attempt ended. A background delete that got its torrent goes *)
(* on to see whether something uses it again.                              *)
AfterAdd(k, ok) ==
  IF k.why = "background" /\ ok THEN [k EXCEPT !.at = "checks"] ELSE Idle

Returns(c, ok) ==
  call' = [d \in Callers |->
    IF d \in Sharing(c) THEN AfterAdd(call[d], ok) ELSE call[d]]

Adding == {"adds", "waits", "registers", "maps"}
Joins(h, why) ==
  LET shared == \E d \in Callers : call[d].torrent = h /\ call[d].at \in Adding
  IN  NewCall(IF shared THEN "joined" ELSE "adds", h, why, FALSE)

(* A loaded torrent is answered at once. The look at the map may be older  *)
(* than the attempt that is joined or started: another may have ended.     *)
Add(c) ==
  \E h \in Torrents :
    /\ call[c].at = "idle"
    /\ call' = [call EXCEPT ![c] = Joins(h, "add")]
    /\ UNCHANGED <<metainfo, network, loaded, lock, activityVars, libraryVars,
                   data, pausing, torn, changes>>

(* With the hash lock: another add or removal may have loaded it meanwhile.*)
AddLoaded(c) ==
  LET h == call[c].torrent IN
  /\ call[c].at = "adds" /\ lock[h] = Nobody /\ h \in loaded
  /\ Returns(c, TRUE)
  /\ UNCHANGED <<metainfo, network, loaded, lock, activityVars, libraryVars,
                 data, pausing, torn, changes>>

(* The stored metainfo (a corrupt file goes) and addSpec,                  *)
AddStarts(c) ==
  LET h == call[c].torrent IN
  /\ call[c].at = "adds" /\ lock[h] = Nobody /\ h \notin loaded
  /\ lock' = [lock EXCEPT ![h] = c]
  /\ network' = [network EXCEPT ![h] = "on"]
  /\ metainfo' = [metainfo EXCEPT ![h] = IF @ = "stored" THEN @ ELSE "none"]
  /\ call' = [call EXCEPT ![c].at = "waits", ![c].fresh = metainfo[h] # "stored"]
  /\ UNCHANGED <<loaded, activityVars, libraryVars, data, pausing, torn, changes>>

(* which may refuse it: the metainfo goes, or its removal fails.           *)
AddRefused(c) ==
  LET h == call[c].torrent IN
  /\ call[c].at = "adds" /\ lock[h] = Nobody /\ h \notin loaded
  /\ Bounded
  /\ metainfo' = [metainfo EXCEPT ![h] = "none"] \/ UNCHANGED metainfo
  /\ Returns(c, FALSE)
  /\ UNCHANGED <<network, loaded, lock, activityVars, libraryVars, data, pausing, torn>>

(* The metadata came; from peers, it is saved, or saving fails.            *)
AddGetsInfo(c) ==
  LET h == call[c].torrent IN
  /\ call[c].at = "waits"
  /\ call' = [call EXCEPT ![c].at = "registers", ![c].fresh = FALSE]
  /\ \/ /\ metainfo' = [metainfo EXCEPT ![h] = "stored"]
        /\ UNCHANGED changes
     \/ call[c].fresh /\ Bounded /\ UNCHANGED metainfo
  /\ UNCHANGED <<network, loaded, lock, activityVars, libraryVars, data,
                 pausing, torn>>

BugAddTimesOut(c) ==
  LET h == call[c].torrent IN
  /\ call[c].at = "waits" /\ call[c].fresh
  /\ lock' = [lock EXCEPT ![h] = Nobody]
  /\ Returns(c, FALSE)
  /\ UNCHANGED <<metainfo, network, loaded, activityVars, libraryVars, data,
                 pausing, torn, changes>>
(* The metadata did not come within addTimeout.                            *)
AddTimesOut(c) ==
  LET h == call[c].torrent IN
  /\ call[c].at = "waits" /\ call[c].fresh
  /\ network' = [network EXCEPT ![h] = "none"]
  /\ lock' = [lock EXCEPT ![h] = Nobody]
  /\ Returns(c, FALSE)
  /\ UNCHANGED <<metainfo, loaded, activityVars, libraryVars, data, pausing,
                 torn, changes>>

AddRegisters(c) ==
  /\ call[c].at = "registers"
  /\ register(call[c].torrent)
  /\ call' = [call EXCEPT ![c].at = "maps"]
  /\ UNCHANGED <<metainfo, loaded, lock, paused, candidates, libraryVars, data,
                 pausing, torn, changes>>

AddMaps(c) ==
  LET h == call[c].torrent IN
  /\ call[c].at = "maps"
  /\ loaded' = loaded \cup {h}
  /\ lock' = [lock EXCEPT ![h] = Nobody]
  /\ Returns(c, TRUE)
  /\ UNCHANGED <<metainfo, network, activityVars, libraryVars, data, pausing,
                 torn, changes>>

-----------------------------------------------------------------------------
(* RemoveTorrent, as its three callers run it.                             *)

(* What a caller goes on to when the torrent is gone from the client.      *)
AfterRemove(k) ==
  CASE k.why = "delete"     -> [k EXCEPT !.at = "unpauses"]
    [] k.why = "release"    -> [k EXCEPT !.at = "unstores"]
    [] k.why = "background" -> Idle

(* What of it there is to erase.                                           *)
ToErase(c) == IF call[c].erase THEN Pieces ELSE {}

(* With the hash lock: out of the maps when it is loaded;                  *)
RemoveLoaded(c) ==
  LET h == call[c].torrent IN
  /\ call[c].at = "drops" /\ lock[h] = Nobody /\ h \in loaded
  /\ lock' = [lock EXCEPT ![h] = c]
  /\ loaded' = loaded \ {h}
  /\ call' = [call EXCEPT ![c].at = "unmapped", ![c].left = ToErase(c)]
  /\ UNCHANGED <<metainfo, network, activityVars, libraryVars, data, pausing, torn, changes>>

(* otherwise its stored metainfo names the pieces, unless their storage    *)
(* cannot be opened: that is logged, and none is deleted;                  *)
RemoveStored(c) ==
  LET h == call[c].torrent IN
  /\ call[c].at = "drops" /\ lock[h] = Nobody /\ h \notin loaded /\ metainfo[h] = "stored"
  /\ lock' = [lock EXCEPT ![h] = c]
  /\ \/ /\ call' = [call EXCEPT ![c].at = "deletes", ![c].left = ToErase(c)]
        /\ UNCHANGED changes
     \/ /\ call[c].erase /\ Bounded
        /\ call' = [call EXCEPT ![c].at = "deletes", ![c].failed = Pieces]
  /\ UNCHANGED <<metainfo, network, loaded, activityVars, libraryVars, data, pausing, torn>>

(* and without it there is nothing to remove: a background delete, by a    *)
(* caller that is free, then fetches it to learn them.                     *)
RemoveAbsent(c) ==
  LET h == call[c].torrent IN
  /\ call[c].at = "drops" /\ lock[h] = Nobody /\ h \notin loaded /\ metainfo[h] # "stored"
  /\ metainfo' = [metainfo EXCEPT ![h] = "none"]
  /\ \/ call' = [call EXCEPT ![c] = AfterRemove(@)]
     \/ /\ call[c].erase /\ call[c].why # "background"
        /\ \E d \in Callers :
             /\ call[d].at = "idle"
             /\ call' = [call EXCEPT ![c] = AfterRemove(@), ![d] = Joins(h, "background")]
  /\ UNCHANGED <<network, loaded, lock, activityVars, libraryVars, data, pausing, torn, changes>>

BugRemoveDrops(c) ==
  LET h == call[c].torrent IN
  /\ call[c].at = "unmapped"
  /\ \/ \E p \in call[c].left :
          /\ call' = [call EXCEPT ![c].left = @ \ {p}]
          /\ data' = [data EXCEPT ![h] = @ \ {p}]
          /\ UNCHANGED <<state, recent, network>>
     \/ /\ call[c].left = {}
        /\ state' = [state EXCEPT ![h] = "none"]
        /\ recent' = recent \ {h}
        /\ network' = [network EXCEPT ![h] = "none"]
        /\ call' = [call EXCEPT ![c].at = "deletes"]
        /\ UNCHANGED data
  /\ UNCHANGED <<metainfo, loaded, lock, paused, candidates, libraryVars,
                 pausing, torn, changes>>
(* Unregister, then Drop. Nothing in between tells them apart: a torrent   *)
(* that is not registered is left alone by the activity manager.           *)
RemoveDrops(c) ==
  LET h == call[c].torrent IN
  /\ call[c].at = "unmapped"
  /\ state' = [state EXCEPT ![h] = "none"]
  /\ recent' = recent \ {h}
  /\ network' = [network EXCEPT ![h] = "none"]
  /\ call' = [call EXCEPT ![c].at = "deletes"]
  /\ UNCHANGED <<metainfo, loaded, lock, paused, candidates, libraryVars, data,
                 pausing, torn, changes>>

(* MarkNotComplete of one piece after another. One that fails is only      *)
(* counted and logged: its piece stays.                                    *)
DeletesPiece(c) ==
  LET h == call[c].torrent IN
  /\ call[c].at = "deletes"
  /\ \E p \in call[c].left :
       \/ /\ call' = [call EXCEPT ![c].left = @ \ {p}]
          /\ data' = [data EXCEPT ![h] = @ \ {p}]
          /\ UNCHANGED changes
       \/ /\ Bounded
          /\ call' = [call EXCEPT ![c].left = @ \ {p}, ![c].failed = @ \cup {p}]
          /\ UNCHANGED data
  /\ UNCHANGED <<metainfo, network, loaded, lock, activityVars, libraryVars,
                 pausing, torn>>

(* The metainfo goes either way, unless its file cannot be removed, which  *)
(* is logged as well.                                                      *)
RemoveEnds(c) ==
  LET h == call[c].torrent IN
  /\ call[c].at = "deletes" /\ call[c].left = {}
  /\ \/ metainfo' = [metainfo EXCEPT ![h] = "none"] /\ UNCHANGED changes
     \/ metainfo[h] # "none" /\ Bounded /\ UNCHANGED metainfo
  /\ lock' = [lock EXCEPT ![h] = Nobody]
  /\ call' = [call EXCEPT ![c] = AfterRemove(@)]
  /\ UNCHANGED <<network, loaded, activityVars, libraryVars, data, pausing, torn>>

-----------------------------------------------------------------------------
(* The removal service.                                                    *)

(* DeleteTorrent: its rows go in one transaction, its stored pause too.    *)
Delete(c) ==
  \E h \in loaded \cup known, erase \in BOOLEAN :
    LET cs == [call EXCEPT ![c] = NewCall("drops", h, "delete", erase)]
    IN  /\ call[c].at = "idle"
        /\ known' = known \ {h}
        /\ stored' = stored \ {h}
        /\ call' = cs
        /\ torn' = torn \cup Overlap(cs, pausing)
        /\ UNCHANGED <<metainfo, network, loaded, lock, activityVars, data,
                       pausing, changes>>

(* releaseUnused goes on with a torrent whose last use may have gone: its  *)
(* title still has other files, or others use it.                          *)
Releases(c, h, erase) ==
  /\ call[c].at = "idle"
  /\ known' \in {known, known \ {h}}
  /\ call' = [call EXCEPT ![c] = NewCall("checks", h, "release", erase)]
  /\ UNCHANGED <<stored, metainfo, network, loaded, lock, activityVars, data,
                 pausing, torn, changes>>

(* A deleted title releases every torrent it ever used, here one by one;   *)
DeleteTitle(c) == \E h \in Torrents, erase \in BOOLEAN : Releases(c, h, erase)
(* an unassigned file, the one it was in, whose data stays.                *)
Unassign(c) == \E h \in known : Releases(c, h, FALSE)

(* TorrentInUse, of releaseUnused and of a background delete: open dry     *)
(* runs, which nothing else here looks at, count too.                      *)
ChecksUse(c) ==
  \E used \in {call[c].torrent \in known, TRUE} :
    LET cs == [call EXCEPT ![c] = IF used THEN Idle
               ELSE [call[c] EXCEPT !.at = "drops", !.erase = @ \/ call[c].why = "background"]]
    IN
      /\ call[c].at = "checks"
      /\ call' = cs
      /\ torn' = torn \cup Overlap(cs, pausing)
      /\ UNCHANGED <<metainfo, network, loaded, lock, activityVars, libraryVars,
                     data, pausing, changes>>

(* forgetPause: the stored pause of a released torrent, which may fail,    *)
Unstores(c) ==
  LET h == call[c].torrent IN
  /\ call[c].at = "unstores"
  /\ call' = [call EXCEPT ![c].at = "unpauses"]
  /\ \/ stored' = stored \ {h} /\ UNCHANGED <<torn, changes>>
     \/ Bounded /\ torn' = torn \cup {h} /\ UNCHANGED stored
  /\ UNCHANGED <<known, metainfo, network, loaded, lock,
                 activityVars, data, pausing>>

(* and the client's.                                                       *)
Unpauses(c) ==
  /\ call[c].at = "unpauses"
  /\ Resume(call[c].torrent)
  /\ call' = [call EXCEPT ![c] = Idle]
  /\ UNCHANGED <<metainfo, loaded, lock, candidates, libraryVars, data, pausing,
                 torn, changes>>

-----------------------------------------------------------------------------
(* Pauses and resumes, one at a time under Service.writes: of one torrent  *)
(* that something knows, of those that run, of all that are paused.        *)

Begins(on, S) ==
  /\ pausing.at = "idle" /\ S # {}
  /\ pausing' = [at |-> "stores", on |-> on, over |-> S, todo |-> S]
  /\ torn' = torn \cup Overlap(call, pausing')
  /\ UNCHANGED <<serviceVars, activityVars, libraryVars, data, changes>>

SetPaused == \E h \in known \cup loaded, on \in BOOLEAN : Begins(on, {h})
PauseAll == \E S \in SUBSET (known \cup loaded) : Begins(TRUE, S)
ResumeAll == Begins(FALSE, paused)

PauseStores ==
  /\ pausing.at = "stores"
  /\ \/ /\ stored' = IF pausing.on THEN stored \cup pausing.over
                                   ELSE stored \ pausing.over
        /\ pausing' = [pausing EXCEPT !.at = "applies"]
        /\ UNCHANGED changes
     \/ Bounded /\ pausing' = NoPausing /\ UNCHANGED stored
  /\ UNCHANGED <<known, serviceVars, activityVars, data, torn>>

PauseApplies ==
  /\ pausing.at = "applies"
  /\ \E h \in pausing.todo :
       /\ IF pausing.on THEN Pause(h) ELSE Resume(h)
       /\ pausing' = IF pausing.todo = {h} THEN NoPausing
                     ELSE [pausing EXCEPT !.todo = @ \ {h}]
  /\ UNCHANGED <<metainfo, loaded, lock, call, candidates, libraryVars, data,
                 torn, changes>>

-----------------------------------------------------------------------------
(* Jobs and assignments come and go beside all this.                       *)
LibraryUses(h) ==
  /\ h \notin known /\ known' = known \cup {h}
  /\ UNCHANGED <<stored, serviceVars, activityVars, data, pausing, torn, changes>>

LibraryLeaves(h) ==
  /\ h \in known /\ known' = known \ {h}
  /\ UNCHANGED <<stored, serviceVars, activityVars, data, pausing, torn, changes>>

(* Peers deliver a piece that an open handle asked for.                    *)
Fetches(h) ==
  /\ network[h] = "on" /\ state[h] # "none"
  /\ \E p \in Pieces \ data[h] : data' = [data EXCEPT ![h] = @ \cup {p}]
  /\ UNCHANGED <<serviceVars, activityVars, libraryVars, pausing, torn, changes>>

BugRestorePauses ==
  stored' = stored \cap known /\ paused' = stored /\ torn' = {}
(* The process ends and starts: a file may be damaged, and the stored      *)
(* pauses of known torrents come back before anything loads, unless they   *)
(* cannot be read.                                                         *)
RestorePauses ==
  \/ /\ stored' = stored \cap known
     /\ paused' = stored'
     /\ torn' = {}
  \/ UNCHANGED stored /\ paused' = {} /\ torn' = Torrents

Restart ==
  /\ Bounded
  /\ RestorePauses
  /\ \E h \in Torrents, f \in {"same", "corrupt"} :
       metainfo' = IF f = "corrupt" /\ metainfo[h] = "stored"
                   THEN [metainfo EXCEPT ![h] = f] ELSE metainfo
  /\ network' = [h \in Torrents |-> "none"]
  /\ loaded' = {}
  /\ lock' = [h \in Torrents |-> Nobody]
  /\ call' = [c \in Callers |-> Idle]
  /\ state' = [h \in Torrents |-> "none"]
  /\ recent' = {}
  /\ candidates' = Nobody
  /\ pausing' = NoPausing
  /\ UNCHANGED <<known, data>>

-----------------------------------------------------------------------------
Init ==
  /\ known = {} /\ stored = {}
  /\ metainfo = [h \in Torrents |-> "none"]
  /\ data = [h \in Torrents |-> {}]
  /\ network = [h \in Torrents |-> "none"]
  /\ loaded = {}
  /\ state = [h \in Torrents |-> "none"]
  /\ recent = {} /\ paused = {}
  /\ candidates = Nobody
  /\ lock = [h \in Torrents |-> Nobody]
  /\ call = [c \in Callers |-> Idle]
  /\ pausing = NoPausing
  /\ torn = {} /\ changes = 0

(* A call that waits for a hash lock, and one that goes on.                *)
Locks(c) ==
  \/ AddLoaded(c) \/ AddStarts(c) \/ AddRefused(c)
  \/ RemoveLoaded(c) \/ RemoveStored(c) \/ RemoveAbsent(c)
Works(c) ==
  \/ AddGetsInfo(c) \/ AddTimesOut(c) \/ AddRegisters(c) \/ AddMaps(c)
  \/ RemoveDrops(c) \/ DeletesPiece(c) \/ RemoveEnds(c)
  \/ ChecksUse(c) \/ Unstores(c) \/ Unpauses(c)
Calls(c) == Add(c) \/ Delete(c) \/ DeleteTitle(c) \/ Unassign(c)

Next ==
  \/ \E c \in Callers : Calls(c) \/ Locks(c) \/ Works(c)
  \/ \E h \in Torrents :
       MarkActive(h) \/ Ages(h) \/ LibraryUses(h) \/ LibraryLeaves(h) \/ Fetches(h)
  \/ IdleCollects \/ IdleApplies
  \/ SetPaused \/ PauseAll \/ ResumeAll \/ PauseStores \/ PauseApplies
  \/ Restart

Spec == Init /\ [][Next]_vars

-----------------------------------------------------------------------------
CallType == [at : {"idle", "joined", "checks"} \cup Adding \cup Removing,
             torrent : Torrents \cup {Nobody},
             why : {"add", "delete", "release", "background"},
             erase : BOOLEAN, left : SUBSET Pieces, failed : SUBSET Pieces, fresh : BOOLEAN]
PausingType == [at : {"idle", "stores", "applies"}, on : BOOLEAN,
                over : SUBSET Torrents, todo : SUBSET Torrents]
(* Calls are well formed, and a pause holds what it is about.              *)
TypeOK ==
  /\ known \subseteq Torrents
  /\ stored \subseteq Torrents /\ paused \subseteq Torrents
  /\ loaded \subseteq Torrents /\ recent \subseteq Torrents /\ torn \subseteq Torrents
  /\ metainfo \in [Torrents -> {"none", "stored", "corrupt"}]
  /\ data \in [Torrents -> SUBSET Pieces]
  /\ network \in [Torrents -> {"none", "on", "off"}]
  /\ state \in [Torrents -> {"none", "active", "idle", "paused"}]
  /\ candidates = Nobody \/ candidates \subseteq Torrents
  /\ lock \in [Torrents -> Callers \cup {Nobody}]
  /\ call \in [Callers -> CallType] /\ pausing \in PausingType
  /\ changes \in 0 .. MaxChanges

(* While nobody holds a torrent's lock, the client, the service's maps and *)
(* the activity manager agree on whether it is there: no failed or timed   *)
(* out load, and no removal that met one, leaves it in one of the three.   *)
NoOrphans ==
  \A h \in Torrents : lock[h] = Nobody =>
    /\ network[h] # "none" <=> h \in loaded
    /\ state[h] # "none" <=> h \in loaded

(* A paused torrent's network is off however its pause, its load, reads    *)
(* and the idle check interleave; one that counts as active has it on.     *)
PausedIsQuiet ==
  \A h \in Torrents : state[h] # "none" =>
    /\ h \in paused <=> state[h] = "paused"
    /\ state[h] = "active" <=> network[h] = "on"

(* The comment on Service.writes: "writes serialises pauses and resumes,   *)
(* so the stored pauses and the client's always end up the same". Once     *)
(* neither a pause nor a removal of the torrent is under way it holds but  *)
(* for what torn names: a removal that overlapped the pause, the removal's *)
(* own write failing, a start that could not read the pauses.              *)
Settled(h) ==
  /\ h \notin pausing.over
  /\ ~\E c \in Callers : call[c].torrent = h /\ call[c].at \in Removing
PausesAgree ==
  \A h \in Torrents \ torn : Settled(h) => (h \in stored <=> h \in paused)

(* The idle check turns off no torrent that was read since its first phase *)
(* looked (checkIdleTorrents' re-check).                                   *)
IdleIsUnread ==
  [][\A h \in recent : state[h] = "active" => state'[h] # "idle"]_vars

(* The metainfo, which alone names the pieces, outlives them: it goes only *)
(* once the last piece was tried. However a removal ends, a crash included *)
(* the torrent is out of the client and both tables. If its metainfo went, *)
(* then of the pieces it was to erase, though peers delivered until the    *)
(* drop, only those are left whose deletion failed and was logged, which   *)
(* the code leaves to the cache's trim ("the torrent is gone either way"); *)
(* and if that failed, or the process crashed, the metainfo is still there *)
(* for another removal.                                                    *)
RemovalLeavesOnlyWhatFailed ==
  [][\A c \in Callers : LET h == call[c].torrent IN
       (call[c].at \in {"unmapped", "deletes"} /\ lock[h] = c) =>
         /\ metainfo'[h] = "none" =>
              metainfo[h] = "none" \/ (call[c].at = "deletes" /\ call[c].left = {})
         /\ call'[c].at \notin {"unmapped", "deletes"} =>
              /\ network'[h] = "none" /\ state'[h] = "none" /\ h \notin loaded'
              /\ changes' = changes =>
                   /\ metainfo'[h] = "none"
                   /\ call[c].erase => data'[h] \subseteq call[c].failed
              /\ changes' # changes => (metainfo'[h] = "none" <=> metainfo[h] = "none")]_vars

(* The lock of a torrent is held by one call that is in the middle of an   *)
(* add or a removal of it, and a call that joined an attempt shares one    *)
(* that is still under way: nobody waits for a call that is gone.          *)
Holding == {"waits", "registers", "maps", "unmapped", "deletes"}
WaitersHaveHolders ==
  /\ \A h \in Torrents, c \in Callers :
       lock[h] = c <=> call[c].torrent = h /\ call[c].at \in Holding
  /\ \A c \in Callers : call[c].at = "joined" =>
       \E d \in Callers : call[d].torrent = call[c].torrent /\ call[d].at \in Adding

=============================================================================
