------------------------ MODULE TorrentServiceProofs ------------------------
(***************************************************************************)
(* What the run of TorrentService checks on one torrent and two callers,   *)
(* proved for any torrents, pieces and callers: the type invariant, that   *)
(* client, maps and activity manager agree on an unlocked torrent, that a  *)
(* paused one is quiet, that no call waits for one that is gone, that the  *)
(* idle check turns off nothing that is read, that a removal leaves only   *)
(* what it failed to delete, and that the stored pauses and the client's   *)
(* agree.                                                                  *)
(*                                                                         *)
(* The argument follows the lock of a hash: Holders says that it is held   *)
(* by the one call in the middle of an add or removal, and Phases what     *)
(* that call has done so far, so that each step that lets go of the lock   *)
(* leaves the three tables agreed; nothing else moves a torrent in or out  *)
(* of them.  Erased adds what a removal has still to delete.  PauseInv, at *)
(* the end, follows a pause and a removal through their two writes each.   *)
(***************************************************************************)
EXTENDS TorrentService, TLAPS

USE TorrentAssumption

\* A call that is somewhere has a torrent, and one that removes came from a removal.
Placed ==
  \A c \in Callers :
    /\ call[c].at # "idle" => call[c].torrent \in Torrents
    /\ call[c].at \in Removing \cup {"checks"} => call[c].why # "add"

\* The two parts of WaitersHaveHolders.
Holders ==
  \A h \in Torrents, c \in Callers :
    lock[h] = c <=> call[c].torrent = h /\ call[c].at \in Holding
Joined ==
  \A c \in Callers : call[c].at = "joined" =>
    \E d \in Callers : call[d].torrent = call[c].torrent /\ call[d].at \in Adding

\* What the holder of a torrent's lock has done of its add or removal.
HalfWay(h, at) ==
  /\ h \notin loaded
  /\ at \in {"waits", "registers"} => network[h] = "on" /\ state[h] = "none"
  /\ at \in {"maps", "unmapped"} => network[h] # "none" /\ state[h] # "none"
  /\ at = "deletes" => network[h] = "none" /\ state[h] = "none"
Phases ==
  \A c \in Callers : call[c].at \in Holding => HalfWay(call[c].torrent, call[c].at)

\* A removal that erases has still to delete all that is on disk, or failed to.
Erased ==
  \A c \in Callers : call[c].erase =>
    /\ call[c].at = "unmapped" => call[c].left = Pieces
    /\ call[c].at = "deletes" => data[call[c].torrent] \subseteq call[c].left \cup call[c].failed

IInv ==
  /\ TypeOK /\ Placed /\ Holders /\ Joined /\ Phases /\ NoOrphans /\ PausedIsQuiet /\ Erased

\* The conjuncts of TypeOK but for the calls', and the calls' own.
RestTyped ==
  /\ known \subseteq Torrents
  /\ stored \subseteq Torrents /\ paused \subseteq Torrents
  /\ loaded \subseteq Torrents /\ recent \subseteq Torrents /\ torn \subseteq Torrents
  /\ metainfo \in [Torrents -> {"none", "stored", "corrupt"}]
  /\ data \in [Torrents -> SUBSET Pieces]
  /\ network \in [Torrents -> {"none", "on", "off"}]
  /\ state \in [Torrents -> {"none", "active", "idle", "paused"}]
  /\ candidates = Nobody \/ candidates \subseteq Torrents
  /\ lock \in [Torrents -> Callers \cup {Nobody}]
  /\ pausing \in PausingType
  /\ changes \in 0 .. MaxChanges
CallsTyped == call \in [Callers -> CallType]

\* What a step does, for IdleIsUnread and RemovalLeavesOnlyWhatFailed.
Unread == \A h \in recent : state[h] = "active" => state'[h] # "idle"
Leaves ==
  \A c \in Callers : LET h == call[c].torrent IN
    (call[c].at \in {"unmapped", "deletes"} /\ lock[h] = c) =>
      /\ metainfo'[h] = "none" =>
           metainfo[h] = "none" \/ (call[c].at = "deletes" /\ call[c].left = {})
      /\ call'[c].at \notin {"unmapped", "deletes"} =>
           /\ network'[h] = "none" /\ state'[h] = "none" /\ h \notin loaded'
           /\ changes' = changes =>
                /\ metainfo'[h] = "none"
                /\ call[c].erase => data'[h] \subseteq call[c].failed
           /\ changes' # changes => (metainfo'[h] = "none" <=> metainfo[h] = "none")

\* What no caller does, and what of it leaves the client alone.
Bookkeeping ==
  \/ \E h \in Torrents : Ages(h) \/ LibraryUses(h) \/ LibraryLeaves(h)
  \/ IdleCollects \/ SetPaused \/ PauseAll \/ ResumeAll \/ PauseStores
Beside ==
  \/ Bookkeeping
  \/ \E h \in Torrents : MarkActive(h) \/ Fetches(h)
  \/ IdleApplies \/ PauseApplies

LEMMA BookkeepingLeaves ==
    Bookkeeping => UNCHANGED <<call, lock, loaded, metainfo, network, state, paused, data>>
BY DEF Bookkeeping, Ages, LibraryUses, LibraryLeaves, IdleCollects, SetPaused, PauseAll,
  ResumeAll, Begins, PauseStores, serviceVars, activityVars

LEMMA BesideTheCalls == Beside => UNCHANGED <<call, lock, loaded, metainfo>>
BY BookkeepingLeaves DEF Beside, MarkActive, Fetches, IdleApplies, PauseApplies, serviceVars

-----------------------------------------------------------------------------
(* Types: of the calls' records, then of all.                              *)

LEMMA NewCallType ==
    ASSUME NEW h \in Torrents, NEW e \in BOOLEAN,
           NEW at \in {"checks", "drops", "adds", "joined"},
           NEW why \in {"add", "delete", "release", "background"}
    PROVE  NewCall(at, h, why, e) \in CallType
BY DEF NewCall, CallType, Adding, Removing

LEMMA IdleType == Idle \in CallType
BY DEF Idle, NewCall, CallType

LEMMA JoinsType ==
    ASSUME NEW h \in Torrents, NEW why \in {"add", "background"}
    PROVE  Joins(h, why) \in CallType
BY NewCallType DEF Joins

LEMMA AfterAddType ==
    ASSUME NEW k \in CallType, NEW ok \in BOOLEAN
    PROVE  AfterAdd(k, ok) \in CallType
BY DEF AfterAdd, Idle, NewCall, CallType, Adding, Removing

LEMMA AfterRemoveType ==
    ASSUME NEW k \in CallType, k.why # "add"
    PROVE  AfterRemove(k) \in CallType
<1>1. k.why \in {"delete", "release", "background"}
  BY DEF CallType
<1>2. CASE k.why = "delete"
  BY <1>2 DEF AfterRemove, CallType, Removing
<1>3. CASE k.why = "release"
  BY <1>3 DEF AfterRemove, CallType, Removing
<1>4. CASE k.why = "background"
  BY <1>4, IdleType DEF AfterRemove
<1> QED BY <1>1, <1>2, <1>3, <1>4

LEMMA ReturnsType ==
    ASSUME call \in [Callers -> CallType], NEW c, NEW ok \in BOOLEAN, Returns(c, ok)
    PROVE  call' \in [Callers -> CallType]
BY AfterAddType DEF Returns

LEMMA CallsStep ==
    ASSUME CallsTyped, RestTyped, Placed, [Next]_vars
    PROVE  CallsTyped'
<1>1. ASSUME NEW c \in Callers, Add(c) PROVE CallsTyped'
  BY <1>1, JoinsType DEF Add, CallsTyped, RestTyped
<1>2. ASSUME NEW c \in Callers, AddLoaded(c) PROVE CallsTyped'
  BY <1>2, ReturnsType DEF AddLoaded, AddRefused, CallsTyped, RestTyped
<1>3. ASSUME NEW c \in Callers, AddStarts(c) PROVE CallsTyped'
  <2>1. \A u \in BOOLEAN : [call[c] EXCEPT !.at = "waits", !.fresh = u] \in CallType
    BY DEF CallsTyped, CallType, Adding
  <2> QED BY <1>3, <2>1 DEF AddStarts, CallsTyped, RestTyped
<1>4. ASSUME NEW c \in Callers, AddRefused(c) PROVE CallsTyped'
  BY <1>4, ReturnsType DEF AddLoaded, AddRefused, CallsTyped, RestTyped
<1>5. ASSUME NEW c \in Callers, AddGetsInfo(c) PROVE CallsTyped'
  <2>1. [call[c] EXCEPT !.at = "registers", !.fresh = FALSE] \in CallType
    BY DEF CallsTyped, CallType, Adding
  <2> QED BY <1>5, <2>1 DEF AddGetsInfo, CallsTyped, RestTyped
<1>6. ASSUME NEW c \in Callers, AddTimesOut(c) PROVE CallsTyped'
  BY <1>6, ReturnsType DEF AddTimesOut, AddMaps, CallsTyped, RestTyped
<1>7. ASSUME NEW c \in Callers, AddRegisters(c) PROVE CallsTyped'
  BY <1>7 DEF AddRegisters, SetNetwork, libraryVars, register, CallsTyped, RestTyped,
    CallType, Adding, Removing
<1>8. ASSUME NEW c \in Callers, AddMaps(c) PROVE CallsTyped'
  BY <1>8, ReturnsType DEF AddTimesOut, AddMaps, CallsTyped, RestTyped
<1>9. ASSUME NEW c \in Callers, RemoveLoaded(c) PROVE CallsTyped'
  <2>1. [call[c] EXCEPT !.at = "unmapped", !.left = ToErase(c)] \in CallType
    BY DEF CallsTyped, CallType, Removing, ToErase
  <2> QED BY <1>9, <2>1 DEF RemoveLoaded, CallsTyped, RestTyped
<1>10. ASSUME NEW c \in Callers, RemoveStored(c) PROVE CallsTyped'
  <2>1. /\ [call[c] EXCEPT !.at = "deletes", !.left = ToErase(c)] \in CallType
        /\ [call[c] EXCEPT !.at = "deletes", !.failed = Pieces] \in CallType
    BY DEF CallsTyped, CallType, Removing, ToErase
  <2>2. \/ call' = [call EXCEPT ![c].at = "deletes", ![c].left = ToErase(c)]
        \/ call' = [call EXCEPT ![c].at = "deletes", ![c].failed = Pieces]
    BY <1>10 DEF RemoveStored
  <2> QED BY <2>1, <2>2 DEF CallsTyped
<1>11. ASSUME NEW c \in Callers, RemoveAbsent(c) PROVE CallsTyped'
  <2>1. call[c] \in CallType /\ call[c].why # "add" /\ call[c].torrent \in Torrents
    BY <1>11 DEF RemoveAbsent, CallsTyped, RestTyped, Placed, Removing
  <2> QED BY <1>11, <2>1, AfterRemoveType, JoinsType DEF RemoveAbsent, CallsTyped, RestTyped
<1>12. ASSUME NEW c \in Callers, RemoveDrops(c) PROVE CallsTyped'
  BY <1>12 DEF RemoveDrops, libraryVars, CallsTyped, CallType, Adding, Removing
<1>13. ASSUME NEW c \in Callers, DeletesPiece(c) PROVE CallsTyped'
  <2>1. PICK p \in call[c].left :
          \/ call' = [call EXCEPT ![c].left = @ \ {p}]
          \/ call' = [call EXCEPT ![c].left = @ \ {p}, ![c].failed = @ \cup {p}]
    BY <1>13 DEF DeletesPiece
  <2>2. /\ [call[c] EXCEPT !.left = @ \ {p}] \in CallType
        /\ [call[c] EXCEPT !.left = @ \ {p}, !.failed = @ \cup {p}] \in CallType
    BY DEF CallsTyped, CallType
  <2> QED BY <2>1, <2>2 DEF CallsTyped
<1>14. ASSUME NEW c \in Callers, RemoveEnds(c) PROVE CallsTyped'
  BY <1>14, AfterRemoveType DEF RemoveEnds, CallsTyped, RestTyped, Placed, Removing
<1>15. ASSUME NEW c \in Callers, Delete(c) PROVE CallsTyped'
  <2>1. loaded \subseteq Torrents /\ known \subseteq Torrents /\ FALSE \in BOOLEAN
    BY DEF CallsTyped, RestTyped
  <2> QED BY <1>15, <2>1, NewCallType DEF Delete, CallsTyped, RestTyped
<1>16. ASSUME NEW c \in Callers, DeleteTitle(c) PROVE CallsTyped'
  <2>1. loaded \subseteq Torrents /\ known \subseteq Torrents /\ FALSE \in BOOLEAN
    BY DEF CallsTyped, RestTyped
  <2> QED BY <1>16, <2>1, NewCallType DEF DeleteTitle, Releases, CallsTyped, RestTyped
<1>17. ASSUME NEW c \in Callers, Unassign(c) PROVE CallsTyped'
  <2>1. \A h \in Torrents : NewCall("checks", h, "release", FALSE) \in CallType
    BY DEF NewCall, CallType
  <2> QED BY <1>17, <2>1 DEF Unassign, Releases, NewCall, CallsTyped, RestTyped
<1>18. ASSUME NEW c \in Callers, ChecksUse(c) PROVE CallsTyped'
  <2>1. call[c] \in CallType
    BY DEF CallsTyped, RestTyped
  <2>2. [call[c] EXCEPT !.at = "drops", !.erase = call[c].erase \/ call[c].why = "background"] \in CallType
    BY <2>1 DEF CallType, Removing
  <2> QED BY <1>18, <2>1, <2>2, IdleType DEF ChecksUse, CallsTyped, RestTyped
<1>19. ASSUME NEW c \in Callers, Unstores(c) PROVE CallsTyped'
  BY <1>19 DEF Unstores, Bounded, activityVars, CallsTyped, CallType, Adding,
    Removing
<1>20. ASSUME NEW c \in Callers, Unpauses(c) PROVE CallsTyped'
  BY <1>20, IdleType DEF Unpauses, CallsTyped, RestTyped
<1>21. CASE Restart
  BY <1>21, IdleType DEF Restart, CallsTyped, RestTyped
<1>22. CASE Beside
  BY <1>22, BesideTheCalls DEF CallsTyped, CallType, Adding, Removing
<1>23. CASE UNCHANGED vars
  BY <1>23 DEF vars, CallsTyped, CallType, Adding, Removing
<1> QED
  BY <1>1, <1>2, <1>3, <1>4, <1>5, <1>6, <1>7, <1>8, <1>9, <1>10, <1>11, <1>12, <1>13,
    <1>14, <1>15, <1>16, <1>17, <1>18, <1>19, <1>20, <1>21, <1>22, <1>23 DEF Next, Calls,
    Locks, Works, Beside, Bookkeeping

\* What a removal that deletes from the stored metainfo changes of its call,
\* and the deletion of one piece.
SameRemoval(k, l) ==
  /\ l \in CallType /\ l.at = "deletes"
  /\ l.torrent = k.torrent /\ l.why = k.why /\ l.erase = k.erase

LEMMA StoredCall ==
    ASSUME CallsTyped, NEW c \in Callers, RemoveStored(c)
    PROVE  /\ call[c].at = "drops"
           /\ call' = [call EXCEPT ![c] = call'[c]]
           /\ \A d \in Callers : d # c => call'[d] = call[d]
           /\ SameRemoval(call[c], call'[c])
           /\ call[c].erase => Pieces \subseteq call'[c].left \cup call'[c].failed
<1> DEFINE tries == [call[c] EXCEPT !.at = "deletes", !.left = ToErase(c)]
           fails == [call[c] EXCEPT !.at = "deletes", !.failed = Pieces]
<1>1. call \in [Callers -> CallType] /\ call[c] \in CallType /\ call[c].at = "drops"
  BY DEF CallsTyped, RemoveStored
<1>2. SameRemoval(call[c], tries) /\ (call[c].erase => Pieces \subseteq tries.left \cup tries.failed)
  BY <1>1 DEF SameRemoval, CallType, Removing, ToErase
<1>3. SameRemoval(call[c], fails) /\ Pieces \subseteq fails.left \cup fails.failed
  BY <1>1 DEF SameRemoval, CallType, Removing
<1>4. CASE call' = [call EXCEPT ![c].at = "deletes", ![c].left = ToErase(c)]
  <2>1. call' = [call EXCEPT ![c] = tries]
    BY <1>1, <1>4
  <2> QED BY <1>1, <1>2, <2>1
<1>5. CASE call' = [call EXCEPT ![c].at = "deletes", ![c].failed = Pieces]
  <2>1. call' = [call EXCEPT ![c] = fails]
    BY <1>1, <1>5
  <2> QED BY <1>1, <1>3, <2>1
<1> QED BY <1>4, <1>5 DEF RemoveStored

LEMMA PieceCall ==
    ASSUME CallsTyped, NEW c \in Callers, DeletesPiece(c)
    PROVE  /\ call[c].at = "deletes"
           /\ call' = [call EXCEPT ![c] = call'[c]]
           /\ \A d \in Callers : d # c => call'[d] = call[d]
           /\ SameRemoval(call[c], call'[c])
<1>1. call \in [Callers -> CallType] /\ call[c] \in CallType /\ call[c].at = "deletes"
  BY DEF CallsTyped, DeletesPiece
<1>2. PICK p \in call[c].left :
        \/ call' = [call EXCEPT ![c].left = @ \ {p}]
        \/ call' = [call EXCEPT ![c].left = @ \ {p}, ![c].failed = @ \cup {p}]
  BY DEF DeletesPiece
<1> DEFINE goes == [call[c] EXCEPT !.left = @ \ {p}]
           stays == [call[c] EXCEPT !.left = @ \ {p}, !.failed = @ \cup {p}]
<1>3. SameRemoval(call[c], goes) /\ SameRemoval(call[c], stays)
  BY <1>1 DEF SameRemoval, CallType
<1>4. CASE call' = [call EXCEPT ![c].left = @ \ {p}]
  <2>1. call' = [call EXCEPT ![c] = goes]
    BY <1>1, <1>4
  <2> QED BY <1>1, <1>3, <2>1
<1>5. CASE call' = [call EXCEPT ![c].left = @ \ {p}, ![c].failed = @ \cup {p}]
  <2>1. call' = [call EXCEPT ![c] = stays]
    BY <1>1, <1>5
  <2> QED BY <1>1, <1>3, <2>1
<1> QED BY <1>2, <1>4, <1>5

LEMMA OverlapType ==
    ASSUME NEW cs, NEW p \in PausingType
    PROVE  Overlap(cs, p) \subseteq Torrents
BY DEF Overlap, PausingType

LEMMA RestStep ==
    ASSUME RestTyped, Placed, [Next]_vars
    PROVE  RestTyped'
<1>1. ASSUME NEW c \in Callers, Add(c) PROVE RestTyped'
  BY <1>1, OverlapType DEF Add, activityVars, libraryVars, RestTyped, PausingType
<1>2. ASSUME NEW c \in Callers, AddLoaded(c) PROVE RestTyped'
  BY <1>2, OverlapType DEF AddLoaded, activityVars, libraryVars, RestTyped, PausingType
<1>3. ASSUME NEW c \in Callers, AddStarts(c) PROVE RestTyped'
  <2>1. call[c].at # "idle" => call[c].torrent \in Torrents
    BY DEF Placed
  <2> QED BY <1>3, <2>1 DEF AddStarts, activityVars, libraryVars, RestTyped
<1>4. ASSUME NEW c \in Callers, AddRefused(c) PROVE RestTyped'
  <2>1. call[c].at # "idle" => call[c].torrent \in Torrents
    BY DEF Placed
  <2> QED BY <1>4, <2>1 DEF AddRefused, Bounded, activityVars, libraryVars, RestTyped
<1>5. ASSUME NEW c \in Callers, AddGetsInfo(c) PROVE RestTyped'
  BY <1>5, OverlapType DEF AddGetsInfo, Bounded, activityVars, libraryVars, RestTyped,
    PausingType
<1>6. ASSUME NEW c \in Callers, AddTimesOut(c) PROVE RestTyped'
  BY <1>6, OverlapType DEF AddTimesOut, activityVars, libraryVars, RestTyped, PausingType
<1>7. ASSUME NEW c \in Callers, AddRegisters(c) PROVE RestTyped'
  <2>1. call[c].at # "idle" => call[c].torrent \in Torrents
    BY DEF Placed
  <2>2. \E s \in {"paused", "idle", "active"} :
         state' = [state EXCEPT ![call[c].torrent] = s]
    BY <1>7 DEF AddRegisters, SetNetwork, register
  <2>3. network' = [network EXCEPT ![call[c].torrent] = "off"] \/ network' = network
    BY <1>7, <2>1 DEF AddRegisters, SetNetwork, register, RestTyped
  <2>4. recent' = recent \/ recent' = recent \cup {call[c].torrent}
    BY <1>7 DEF AddRegisters, register
  <2>5. UNCHANGED <<known, stored, paused, loaded, torn, metainfo, data, candidates,
                    lock, pausing, changes>>
    BY <1>7 DEF AddRegisters, libraryVars
  <2>6. call[c].at # "idle"
    BY <1>7 DEF AddRegisters
  <2> QED BY <2>1, <2>2, <2>3, <2>4, <2>5, <2>6 DEF RestTyped
<1>8. ASSUME NEW c \in Callers, AddMaps(c) PROVE RestTyped'
  <2>1. call[c].at # "idle" => call[c].torrent \in Torrents
    BY DEF Placed
  <2> QED BY <1>8, <2>1 DEF AddMaps, activityVars, libraryVars, RestTyped
<1>9. ASSUME NEW c \in Callers, RemoveLoaded(c) PROVE RestTyped'
  BY <1>9, OverlapType DEF RemoveLoaded, ToErase, activityVars, libraryVars, RestTyped,
    PausingType
<1>10. ASSUME NEW c \in Callers, RemoveStored(c) PROVE RestTyped'
  <2>1. lock' = [lock EXCEPT ![call[c].torrent] = c] /\ changes' \in 0 .. MaxChanges
    BY <1>10 DEF RemoveStored, Bounded, RestTyped
  <2>2. UNCHANGED <<known, stored, paused, loaded, recent, torn, metainfo, data, network,
                    state, candidates, pausing>>
    BY <1>10 DEF RemoveStored, activityVars, libraryVars
  <2> QED BY <2>1, <2>2 DEF RestTyped
<1>11. ASSUME NEW c \in Callers, RemoveAbsent(c) PROVE RestTyped'
  BY <1>11, OverlapType DEF RemoveAbsent, activityVars, libraryVars, RestTyped, PausingType
<1>12. ASSUME NEW c \in Callers, RemoveDrops(c) PROVE RestTyped'
  BY <1>12, OverlapType DEF RemoveDrops, libraryVars, RestTyped, PausingType
<1>13. ASSUME NEW c \in Callers, DeletesPiece(c) PROVE RestTyped'
  <2>1. call[c].at # "idle" => call[c].torrent \in Torrents
    BY DEF Placed
  <2> QED BY <1>13, <2>1 DEF DeletesPiece, Bounded, activityVars, libraryVars, RestTyped
<1>14. ASSUME NEW c \in Callers, RemoveEnds(c) PROVE RestTyped'
  <2>1. call[c].at # "idle" => call[c].torrent \in Torrents
    BY DEF Placed
  <2> QED BY <1>14, <2>1 DEF RemoveEnds, Bounded, activityVars, libraryVars, RestTyped
<1>15. ASSUME NEW c \in Callers, Delete(c) PROVE RestTyped'
  BY <1>15, OverlapType DEF Delete, activityVars, RestTyped, PausingType
<1>16. ASSUME NEW c \in Callers, DeleteTitle(c) PROVE RestTyped'
  <2>1. known' \subseteq Torrents
    BY <1>16 DEF DeleteTitle, Releases, RestTyped
  <2> QED BY <1>16, <2>1 DEF DeleteTitle, Releases, activityVars, RestTyped
<1>17. ASSUME NEW c \in Callers, Unassign(c) PROVE RestTyped'
  BY <1>17, OverlapType DEF Unassign, Releases, activityVars, RestTyped, PausingType
<1>18. ASSUME NEW c \in Callers, ChecksUse(c) PROVE RestTyped'
  BY <1>18, OverlapType DEF ChecksUse, activityVars, libraryVars, RestTyped, PausingType
<1>19. ASSUME NEW c \in Callers, Unstores(c) PROVE RestTyped'
  <2>1. call[c].at # "idle" => call[c].torrent \in Torrents
    BY DEF Placed
  <2> QED BY <1>19, <2>1 DEF Unstores, Bounded, activityVars, RestTyped
<1>20. ASSUME NEW c \in Callers, Unpauses(c) PROVE RestTyped'
  BY <1>20, OverlapType DEF Unpauses, Resume, SetNetwork, libraryVars, RestTyped, PausingType
<1>21. ASSUME NEW h \in Torrents, MarkActive(h) PROVE RestTyped'
  BY <1>21, OverlapType DEF MarkActive, SetNetwork, libraryVars, RestTyped, PausingType
<1>22. ASSUME NEW h \in Torrents, Ages(h) PROVE RestTyped'
  BY <1>22, OverlapType DEF Ages, libraryVars, serviceVars, RestTyped, PausingType
<1>23. ASSUME NEW h \in Torrents, LibraryUses(h) PROVE RestTyped'
  BY <1>23, OverlapType DEF LibraryUses, activityVars, serviceVars, RestTyped, PausingType
<1>24. ASSUME NEW h \in Torrents, LibraryLeaves(h) PROVE RestTyped'
  BY <1>24, OverlapType DEF LibraryLeaves, activityVars, serviceVars, RestTyped, PausingType
<1>25. ASSUME NEW h \in Torrents, Fetches(h) PROVE RestTyped'
  BY <1>25, OverlapType DEF Fetches, activityVars, libraryVars, serviceVars, RestTyped,
    PausingType
<1>26. CASE IdleCollects
  BY <1>26, OverlapType DEF IdleCollects, libraryVars, serviceVars, RestTyped, PausingType
<1>27. CASE IdleApplies
  BY <1>27, OverlapType DEF IdleApplies, GoesIdle, libraryVars, RestTyped, PausingType
<1>28. CASE SetPaused
  BY <1>28, OverlapType DEF SetPaused, Begins, activityVars, libraryVars, serviceVars, RestTyped,
    PausingType
<1>29. CASE PauseAll
  <2>1. PICK S \in SUBSET (known \cup loaded) : Begins(TRUE, S)
    BY <1>29 DEF PauseAll
  <2>2. S \subseteq Torrents
    BY DEF RestTyped
  <2>3. pausing' \in PausingType
    BY <2>1, <2>2 DEF Begins, PausingType
  <2> QED BY <2>1, <2>3, OverlapType DEF Begins, activityVars, libraryVars, serviceVars, RestTyped
<1>30. CASE ResumeAll
  BY <1>30, OverlapType DEF ResumeAll, Begins, activityVars, libraryVars, serviceVars, RestTyped,
    PausingType
<1>31. CASE PauseStores
  <2>0. [pausing EXCEPT !.at = "applies"] \in PausingType /\ NoPausing \in PausingType
    BY DEF NoPausing, PausingType, RestTyped
  <2>1. pausing' \in PausingType
    BY <1>31, <2>0 DEF PauseStores
  <2>2. pausing.over \subseteq Torrents
    BY DEF PausingType, RestTyped
  <2> QED BY <1>31, <2>1, <2>2 DEF PauseStores, Bounded, activityVars, serviceVars, RestTyped
<1>32. CASE PauseApplies
  BY <1>32, OverlapType DEF PauseApplies, NoPausing, Pause, Resume, SetNetwork, libraryVars,
    RestTyped, PausingType
<1>33. CASE Restart
  BY <1>33, OverlapType DEF Restart, Bounded, NoPausing, RestorePauses, RestTyped, PausingType
<1>34. CASE UNCHANGED vars
  BY <1>34 DEF vars, RestTyped, PausingType
<1> QED
  BY <1>1, <1>2, <1>3, <1>4, <1>5, <1>6, <1>7, <1>8, <1>9, <1>10, <1>11, <1>12, <1>13,
    <1>14, <1>15, <1>16, <1>17, <1>18, <1>19, <1>20, <1>21, <1>22, <1>23, <1>24, <1>25,
    <1>26, <1>27, <1>28, <1>29, <1>30, <1>31, <1>32, <1>33, <1>34 DEF Next, Calls, Locks,
    Works

LEMMA TypedParts == TypeOK <=> CallsTyped /\ RestTyped
BY DEF TypeOK, CallsTyped, RestTyped

-----------------------------------------------------------------------------
(* The invariant's other parts, one step for each action.                  *)

LEMMA PlacedStep ==
    ASSUME TypeOK, Placed, [Next]_vars
    PROVE  Placed'
<1>1. ASSUME NEW c \in Callers, Add(c) PROVE Placed'
  BY <1>1 DEF Add, Adding, Joins, NewCall, activityVars, libraryVars, Placed, TypeOK,
    CallType, Removing
<1>2. ASSUME NEW c \in Callers, AddLoaded(c) PROVE Placed'
  BY <1>2 DEF AddLoaded, AfterAdd, Idle, NewCall, Returns, Sharing, activityVars,
    libraryVars, Placed, TypeOK, CallType, Adding, Removing
<1>3. ASSUME NEW c \in Callers, AddStarts(c) PROVE Placed'
  BY <1>3 DEF AddStarts, activityVars, libraryVars, Placed, TypeOK, CallType, Adding,
    Removing
<1>4. ASSUME NEW c \in Callers, AddRefused(c) PROVE Placed'
  BY <1>4 DEF AddRefused, AfterAdd, Bounded, Idle, NewCall, Returns, Sharing, activityVars,
    libraryVars, Placed, TypeOK, CallType, Adding, Removing
<1>5. ASSUME NEW c \in Callers, AddGetsInfo(c) PROVE Placed'
  BY <1>5 DEF AddGetsInfo, Bounded, activityVars, libraryVars, Placed, TypeOK, CallType,
    Adding, Removing
<1>6. ASSUME NEW c \in Callers, AddTimesOut(c) PROVE Placed'
  BY <1>6 DEF AddTimesOut, AfterAdd, Idle, NewCall, Returns, Sharing, activityVars,
    libraryVars, Placed, TypeOK, CallType, Adding, Removing
<1>7. ASSUME NEW c \in Callers, AddRegisters(c) PROVE Placed'
  BY <1>7 DEF AddRegisters, SetNetwork, libraryVars, register, Placed, TypeOK, CallType,
    Adding, Removing
<1>8. ASSUME NEW c \in Callers, AddMaps(c) PROVE Placed'
  BY <1>8 DEF AddMaps, AfterAdd, Idle, NewCall, Returns, Sharing, activityVars, libraryVars,
    Placed, TypeOK, CallType, Adding, Removing
<1>9. ASSUME NEW c \in Callers, RemoveLoaded(c) PROVE Placed'
  BY <1>9 DEF RemoveLoaded, activityVars, libraryVars, Placed, TypeOK, CallType, Adding,
    Removing
<1>10. ASSUME NEW c \in Callers, RemoveStored(c) PROVE Placed'
  BY <1>10, TypedParts, StoredCall DEF SameRemoval, Placed, Removing
<1>11. ASSUME NEW c \in Callers, RemoveAbsent(c) PROVE Placed'
  BY <1>11 DEF RemoveAbsent, Adding, AfterRemove, Idle, Joins, NewCall, activityVars,
    libraryVars, Placed, TypeOK, CallType, Removing
<1>12. ASSUME NEW c \in Callers, RemoveDrops(c) PROVE Placed'
  BY <1>12 DEF RemoveDrops, libraryVars, Placed, TypeOK, CallType, Adding, Removing
<1>13. ASSUME NEW c \in Callers, DeletesPiece(c) PROVE Placed'
  BY <1>13, TypedParts, PieceCall DEF SameRemoval, Placed, Removing
<1>14. ASSUME NEW c \in Callers, RemoveEnds(c) PROVE Placed'
  BY <1>14 DEF RemoveEnds, AfterRemove, Bounded, Idle, NewCall, activityVars, libraryVars, Placed,
    TypeOK, CallType, Adding, Removing
<1>15. ASSUME NEW c \in Callers, Delete(c) PROVE Placed'
  BY <1>15 DEF Delete, NewCall, activityVars, Placed, TypeOK, CallType, Adding, Removing
<1>16. ASSUME NEW c \in Callers, DeleteTitle(c) PROVE Placed'
  BY <1>16 DEF DeleteTitle, NewCall, Releases, activityVars, Placed, TypeOK, CallType,
    Adding, Removing
<1>17. ASSUME NEW c \in Callers, Unassign(c) PROVE Placed'
  BY <1>17 DEF Unassign, NewCall, Releases, activityVars, Placed, TypeOK, CallType, Adding,
    Removing
<1>18. ASSUME NEW c \in Callers, ChecksUse(c) PROVE Placed'
  BY <1>18 DEF ChecksUse, Idle, NewCall, activityVars, libraryVars, Placed, TypeOK,
    CallType, Adding, Removing
<1>19. ASSUME NEW c \in Callers, Unstores(c) PROVE Placed'
  BY <1>19 DEF Unstores, Bounded, activityVars, Placed, TypeOK, CallType, Adding, Removing
<1>20. ASSUME NEW c \in Callers, Unpauses(c) PROVE Placed'
  BY <1>20 DEF Unpauses, Idle, NewCall, Resume, SetNetwork, libraryVars, Placed, TypeOK,
    CallType, Adding, Removing
<1>21. CASE Restart
  BY <1>21 DEF Restart, Bounded, Idle, NewCall, NoPausing, RestorePauses, Placed, TypeOK,
    CallType, Adding, Removing
<1>22. CASE Beside
  BY <1>22, BesideTheCalls DEF Placed, TypeOK, CallType, Adding, Removing
<1>23. CASE UNCHANGED vars
  BY <1>23 DEF vars, Placed, TypeOK, CallType, Adding, Removing
<1> QED
  BY <1>1, <1>2, <1>3, <1>4, <1>5, <1>6, <1>7, <1>8, <1>9, <1>10, <1>11, <1>12, <1>13,
    <1>14, <1>15, <1>16, <1>17, <1>18, <1>19, <1>20, <1>21, <1>22, <1>23 DEF Next, Calls,
    Locks, Works, Beside, Bookkeeping

LEMMA HoldersStep ==
    ASSUME TypeOK, Placed, Holders, [Next]_vars
    PROVE  Holders'
<1>1. ASSUME NEW c \in Callers, Add(c) PROVE Holders'
  BY <1>1 DEF Add, Adding, Joins, NewCall, activityVars, libraryVars, Placed, Holders,
    Holding, TypeOK, CallType, Removing
<1>2. ASSUME NEW c \in Callers, AddLoaded(c) PROVE Holders'
  BY <1>2 DEF AddLoaded, AfterAdd, Idle, NewCall, Returns, Sharing, activityVars,
    libraryVars, Placed, Holders, Holding, TypeOK, CallType, Adding, Removing
<1>3. ASSUME NEW c \in Callers, AddStarts(c) PROVE Holders'
  BY <1>3 DEF AddStarts, activityVars, libraryVars, Placed, Holders, Holding, TypeOK,
    CallType, Adding, Removing
<1>4. ASSUME NEW c \in Callers, AddRefused(c) PROVE Holders'
  BY <1>4 DEF AddRefused, AfterAdd, Bounded, Idle, NewCall, Returns, Sharing, activityVars,
    libraryVars, Placed, Holders, Holding, TypeOK, CallType, Adding, Removing
<1>5. ASSUME NEW c \in Callers, AddGetsInfo(c) PROVE Holders'
  BY <1>5 DEF AddGetsInfo, Bounded, activityVars, libraryVars, Placed, Holders, Holding,
    TypeOK, CallType, Adding, Removing
<1>6. ASSUME NEW c \in Callers, AddTimesOut(c) PROVE Holders'
  BY <1>6 DEF AddTimesOut, AfterAdd, Idle, NewCall, Returns, Sharing, activityVars,
    libraryVars, Placed, Holders, Holding, TypeOK, CallType, Adding, Removing
<1>7. ASSUME NEW c \in Callers, AddRegisters(c) PROVE Holders'
  BY <1>7 DEF AddRegisters, SetNetwork, libraryVars, register, Placed, Holders, Holding,
    TypeOK, CallType, Adding, Removing
<1>8. ASSUME NEW c \in Callers, AddMaps(c) PROVE Holders'
  BY <1>8 DEF AddMaps, AfterAdd, Idle, NewCall, Returns, Sharing, activityVars, libraryVars,
    Placed, Holders, Holding, TypeOK, CallType, Adding, Removing
<1>9. ASSUME NEW c \in Callers, RemoveLoaded(c) PROVE Holders'
  BY <1>9 DEF RemoveLoaded, activityVars, libraryVars, Placed, Holders, Holding, TypeOK,
    CallType, Adding, Removing
<1>10. ASSUME NEW c \in Callers, RemoveStored(c) PROVE Holders'
  BY <1>10 DEF RemoveStored, Bounded, activityVars, libraryVars, Placed, Holders, Holding, TypeOK,
    CallType, Adding, Removing
<1>11. ASSUME NEW c \in Callers, RemoveAbsent(c) PROVE Holders'
  BY <1>11 DEF RemoveAbsent, Adding, AfterRemove, Idle, Joins, NewCall, activityVars,
    libraryVars, Placed, Holders, Holding, TypeOK, CallType, Removing
<1>12. ASSUME NEW c \in Callers, RemoveDrops(c) PROVE Holders'
  BY <1>12 DEF RemoveDrops, libraryVars, Placed, Holders, Holding, TypeOK, CallType, Adding,
    Removing
<1>13. ASSUME NEW c \in Callers, DeletesPiece(c) PROVE Holders'
  BY <1>13 DEF DeletesPiece, Bounded, activityVars, libraryVars, Placed, Holders, Holding, TypeOK,
    CallType, Adding, Removing
<1>14. ASSUME NEW c \in Callers, RemoveEnds(c) PROVE Holders'
  BY <1>14 DEF RemoveEnds, AfterRemove, Bounded, Idle, NewCall, activityVars, libraryVars, Placed,
    Holders, Holding, TypeOK, CallType, Adding, Removing
<1>15. ASSUME NEW c \in Callers, Delete(c) PROVE Holders'
  BY <1>15 DEF Delete, NewCall, activityVars, Placed, Holders, Holding, TypeOK, CallType,
    Adding, Removing
<1>16. ASSUME NEW c \in Callers, DeleteTitle(c) PROVE Holders'
  BY <1>16 DEF DeleteTitle, NewCall, Releases, activityVars, Placed, Holders, Holding,
    TypeOK, CallType, Adding, Removing
<1>17. ASSUME NEW c \in Callers, Unassign(c) PROVE Holders'
  BY <1>17 DEF Unassign, NewCall, Releases, activityVars, Placed, Holders, Holding, TypeOK,
    CallType, Adding, Removing
<1>18. ASSUME NEW c \in Callers, ChecksUse(c) PROVE Holders'
  BY <1>18 DEF ChecksUse, Idle, NewCall, activityVars, libraryVars, Placed, Holders,
    Holding, TypeOK, CallType, Adding, Removing
<1>19. ASSUME NEW c \in Callers, Unstores(c) PROVE Holders'
  BY <1>19 DEF Unstores, Bounded, activityVars, Placed, Holders, Holding, TypeOK, CallType,
    Adding, Removing
<1>20. ASSUME NEW c \in Callers, Unpauses(c) PROVE Holders'
  BY <1>20 DEF Unpauses, Idle, NewCall, Resume, SetNetwork, libraryVars, Placed, Holders,
    Holding, TypeOK, CallType, Adding, Removing
<1>21. CASE Restart
  BY <1>21 DEF Restart, Bounded, Idle, NewCall, NoPausing, RestorePauses, Placed, Holders,
    Holding, TypeOK, CallType, Adding, Removing
<1>22. CASE Beside
  BY <1>22, BesideTheCalls DEF Placed, Holders, Holding, TypeOK, CallType, Adding, Removing
<1>23. CASE UNCHANGED vars
  BY <1>23 DEF vars, Placed, Holders, Holding, TypeOK, CallType, Adding, Removing
<1> QED
  BY <1>1, <1>2, <1>3, <1>4, <1>5, <1>6, <1>7, <1>8, <1>9, <1>10, <1>11, <1>12, <1>13,
    <1>14, <1>15, <1>16, <1>17, <1>18, <1>19, <1>20, <1>21, <1>22, <1>23 DEF Next, Calls,
    Locks, Works, Beside, Bookkeeping

LEMMA AfterRemoveAt ==
    ASSUME NEW k \in CallType, k.why # "add"
    PROVE  AfterRemove(k).at \in {"idle", "unstores", "unpauses"} /\ AfterRemove(k).at \notin {"joined"} \cup Adding
<1>1. k.why \in {"delete", "release", "background"}
  BY DEF CallType
<1>2. CASE k.why = "delete"
  BY <1>2 DEF AfterRemove, CallType, Adding
<1>3. CASE k.why = "release"
  BY <1>3 DEF AfterRemove, CallType, Adding
<1>4. CASE k.why = "background"
  BY <1>4 DEF AfterRemove, Idle, NewCall, Adding
<1> QED BY <1>1, <1>2, <1>3, <1>4

LEMMA JoinedStep ==
    ASSUME TypeOK, Placed, Joined, [Next]_vars
    PROVE  Joined'
<1>1. ASSUME NEW c \in Callers, Add(c) PROVE Joined'
  BY <1>1 DEF Add, Adding, Joins, NewCall, activityVars, libraryVars, Placed, Joined,
    TypeOK, CallType, Removing
<1>2. ASSUME NEW c \in Callers, AddLoaded(c) PROVE Joined'
  BY <1>2 DEF AddLoaded, AfterAdd, Idle, NewCall, Returns, Sharing, activityVars,
    libraryVars, Placed, Joined, TypeOK, CallType, Adding, Removing
<1>3. ASSUME NEW c \in Callers, AddStarts(c) PROVE Joined'
  BY <1>3 DEF AddStarts, activityVars, libraryVars, Placed, Joined, TypeOK, CallType,
    Adding, Removing
<1>4. ASSUME NEW c \in Callers, AddRefused(c) PROVE Joined'
  BY <1>4 DEF AddRefused, AfterAdd, Bounded, Idle, NewCall, Returns, Sharing, activityVars,
    libraryVars, Placed, Joined, TypeOK, CallType, Adding, Removing
<1>5. ASSUME NEW c \in Callers, AddGetsInfo(c) PROVE Joined'
  BY <1>5 DEF AddGetsInfo, Bounded, activityVars, libraryVars, Placed, Joined, TypeOK,
    CallType, Adding, Removing
<1>6. ASSUME NEW c \in Callers, AddTimesOut(c) PROVE Joined'
  BY <1>6 DEF AddTimesOut, AfterAdd, Idle, NewCall, Returns, Sharing, activityVars,
    libraryVars, Placed, Joined, TypeOK, CallType, Adding, Removing
<1>7. ASSUME NEW c \in Callers, AddRegisters(c) PROVE Joined'
  BY <1>7 DEF AddRegisters, SetNetwork, libraryVars, register, Placed, Joined, TypeOK,
    CallType, Adding, Removing
<1>8. ASSUME NEW c \in Callers, AddMaps(c) PROVE Joined'
  BY <1>8 DEF AddMaps, AfterAdd, Idle, NewCall, Returns, Sharing, activityVars, libraryVars,
    Placed, Joined, TypeOK, CallType, Adding, Removing
<1>9. ASSUME NEW c \in Callers, RemoveLoaded(c) PROVE Joined'
  <2>1. call'[c].at = "unmapped" /\ call[c].at = "drops"
    BY <1>9 DEF RemoveLoaded, TypeOK, CallType
  <2>2. \A d \in Callers : d # c => call'[d] = call[d]
    BY <1>9 DEF RemoveLoaded, TypeOK
  <2> QED BY <2>1, <2>2 DEF Joined, Adding
<1>10. ASSUME NEW c \in Callers, RemoveStored(c) PROVE Joined'
  BY <1>10, TypedParts, StoredCall DEF SameRemoval, Joined, Adding
<1>11. ASSUME NEW c \in Callers, RemoveAbsent(c) PROVE Joined'
  <2>1. call[c].at = "drops" /\ call[c].torrent \in Torrents /\ call[c] \in CallType /\ call[c].why # "add"
    BY <1>11 DEF RemoveAbsent, Placed, TypeOK, Removing
  <2>2. AfterRemove(call[c]).at \notin {"joined"} \cup Adding
    BY <2>1, AfterRemoveAt
  <2>3. CASE call' = [call EXCEPT ![c] = AfterRemove(@)]
    BY <2>1, <2>2, <2>3 DEF Joined, Adding, TypeOK
  <2>4. CASE \E d \in Callers : call[d].at = "idle" /\ call' = [call EXCEPT ![c] = AfterRemove(@), ![d] = Joins(call[c].torrent, "background")]
    <3>1. PICK d \in Callers : call[d].at = "idle" /\ call' = [call EXCEPT ![c] = AfterRemove(@), ![d] = Joins(call[c].torrent, "background")]
      BY <2>4
    <3> DEFINE new == Joins(call[c].torrent, "background")
    <3>2. /\ new.torrent = call[c].torrent
          /\ \/ new.at = "adds"
             \/ new.at = "joined" /\ \E e \in Callers : call[e].torrent = call[c].torrent /\ call[e].at \in Adding
      <4>1. CASE \E e \in Callers : call[e].torrent = call[c].torrent /\ call[e].at \in Adding
        BY <4>1 DEF Joins, NewCall
      <4>2. CASE ~\E e \in Callers : call[e].torrent = call[c].torrent /\ call[e].at \in Adding
        BY <4>2 DEF Joins, NewCall
      <4> QED BY <4>1, <4>2
    <3>3. /\ call'[d] = new /\ call'[c].at \notin {"joined"} \cup Adding
          /\ \A e \in Callers \ {c, d} : call'[e] = call[e]
      BY <3>1, <2>1, <2>2 DEF TypeOK
    <3> HIDE DEF new
    <3>4. call[c].at \notin {"joined"} \cup Adding /\ call[d].at \notin {"joined"} \cup Adding
      BY <2>1, <3>1 DEF Adding
    <3>5. \A w \in Callers : call[w].at \in Adding => call'[w] = call[w]
      BY <3>3, <3>4
    <3>6. ASSUME NEW e \in Callers, call'[e].at = "joined"
          PROVE  \E w \in Callers : call'[w].torrent = call'[e].torrent /\ call'[w].at \in Adding
      <4>1. CASE e = d
        BY <4>1, <3>1, <3>2, <3>3, <3>5, <3>6
      <4>2. CASE e # d
        <5>1. e # c /\ call'[e] = call[e]
          BY <4>2, <3>3, <3>6
        <5>2. PICK w \in Callers : call[w].torrent = call[e].torrent /\ call[w].at \in Adding
          BY <5>1, <3>6 DEF Joined
        <5> QED BY <5>1, <5>2, <3>5
      <4> QED BY <4>1, <4>2
    <3> QED BY <3>6 DEF Joined, Adding
  <2> QED BY <1>11, <2>3, <2>4 DEF RemoveAbsent
<1>12. ASSUME NEW c \in Callers, RemoveDrops(c) PROVE Joined'
  BY <1>12 DEF RemoveDrops, libraryVars, Placed, Joined, TypeOK, CallType, Adding, Removing
<1>13. ASSUME NEW c \in Callers, DeletesPiece(c) PROVE Joined'
  BY <1>13 DEF DeletesPiece, Bounded, activityVars, libraryVars, Placed, Joined, TypeOK, CallType,
    Adding, Removing
<1>14. ASSUME NEW c \in Callers, RemoveEnds(c) PROVE Joined'
  BY <1>14 DEF RemoveEnds, AfterRemove, Bounded, Idle, NewCall, activityVars, libraryVars, Placed,
    Joined, TypeOK, CallType, Adding, Removing
<1>15. ASSUME NEW c \in Callers, Delete(c) PROVE Joined'
  BY <1>15 DEF Delete, NewCall, activityVars, Placed, Joined, TypeOK, CallType, Adding,
    Removing
<1>16. ASSUME NEW c \in Callers, DeleteTitle(c) PROVE Joined'
  BY <1>16 DEF DeleteTitle, NewCall, Releases, activityVars, Placed, Joined, TypeOK,
    CallType, Adding, Removing
<1>17. ASSUME NEW c \in Callers, Unassign(c) PROVE Joined'
  BY <1>17 DEF Unassign, NewCall, Releases, activityVars, Placed, Joined, TypeOK, CallType,
    Adding, Removing
<1>18. ASSUME NEW c \in Callers, ChecksUse(c) PROVE Joined'
  <2>1. \A d \in Callers \ {c} : call'[d] = call[d]
    BY <1>18 DEF ChecksUse, TypeOK
  <2>2. call[c].at = "checks" /\ call'[c].at \in {"idle", "drops"}
    BY <1>18 DEF ChecksUse, Idle, NewCall, TypeOK, CallType, Removing
  <2> SUFFICES ASSUME NEW d \in Callers, call'[d].at = "joined"
               PROVE  \E e \in Callers : call'[e].torrent = call'[d].torrent /\ call'[e].at \in Adding
    BY DEF Joined
  <2>3. call'[d] = call[d]
    BY <2>1, <2>2
  <2>4. PICK e \in Callers : call[e].torrent = call[d].torrent /\ call[e].at \in Adding
    BY <2>3 DEF Joined
  <2>5. call'[e] = call[e]
    BY <2>1, <2>2, <2>4 DEF Adding
  <2> QED BY <2>3, <2>4, <2>5
<1>19. ASSUME NEW c \in Callers, Unstores(c) PROVE Joined'
  BY <1>19 DEF Unstores, Bounded, activityVars, Placed, Joined, TypeOK, CallType, Adding,
    Removing
<1>20. ASSUME NEW c \in Callers, Unpauses(c) PROVE Joined'
  BY <1>20 DEF Unpauses, Idle, NewCall, Resume, SetNetwork, libraryVars, Placed, Joined,
    TypeOK, CallType, Adding, Removing
<1>21. CASE Restart
  BY <1>21 DEF Restart, Bounded, Idle, NewCall, NoPausing, RestorePauses, Placed, Joined,
    TypeOK, CallType, Adding, Removing
<1>22. CASE Beside
  BY <1>22, BesideTheCalls DEF Placed, Joined, TypeOK, CallType, Adding, Removing
<1>23. CASE UNCHANGED vars
  BY <1>23 DEF vars, Placed, Joined, TypeOK, CallType, Adding, Removing
<1> QED
  BY <1>1, <1>2, <1>3, <1>4, <1>5, <1>6, <1>7, <1>8, <1>9, <1>10, <1>11, <1>12, <1>13,
    <1>14, <1>15, <1>16, <1>17, <1>18, <1>19, <1>20, <1>21, <1>22, <1>23 DEF Next, Calls,
    Locks, Works, Beside, Bookkeeping

LEMMA PhasesStep ==
    ASSUME TypeOK, Placed, Holders, Phases, NoOrphans, PausedIsQuiet, [Next]_vars
    PROVE  Phases'
<1>1. ASSUME NEW c \in Callers, Add(c) PROVE Phases'
  BY <1>1 DEF Add, Adding, Joins, NewCall, activityVars, libraryVars, Placed, Holders,
    Phases, HalfWay, NoOrphans, PausedIsQuiet, Holding, TypeOK, CallType, Removing
<1>2. ASSUME NEW c \in Callers, AddLoaded(c) PROVE Phases'
  BY <1>2 DEF AddLoaded, AfterAdd, Idle, NewCall, Returns, Sharing, activityVars,
    libraryVars, Placed, Holders, Phases, HalfWay, NoOrphans, PausedIsQuiet, Holding,
    TypeOK, CallType, Adding, Removing
<1>3. ASSUME NEW c \in Callers, AddStarts(c) PROVE Phases'
  BY <1>3 DEF AddStarts, activityVars, libraryVars, Placed, Holders, Phases, HalfWay,
    NoOrphans, PausedIsQuiet, Holding, TypeOK, CallType, Adding, Removing
<1>4. ASSUME NEW c \in Callers, AddRefused(c) PROVE Phases'
  BY <1>4 DEF AddRefused, AfterAdd, Bounded, Idle, NewCall, Returns, Sharing, activityVars,
    libraryVars, Placed, Holders, Phases, HalfWay, NoOrphans, PausedIsQuiet, Holding,
    TypeOK, CallType, Adding, Removing
<1>5. ASSUME NEW c \in Callers, AddGetsInfo(c) PROVE Phases'
  BY <1>5 DEF AddGetsInfo, Bounded, activityVars, libraryVars, Placed, Holders, Phases,
    HalfWay, NoOrphans, PausedIsQuiet, Holding, TypeOK, CallType, Adding, Removing
<1>6. ASSUME NEW c \in Callers, AddTimesOut(c) PROVE Phases'
  BY <1>6 DEF AddTimesOut, AfterAdd, Idle, NewCall, Returns, Sharing, activityVars,
    libraryVars, Placed, Holders, Phases, HalfWay, NoOrphans, PausedIsQuiet, Holding,
    TypeOK, CallType, Adding, Removing
<1>7. ASSUME NEW c \in Callers, AddRegisters(c) PROVE Phases'
  <2>1. /\ call[c].torrent \in Torrents /\ lock[call[c].torrent] = c
        /\ HalfWay(call[c].torrent, "registers")
    BY <1>7 DEF AddRegisters, Placed, Holders, Phases, Holding
  <2>2. \E s \in {"active", "idle", "paused"}, n \in {"on", "off"} :
          /\ SetNetwork(call[c].torrent, s, n)
          /\ s = "paused" <=> call[c].torrent \in paused
          /\ s = "active" <=> n = "on"
    BY <1>7, <2>1 DEF AddRegisters, register, HalfWay
  <2>3. call' = [call EXCEPT ![c].at = "maps"] /\ UNCHANGED <<loaded, lock, paused>>
    BY <1>7 DEF AddRegisters
  <2> QED BY <2>1, <2>2, <2>3, <1>7 DEF SetNetwork, AddRegisters, HalfWay, Phases, Holders, Holding, TypeOK, CallType, Adding
<1>8. ASSUME NEW c \in Callers, AddMaps(c) PROVE Phases'
  BY <1>8 DEF AddMaps, AfterAdd, Idle, NewCall, Returns, Sharing, activityVars, libraryVars,
    Placed, Holders, Phases, HalfWay, NoOrphans, PausedIsQuiet, Holding, TypeOK, CallType,
    Adding, Removing
<1>9. ASSUME NEW c \in Callers, RemoveLoaded(c) PROVE Phases'
  BY <1>9 DEF RemoveLoaded, activityVars, libraryVars, Placed, Holders, Phases, HalfWay,
    NoOrphans, PausedIsQuiet, Holding, TypeOK, CallType, Adding, Removing
<1>10. ASSUME NEW c \in Callers, RemoveStored(c) PROVE Phases'
  BY <1>10 DEF RemoveStored, Bounded, activityVars, libraryVars, Placed, Holders, Phases, HalfWay,
    NoOrphans, PausedIsQuiet, Holding, TypeOK, CallType, Adding, Removing
<1>11. ASSUME NEW c \in Callers, RemoveAbsent(c) PROVE Phases'
  BY <1>11 DEF RemoveAbsent, Adding, AfterRemove, Idle, Joins, NewCall, activityVars,
    libraryVars, Placed, Holders, Phases, HalfWay, NoOrphans, PausedIsQuiet, Holding,
    TypeOK, CallType, Removing
<1>12. ASSUME NEW c \in Callers, RemoveDrops(c) PROVE Phases'
  BY <1>12 DEF RemoveDrops, libraryVars, Placed, Holders, Phases, HalfWay, NoOrphans,
    PausedIsQuiet, Holding, TypeOK, CallType, Adding, Removing
<1>13. ASSUME NEW c \in Callers, DeletesPiece(c) PROVE Phases'
  BY <1>13 DEF DeletesPiece, Bounded, activityVars, libraryVars, Placed, Holders, Phases, HalfWay,
    NoOrphans, PausedIsQuiet, Holding, TypeOK, CallType, Adding, Removing
<1>14. ASSUME NEW c \in Callers, RemoveEnds(c) PROVE Phases'
  BY <1>14 DEF RemoveEnds, AfterRemove, Bounded, Idle, NewCall, activityVars, libraryVars, Placed,
    Holders, Phases, HalfWay, NoOrphans, PausedIsQuiet, Holding, TypeOK, CallType, Adding,
    Removing
<1>15. ASSUME NEW c \in Callers, Delete(c) PROVE Phases'
  BY <1>15 DEF Delete, NewCall, activityVars, Placed, Holders, Phases, HalfWay, NoOrphans,
    PausedIsQuiet, Holding, TypeOK, CallType, Adding, Removing
<1>16. ASSUME NEW c \in Callers, DeleteTitle(c) PROVE Phases'
  BY <1>16 DEF DeleteTitle, NewCall, Releases, activityVars, Placed, Holders, Phases,
    HalfWay, NoOrphans, PausedIsQuiet, Holding, TypeOK, CallType, Adding, Removing
<1>17. ASSUME NEW c \in Callers, Unassign(c) PROVE Phases'
  BY <1>17 DEF Unassign, NewCall, Releases, activityVars, Placed, Holders, Phases, HalfWay,
    NoOrphans, PausedIsQuiet, Holding, TypeOK, CallType, Adding, Removing
<1>18. ASSUME NEW c \in Callers, ChecksUse(c) PROVE Phases'
  BY <1>18 DEF ChecksUse, Idle, NewCall, activityVars, libraryVars, Placed, Holders, Phases,
    HalfWay, NoOrphans, PausedIsQuiet, Holding, TypeOK, CallType, Adding, Removing
<1>19. ASSUME NEW c \in Callers, Unstores(c) PROVE Phases'
  BY <1>19 DEF Unstores, Bounded, activityVars, Placed, Holders, Phases, HalfWay, NoOrphans,
    PausedIsQuiet, Holding, TypeOK, CallType, Adding, Removing
<1>20. ASSUME NEW c \in Callers, Unpauses(c) PROVE Phases'
  BY <1>20 DEF Unpauses, Idle, NewCall, Resume, SetNetwork, libraryVars, Placed, Holders,
    Phases, HalfWay, NoOrphans, PausedIsQuiet, Holding, TypeOK, CallType, Adding, Removing
<1>21. ASSUME NEW h \in Torrents, MarkActive(h) PROVE Phases'
  BY <1>21 DEF MarkActive, SetNetwork, libraryVars, Placed, Holders, Phases, HalfWay,
    NoOrphans, PausedIsQuiet, Holding, TypeOK, CallType, Adding, Removing
<1>22. ASSUME NEW h \in Torrents, Fetches(h) PROVE Phases'
  BY <1>22 DEF Fetches, activityVars, libraryVars, serviceVars, Placed, Holders, Phases,
    HalfWay, NoOrphans, PausedIsQuiet, Holding, TypeOK, CallType, Adding, Removing
<1>23. CASE IdleApplies
  BY <1>23 DEF IdleApplies, GoesIdle, libraryVars, Placed, Holders, Phases, HalfWay,
    NoOrphans, PausedIsQuiet, Holding, TypeOK, CallType, Adding, Removing
<1>24. CASE PauseApplies
  BY <1>24 DEF PauseApplies, NoPausing, Pause, Resume, SetNetwork, libraryVars, Placed,
    Holders, Phases, HalfWay, NoOrphans, PausedIsQuiet, Holding, TypeOK, CallType, Adding,
    Removing
<1>25. CASE Restart
  BY <1>25 DEF Restart, Bounded, Idle, NewCall, NoPausing, RestorePauses, Placed, Holders,
    Phases, HalfWay, NoOrphans, PausedIsQuiet, Holding, TypeOK, CallType, Adding, Removing
<1>26. CASE Bookkeeping
  BY <1>26, BookkeepingLeaves DEF Placed, Holders, Phases, HalfWay, NoOrphans,
    PausedIsQuiet, Holding, TypeOK, CallType, Adding, Removing
<1>27. CASE UNCHANGED vars
  BY <1>27 DEF vars, Placed, Holders, Phases, HalfWay, NoOrphans, PausedIsQuiet, Holding,
    TypeOK, CallType, Adding, Removing
<1> QED
  BY <1>1, <1>2, <1>3, <1>4, <1>5, <1>6, <1>7, <1>8, <1>9, <1>10, <1>11, <1>12, <1>13,
    <1>14, <1>15, <1>16, <1>17, <1>18, <1>19, <1>20, <1>21, <1>22, <1>23, <1>24, <1>25,
    <1>26, <1>27 DEF Next, Calls, Locks, Works, Bookkeeping

LEMMA NoOrphansStep ==
    ASSUME TypeOK, Placed, Holders, Phases, NoOrphans, PausedIsQuiet, [Next]_vars
    PROVE  NoOrphans'
<1>1. ASSUME NEW c \in Callers, Add(c) PROVE NoOrphans'
  BY <1>1 DEF Add, Adding, Joins, NewCall, activityVars, libraryVars, Placed, Holders,
    Phases, HalfWay, NoOrphans, PausedIsQuiet, Holding, TypeOK, CallType, Removing
<1>2. ASSUME NEW c \in Callers, AddLoaded(c) PROVE NoOrphans'
  BY <1>2 DEF AddLoaded, AfterAdd, Idle, NewCall, Returns, Sharing, activityVars,
    libraryVars, Placed, Holders, Phases, HalfWay, NoOrphans, PausedIsQuiet, Holding,
    TypeOK, CallType, Adding, Removing
<1>3. ASSUME NEW c \in Callers, AddStarts(c) PROVE NoOrphans'
  BY <1>3 DEF AddStarts, activityVars, libraryVars, Placed, Holders, Phases, HalfWay,
    NoOrphans, PausedIsQuiet, Holding, TypeOK, CallType, Adding, Removing
<1>4. ASSUME NEW c \in Callers, AddRefused(c) PROVE NoOrphans'
  BY <1>4 DEF AddRefused, AfterAdd, Bounded, Idle, NewCall, Returns, Sharing, activityVars,
    libraryVars, Placed, Holders, Phases, HalfWay, NoOrphans, PausedIsQuiet, Holding,
    TypeOK, CallType, Adding, Removing
<1>5. ASSUME NEW c \in Callers, AddGetsInfo(c) PROVE NoOrphans'
  BY <1>5 DEF AddGetsInfo, Bounded, activityVars, libraryVars, Placed, Holders, Phases,
    HalfWay, NoOrphans, PausedIsQuiet, Holding, TypeOK, CallType, Adding, Removing
<1>6. ASSUME NEW c \in Callers, AddTimesOut(c) PROVE NoOrphans'
  BY <1>6 DEF AddTimesOut, AfterAdd, Idle, NewCall, Returns, Sharing, activityVars,
    libraryVars, Placed, Holders, Phases, HalfWay, NoOrphans, PausedIsQuiet, Holding,
    TypeOK, CallType, Adding, Removing
<1>7. ASSUME NEW c \in Callers, AddRegisters(c) PROVE NoOrphans'
  <2>1. /\ call[c].torrent \in Torrents /\ lock[call[c].torrent] = c
        /\ HalfWay(call[c].torrent, "registers")
    BY <1>7 DEF AddRegisters, Placed, Holders, Phases, Holding
  <2>2. \E s \in {"active", "idle", "paused"}, n \in {"on", "off"} :
          /\ SetNetwork(call[c].torrent, s, n)
          /\ s = "paused" <=> call[c].torrent \in paused
          /\ s = "active" <=> n = "on"
    BY <1>7, <2>1 DEF AddRegisters, register, HalfWay
  <2>3. call' = [call EXCEPT ![c].at = "maps"] /\ UNCHANGED <<loaded, lock, paused>>
    BY <1>7 DEF AddRegisters
  <2> QED BY <2>1, <2>2, <2>3, <1>7 DEF SetNetwork, AddRegisters, HalfWay, NoOrphans, TypeOK, CallType, Adding
<1>8. ASSUME NEW c \in Callers, AddMaps(c) PROVE NoOrphans'
  BY <1>8 DEF AddMaps, AfterAdd, Idle, NewCall, Returns, Sharing, activityVars, libraryVars,
    Placed, Holders, Phases, HalfWay, NoOrphans, PausedIsQuiet, Holding, TypeOK, CallType,
    Adding, Removing
<1>9. ASSUME NEW c \in Callers, RemoveLoaded(c) PROVE NoOrphans'
  BY <1>9 DEF RemoveLoaded, activityVars, libraryVars, Placed, Holders, Phases, HalfWay,
    NoOrphans, PausedIsQuiet, Holding, TypeOK, CallType, Adding, Removing
<1>10. ASSUME NEW c \in Callers, RemoveStored(c) PROVE NoOrphans'
  BY <1>10 DEF RemoveStored, Bounded, activityVars, libraryVars, Placed, Holders, Phases, HalfWay,
    NoOrphans, PausedIsQuiet, Holding, TypeOK, CallType, Adding, Removing
<1>11. ASSUME NEW c \in Callers, RemoveAbsent(c) PROVE NoOrphans'
  BY <1>11 DEF RemoveAbsent, Adding, AfterRemove, Idle, Joins, NewCall, activityVars,
    libraryVars, Placed, Holders, Phases, HalfWay, NoOrphans, PausedIsQuiet, Holding,
    TypeOK, CallType, Removing
<1>12. ASSUME NEW c \in Callers, RemoveDrops(c) PROVE NoOrphans'
  BY <1>12 DEF RemoveDrops, libraryVars, Placed, Holders, Phases, HalfWay, NoOrphans,
    PausedIsQuiet, Holding, TypeOK, CallType, Adding, Removing
<1>13. ASSUME NEW c \in Callers, DeletesPiece(c) PROVE NoOrphans'
  BY <1>13 DEF DeletesPiece, Bounded, activityVars, libraryVars, Placed, Holders, Phases, HalfWay,
    NoOrphans, PausedIsQuiet, Holding, TypeOK, CallType, Adding, Removing
<1>14. ASSUME NEW c \in Callers, RemoveEnds(c) PROVE NoOrphans'
  BY <1>14 DEF RemoveEnds, AfterRemove, Bounded, Idle, NewCall, activityVars, libraryVars, Placed,
    Holders, Phases, HalfWay, NoOrphans, PausedIsQuiet, Holding, TypeOK, CallType, Adding,
    Removing
<1>15. ASSUME NEW c \in Callers, Delete(c) PROVE NoOrphans'
  BY <1>15 DEF Delete, NewCall, activityVars, Placed, Holders, Phases, HalfWay, NoOrphans,
    PausedIsQuiet, Holding, TypeOK, CallType, Adding, Removing
<1>16. ASSUME NEW c \in Callers, DeleteTitle(c) PROVE NoOrphans'
  BY <1>16 DEF DeleteTitle, NewCall, Releases, activityVars, Placed, Holders, Phases,
    HalfWay, NoOrphans, PausedIsQuiet, Holding, TypeOK, CallType, Adding, Removing
<1>17. ASSUME NEW c \in Callers, Unassign(c) PROVE NoOrphans'
  BY <1>17 DEF Unassign, NewCall, Releases, activityVars, Placed, Holders, Phases, HalfWay,
    NoOrphans, PausedIsQuiet, Holding, TypeOK, CallType, Adding, Removing
<1>18. ASSUME NEW c \in Callers, ChecksUse(c) PROVE NoOrphans'
  BY <1>18 DEF ChecksUse, Idle, NewCall, activityVars, libraryVars, Placed, Holders, Phases,
    HalfWay, NoOrphans, PausedIsQuiet, Holding, TypeOK, CallType, Adding, Removing
<1>19. ASSUME NEW c \in Callers, Unstores(c) PROVE NoOrphans'
  BY <1>19 DEF Unstores, Bounded, activityVars, Placed, Holders, Phases, HalfWay, NoOrphans,
    PausedIsQuiet, Holding, TypeOK, CallType, Adding, Removing
<1>20. ASSUME NEW c \in Callers, Unpauses(c) PROVE NoOrphans'
  BY <1>20 DEF Unpauses, Idle, NewCall, Resume, SetNetwork, libraryVars, Placed, Holders,
    Phases, HalfWay, NoOrphans, PausedIsQuiet, Holding, TypeOK, CallType, Adding, Removing
<1>21. ASSUME NEW h \in Torrents, MarkActive(h) PROVE NoOrphans'
  BY <1>21 DEF MarkActive, SetNetwork, libraryVars, Placed, Holders, Phases, HalfWay,
    NoOrphans, PausedIsQuiet, Holding, TypeOK, CallType, Adding, Removing
<1>22. ASSUME NEW h \in Torrents, Fetches(h) PROVE NoOrphans'
  BY <1>22 DEF Fetches, activityVars, libraryVars, serviceVars, Placed, Holders, Phases,
    HalfWay, NoOrphans, PausedIsQuiet, Holding, TypeOK, CallType, Adding, Removing
<1>23. CASE IdleApplies
  BY <1>23 DEF IdleApplies, GoesIdle, libraryVars, Placed, Holders, Phases, HalfWay,
    NoOrphans, PausedIsQuiet, Holding, TypeOK, CallType, Adding, Removing
<1>24. CASE PauseApplies
  BY <1>24 DEF PauseApplies, NoPausing, Pause, Resume, SetNetwork, libraryVars, Placed,
    Holders, Phases, HalfWay, NoOrphans, PausedIsQuiet, Holding, TypeOK, CallType, Adding,
    Removing
<1>25. CASE Restart
  BY <1>25 DEF Restart, Bounded, Idle, NewCall, NoPausing, RestorePauses, Placed, Holders,
    Phases, HalfWay, NoOrphans, PausedIsQuiet, Holding, TypeOK, CallType, Adding, Removing
<1>26. CASE Bookkeeping
  BY <1>26, BookkeepingLeaves DEF Placed, Holders, Phases, HalfWay, NoOrphans,
    PausedIsQuiet, Holding, TypeOK, CallType, Adding, Removing
<1>27. CASE UNCHANGED vars
  BY <1>27 DEF vars, Placed, Holders, Phases, HalfWay, NoOrphans, PausedIsQuiet, Holding,
    TypeOK, CallType, Adding, Removing
<1> QED
  BY <1>1, <1>2, <1>3, <1>4, <1>5, <1>6, <1>7, <1>8, <1>9, <1>10, <1>11, <1>12, <1>13,
    <1>14, <1>15, <1>16, <1>17, <1>18, <1>19, <1>20, <1>21, <1>22, <1>23, <1>24, <1>25,
    <1>26, <1>27 DEF Next, Calls, Locks, Works, Bookkeeping

LEMMA QuietStep ==
    ASSUME TypeOK, Placed, Holders, Phases, NoOrphans, PausedIsQuiet, [Next]_vars
    PROVE  PausedIsQuiet'
<1>1. ASSUME NEW c \in Callers, Add(c) PROVE PausedIsQuiet'
  BY <1>1 DEF Add, Adding, Joins, NewCall, activityVars, libraryVars, Placed, Holders,
    Phases, HalfWay, NoOrphans, PausedIsQuiet, Holding, TypeOK, CallType, Removing
<1>2. ASSUME NEW c \in Callers, AddLoaded(c) PROVE PausedIsQuiet'
  BY <1>2 DEF AddLoaded, AfterAdd, Idle, NewCall, Returns, Sharing, activityVars,
    libraryVars, Placed, Holders, Phases, HalfWay, NoOrphans, PausedIsQuiet, Holding,
    TypeOK, CallType, Adding, Removing
<1>3. ASSUME NEW c \in Callers, AddStarts(c) PROVE PausedIsQuiet'
  BY <1>3 DEF AddStarts, activityVars, libraryVars, Placed, Holders, Phases, HalfWay,
    NoOrphans, PausedIsQuiet, Holding, TypeOK, CallType, Adding, Removing
<1>4. ASSUME NEW c \in Callers, AddRefused(c) PROVE PausedIsQuiet'
  BY <1>4 DEF AddRefused, AfterAdd, Bounded, Idle, NewCall, Returns, Sharing, activityVars,
    libraryVars, Placed, Holders, Phases, HalfWay, NoOrphans, PausedIsQuiet, Holding,
    TypeOK, CallType, Adding, Removing
<1>5. ASSUME NEW c \in Callers, AddGetsInfo(c) PROVE PausedIsQuiet'
  BY <1>5 DEF AddGetsInfo, Bounded, activityVars, libraryVars, Placed, Holders, Phases,
    HalfWay, NoOrphans, PausedIsQuiet, Holding, TypeOK, CallType, Adding, Removing
<1>6. ASSUME NEW c \in Callers, AddTimesOut(c) PROVE PausedIsQuiet'
  BY <1>6 DEF AddTimesOut, AfterAdd, Idle, NewCall, Returns, Sharing, activityVars,
    libraryVars, Placed, Holders, Phases, HalfWay, NoOrphans, PausedIsQuiet, Holding,
    TypeOK, CallType, Adding, Removing
<1>7. ASSUME NEW c \in Callers, AddRegisters(c) PROVE PausedIsQuiet'
  <2>1. /\ call[c].torrent \in Torrents /\ lock[call[c].torrent] = c
        /\ HalfWay(call[c].torrent, "registers")
    BY <1>7 DEF AddRegisters, Placed, Holders, Phases, Holding
  <2>2. \E s \in {"active", "idle", "paused"}, n \in {"on", "off"} :
          /\ SetNetwork(call[c].torrent, s, n)
          /\ s = "paused" <=> call[c].torrent \in paused
          /\ s = "active" <=> n = "on"
    BY <1>7, <2>1 DEF AddRegisters, register, HalfWay
  <2>3. call' = [call EXCEPT ![c].at = "maps"] /\ UNCHANGED <<loaded, lock, paused>>
    BY <1>7 DEF AddRegisters
  <2> QED BY <2>1, <2>2, <2>3, <1>7 DEF SetNetwork, AddRegisters, HalfWay, PausedIsQuiet, TypeOK, CallType, Adding
<1>8. ASSUME NEW c \in Callers, AddMaps(c) PROVE PausedIsQuiet'
  BY <1>8 DEF AddMaps, AfterAdd, Idle, NewCall, Returns, Sharing, activityVars, libraryVars,
    Placed, Holders, Phases, HalfWay, NoOrphans, PausedIsQuiet, Holding, TypeOK, CallType,
    Adding, Removing
<1>9. ASSUME NEW c \in Callers, RemoveLoaded(c) PROVE PausedIsQuiet'
  BY <1>9 DEF RemoveLoaded, activityVars, libraryVars, Placed, Holders, Phases, HalfWay,
    NoOrphans, PausedIsQuiet, Holding, TypeOK, CallType, Adding, Removing
<1>10. ASSUME NEW c \in Callers, RemoveStored(c) PROVE PausedIsQuiet'
  BY <1>10 DEF RemoveStored, Bounded, activityVars, libraryVars, Placed, Holders, Phases, HalfWay,
    NoOrphans, PausedIsQuiet, Holding, TypeOK, CallType, Adding, Removing
<1>11. ASSUME NEW c \in Callers, RemoveAbsent(c) PROVE PausedIsQuiet'
  BY <1>11 DEF RemoveAbsent, Adding, AfterRemove, Idle, Joins, NewCall, activityVars,
    libraryVars, Placed, Holders, Phases, HalfWay, NoOrphans, PausedIsQuiet, Holding,
    TypeOK, CallType, Removing
<1>12. ASSUME NEW c \in Callers, RemoveDrops(c) PROVE PausedIsQuiet'
  BY <1>12 DEF RemoveDrops, libraryVars, Placed, Holders, Phases, HalfWay, NoOrphans,
    PausedIsQuiet, Holding, TypeOK, CallType, Adding, Removing
<1>13. ASSUME NEW c \in Callers, DeletesPiece(c) PROVE PausedIsQuiet'
  BY <1>13 DEF DeletesPiece, Bounded, activityVars, libraryVars, Placed, Holders, Phases, HalfWay,
    NoOrphans, PausedIsQuiet, Holding, TypeOK, CallType, Adding, Removing
<1>14. ASSUME NEW c \in Callers, RemoveEnds(c) PROVE PausedIsQuiet'
  BY <1>14 DEF RemoveEnds, AfterRemove, Bounded, Idle, NewCall, activityVars, libraryVars, Placed,
    Holders, Phases, HalfWay, NoOrphans, PausedIsQuiet, Holding, TypeOK, CallType, Adding,
    Removing
<1>15. ASSUME NEW c \in Callers, Delete(c) PROVE PausedIsQuiet'
  BY <1>15 DEF Delete, NewCall, activityVars, Placed, Holders, Phases, HalfWay, NoOrphans,
    PausedIsQuiet, Holding, TypeOK, CallType, Adding, Removing
<1>16. ASSUME NEW c \in Callers, DeleteTitle(c) PROVE PausedIsQuiet'
  BY <1>16 DEF DeleteTitle, NewCall, Releases, activityVars, Placed, Holders, Phases,
    HalfWay, NoOrphans, PausedIsQuiet, Holding, TypeOK, CallType, Adding, Removing
<1>17. ASSUME NEW c \in Callers, Unassign(c) PROVE PausedIsQuiet'
  BY <1>17 DEF Unassign, NewCall, Releases, activityVars, Placed, Holders, Phases, HalfWay,
    NoOrphans, PausedIsQuiet, Holding, TypeOK, CallType, Adding, Removing
<1>18. ASSUME NEW c \in Callers, ChecksUse(c) PROVE PausedIsQuiet'
  BY <1>18 DEF ChecksUse, Idle, NewCall, activityVars, libraryVars, Placed, Holders, Phases,
    HalfWay, NoOrphans, PausedIsQuiet, Holding, TypeOK, CallType, Adding, Removing
<1>19. ASSUME NEW c \in Callers, Unstores(c) PROVE PausedIsQuiet'
  BY <1>19 DEF Unstores, Bounded, activityVars, Placed, Holders, Phases, HalfWay, NoOrphans,
    PausedIsQuiet, Holding, TypeOK, CallType, Adding, Removing
<1>20. ASSUME NEW c \in Callers, Unpauses(c) PROVE PausedIsQuiet'
  BY <1>20 DEF Unpauses, Idle, NewCall, Resume, SetNetwork, libraryVars, Placed, Holders,
    Phases, HalfWay, NoOrphans, PausedIsQuiet, Holding, TypeOK, CallType, Adding, Removing
<1>21. ASSUME NEW h \in Torrents, MarkActive(h) PROVE PausedIsQuiet'
  BY <1>21 DEF MarkActive, SetNetwork, libraryVars, Placed, Holders, Phases, HalfWay,
    NoOrphans, PausedIsQuiet, Holding, TypeOK, CallType, Adding, Removing
<1>22. ASSUME NEW h \in Torrents, Fetches(h) PROVE PausedIsQuiet'
  BY <1>22 DEF Fetches, activityVars, libraryVars, serviceVars, Placed, Holders, Phases,
    HalfWay, NoOrphans, PausedIsQuiet, Holding, TypeOK, CallType, Adding, Removing
<1>23. CASE IdleApplies
  BY <1>23 DEF IdleApplies, GoesIdle, libraryVars, Placed, Holders, Phases, HalfWay,
    NoOrphans, PausedIsQuiet, Holding, TypeOK, CallType, Adding, Removing
<1>24. CASE PauseApplies
  BY <1>24 DEF PauseApplies, NoPausing, Pause, Resume, SetNetwork, libraryVars, Placed,
    Holders, Phases, HalfWay, NoOrphans, PausedIsQuiet, Holding, TypeOK, CallType, Adding,
    Removing
<1>25. CASE Restart
  BY <1>25 DEF Restart, Bounded, Idle, NewCall, NoPausing, RestorePauses, Placed, Holders,
    Phases, HalfWay, NoOrphans, PausedIsQuiet, Holding, TypeOK, CallType, Adding, Removing
<1>26. CASE Bookkeeping
  BY <1>26, BookkeepingLeaves DEF Placed, Holders, Phases, HalfWay, NoOrphans,
    PausedIsQuiet, Holding, TypeOK, CallType, Adding, Removing
<1>27. CASE UNCHANGED vars
  BY <1>27 DEF vars, Placed, Holders, Phases, HalfWay, NoOrphans, PausedIsQuiet, Holding,
    TypeOK, CallType, Adding, Removing
<1> QED
  BY <1>1, <1>2, <1>3, <1>4, <1>5, <1>6, <1>7, <1>8, <1>9, <1>10, <1>11, <1>12, <1>13,
    <1>14, <1>15, <1>16, <1>17, <1>18, <1>19, <1>20, <1>21, <1>22, <1>23, <1>24, <1>25,
    <1>26, <1>27 DEF Next, Calls, Locks, Works, Bookkeeping

LEMMA ErasedStep ==
    ASSUME TypeOK, Placed, Holders, Phases, Erased, [Next]_vars
    PROVE  Erased'
<1>1. ASSUME NEW c \in Callers, Add(c) PROVE Erased'
  BY <1>1 DEF Add, Adding, Joins, NewCall, activityVars, libraryVars, Placed, Holders,
    Phases, HalfWay, Erased, Holding, TypeOK, CallType, Removing
<1>2. ASSUME NEW c \in Callers, AddLoaded(c) PROVE Erased'
  BY <1>2 DEF AddLoaded, AfterAdd, Idle, NewCall, Returns, Sharing, activityVars,
    libraryVars, Placed, Holders, Phases, HalfWay, Erased, Holding, TypeOK, CallType,
    Adding, Removing
<1>3. ASSUME NEW c \in Callers, AddStarts(c) PROVE Erased'
  BY <1>3 DEF AddStarts, activityVars, libraryVars, Placed, Holders, Phases, HalfWay,
    Erased, Holding, TypeOK, CallType, Adding, Removing
<1>4. ASSUME NEW c \in Callers, AddRefused(c) PROVE Erased'
  BY <1>4 DEF AddRefused, AfterAdd, Bounded, Idle, NewCall, Returns, Sharing, activityVars,
    libraryVars, Placed, Holders, Phases, HalfWay, Erased, Holding, TypeOK, CallType,
    Adding, Removing
<1>5. ASSUME NEW c \in Callers, AddGetsInfo(c) PROVE Erased'
  BY <1>5 DEF AddGetsInfo, Bounded, activityVars, libraryVars, Placed, Holders, Phases,
    HalfWay, Erased, Holding, TypeOK, CallType, Adding, Removing
<1>6. ASSUME NEW c \in Callers, AddTimesOut(c) PROVE Erased'
  BY <1>6 DEF AddTimesOut, AfterAdd, Idle, NewCall, Returns, Sharing, activityVars,
    libraryVars, Placed, Holders, Phases, HalfWay, Erased, Holding, TypeOK, CallType,
    Adding, Removing
<1>7. ASSUME NEW c \in Callers, AddRegisters(c) PROVE Erased'
  BY <1>7 DEF AddRegisters, SetNetwork, libraryVars, register, Placed, Holders, Phases,
    HalfWay, Erased, Holding, TypeOK, CallType, Adding, Removing
<1>8. ASSUME NEW c \in Callers, AddMaps(c) PROVE Erased'
  BY <1>8 DEF AddMaps, AfterAdd, Idle, NewCall, Returns, Sharing, activityVars, libraryVars,
    Placed, Holders, Phases, HalfWay, Erased, Holding, TypeOK, CallType, Adding, Removing
<1>9. ASSUME NEW c \in Callers, RemoveLoaded(c) PROVE Erased'
  BY <1>9 DEF RemoveLoaded, ToErase, activityVars, libraryVars, Placed, Holders, Phases,
    HalfWay, Erased, Holding, TypeOK, CallType, Adding, Removing
<1>10. ASSUME NEW c \in Callers, RemoveStored(c) PROVE Erased'
  <2>1. data' = data /\ data \in [Torrents -> SUBSET Pieces] /\ call[c].torrent \in Torrents
    BY <1>10 DEF RemoveStored, TypeOK, Placed
  <2> QED BY <1>10, <2>1, TypedParts, StoredCall DEF SameRemoval, Erased
<1>11. ASSUME NEW c \in Callers, RemoveAbsent(c) PROVE Erased'
  <2>1. call[c].at = "drops" /\ data' = data /\ call \in [Callers -> CallType] /\ call[c].why # "add"
    BY <1>11 DEF RemoveAbsent, TypeOK, Placed, Removing
  <2>2. AfterRemove(call[c]).at \notin {"unmapped", "deletes"}
    <3>1. call[c].why \in {"delete", "release", "background"} /\ call[c] \in CallType
      BY <2>1 DEF CallType
    <3> QED BY <3>1 DEF AfterRemove, Idle, NewCall, CallType
  <2>3. \A h : Joins(h, "background").at \notin {"unmapped", "deletes"}
    BY DEF Joins, NewCall
  <2>4. \A d \in Callers : call'[d] = call[d] \/ call'[d].at \notin {"unmapped", "deletes"}
    BY <1>11, <2>1, <2>2, <2>3 DEF RemoveAbsent
  <2> QED BY <2>1, <2>4 DEF Erased
<1>12. ASSUME NEW c \in Callers, RemoveDrops(c) PROVE Erased'
  BY <1>12 DEF RemoveDrops, libraryVars, Placed, Holders, Phases, HalfWay, Erased, Holding,
    TypeOK, CallType, Adding, Removing
<1>13. ASSUME NEW c \in Callers, DeletesPiece(c) PROVE Erased'
  BY <1>13 DEF DeletesPiece, Bounded, activityVars, libraryVars, Placed, Holders, Phases, HalfWay,
    Erased, Holding, TypeOK, CallType, Adding, Removing
<1>14. ASSUME NEW c \in Callers, RemoveEnds(c) PROVE Erased'
  BY <1>14 DEF RemoveEnds, AfterRemove, Bounded, Idle, NewCall, activityVars, libraryVars, Placed,
    Holders, Phases, HalfWay, Erased, Holding, TypeOK, CallType, Adding, Removing
<1>15. ASSUME NEW c \in Callers, Delete(c) PROVE Erased'
  BY <1>15 DEF Delete, NewCall, activityVars, Placed, Holders, Phases, HalfWay, Erased,
    Holding, TypeOK, CallType, Adding, Removing
<1>16. ASSUME NEW c \in Callers, DeleteTitle(c) PROVE Erased'
  BY <1>16 DEF DeleteTitle, NewCall, Releases, activityVars, Placed, Holders, Phases,
    HalfWay, Erased, Holding, TypeOK, CallType, Adding, Removing
<1>17. ASSUME NEW c \in Callers, Unassign(c) PROVE Erased'
  BY <1>17 DEF Unassign, NewCall, Releases, activityVars, Placed, Holders, Phases, HalfWay,
    Erased, Holding, TypeOK, CallType, Adding, Removing
<1>18. ASSUME NEW c \in Callers, ChecksUse(c) PROVE Erased'
  BY <1>18 DEF ChecksUse, Idle, NewCall, activityVars, libraryVars, Placed, Holders, Phases,
    HalfWay, Erased, Holding, TypeOK, CallType, Adding, Removing
<1>19. ASSUME NEW c \in Callers, Unstores(c) PROVE Erased'
  BY <1>19 DEF Unstores, Bounded, activityVars, Placed, Holders, Phases, HalfWay, Erased,
    Holding, TypeOK, CallType, Adding, Removing
<1>20. ASSUME NEW c \in Callers, Unpauses(c) PROVE Erased'
  BY <1>20 DEF Unpauses, Idle, NewCall, Resume, SetNetwork, libraryVars, Placed, Holders,
    Phases, HalfWay, Erased, Holding, TypeOK, CallType, Adding, Removing
<1>21. ASSUME NEW h \in Torrents, MarkActive(h) PROVE Erased'
  BY <1>21 DEF MarkActive, SetNetwork, libraryVars, Placed, Holders, Phases, HalfWay,
    Erased, Holding, TypeOK, CallType, Adding, Removing
<1>22. ASSUME NEW h \in Torrents, Fetches(h) PROVE Erased'
  BY <1>22 DEF Fetches, activityVars, libraryVars, serviceVars, Placed, Holders, Phases,
    HalfWay, Erased, Holding, TypeOK, CallType, Adding, Removing
<1>23. CASE IdleApplies
  BY <1>23 DEF IdleApplies, GoesIdle, libraryVars, Placed, Holders, Phases, HalfWay, Erased,
    Holding, TypeOK, CallType, Adding, Removing
<1>24. CASE PauseApplies
  BY <1>24 DEF PauseApplies, NoPausing, Pause, Resume, SetNetwork, libraryVars, Placed,
    Holders, Phases, HalfWay, Erased, Holding, TypeOK, CallType, Adding, Removing
<1>25. CASE Restart
  BY <1>25 DEF Restart, Bounded, Idle, NewCall, NoPausing, RestorePauses, Placed, Holders,
    Phases, HalfWay, Erased, Holding, TypeOK, CallType, Adding, Removing
<1>26. CASE Bookkeeping
  BY <1>26, BookkeepingLeaves DEF Placed, Holders, Phases, HalfWay, Erased, Holding, TypeOK,
    CallType, Adding, Removing
<1>27. CASE UNCHANGED vars
  BY <1>27 DEF vars, Placed, Holders, Phases, HalfWay, Erased, Holding, TypeOK, CallType,
    Adding, Removing
<1> QED
  BY <1>1, <1>2, <1>3, <1>4, <1>5, <1>6, <1>7, <1>8, <1>9, <1>10, <1>11, <1>12, <1>13,
    <1>14, <1>15, <1>16, <1>17, <1>18, <1>19, <1>20, <1>21, <1>22, <1>23, <1>24, <1>25,
    <1>26, <1>27 DEF Next, Calls, Locks, Works, Bookkeeping

LEMMA UnreadStep ==
    ASSUME TypeOK, Placed, Holders, Phases, NoOrphans, [Next]_vars
    PROVE  Unread
<1>1. ASSUME NEW c \in Callers, Add(c) PROVE Unread
  BY <1>1 DEF Add, Adding, Joins, NewCall, activityVars, libraryVars, Unread, Placed,
    Holders, Phases, HalfWay, NoOrphans, Holding, TypeOK, CallType, Removing
<1>2. ASSUME NEW c \in Callers, AddLoaded(c) PROVE Unread
  BY <1>2 DEF AddLoaded, AfterAdd, Idle, NewCall, Returns, Sharing, activityVars,
    libraryVars, Unread, Placed, Holders, Phases, HalfWay, NoOrphans, Holding, TypeOK,
    CallType, Adding, Removing
<1>3. ASSUME NEW c \in Callers, AddStarts(c) PROVE Unread
  BY <1>3 DEF AddStarts, activityVars, libraryVars, Unread, Placed, Holders, Phases,
    HalfWay, NoOrphans, Holding, TypeOK, CallType, Adding, Removing
<1>4. ASSUME NEW c \in Callers, AddRefused(c) PROVE Unread
  BY <1>4 DEF AddRefused, AfterAdd, Bounded, Idle, NewCall, Returns, Sharing, activityVars,
    libraryVars, Unread, Placed, Holders, Phases, HalfWay, NoOrphans, Holding, TypeOK,
    CallType, Adding, Removing
<1>5. ASSUME NEW c \in Callers, AddGetsInfo(c) PROVE Unread
  BY <1>5 DEF AddGetsInfo, Bounded, activityVars, libraryVars, Unread, Placed, Holders,
    Phases, HalfWay, NoOrphans, Holding, TypeOK, CallType, Adding, Removing
<1>6. ASSUME NEW c \in Callers, AddTimesOut(c) PROVE Unread
  BY <1>6 DEF AddTimesOut, AfterAdd, Idle, NewCall, Returns, Sharing, activityVars,
    libraryVars, Unread, Placed, Holders, Phases, HalfWay, NoOrphans, Holding, TypeOK,
    CallType, Adding, Removing
<1>7. ASSUME NEW c \in Callers, AddRegisters(c) PROVE Unread
  <2>1. /\ call[c].torrent \in Torrents /\ state[call[c].torrent] = "none"
    BY <1>7 DEF AddRegisters, Placed, Phases, HalfWay, Holding
  <2>2. \E s, n : SetNetwork(call[c].torrent, s, n)
    BY <1>7 DEF AddRegisters, register
  <2> QED BY <2>1, <2>2 DEF SetNetwork, Unread, TypeOK
<1>8. ASSUME NEW c \in Callers, AddMaps(c) PROVE Unread
  BY <1>8 DEF AddMaps, AfterAdd, Idle, NewCall, Returns, Sharing, activityVars, libraryVars,
    Unread, Placed, Holders, Phases, HalfWay, NoOrphans, Holding, TypeOK, CallType, Adding,
    Removing
<1>9. ASSUME NEW c \in Callers, RemoveLoaded(c) PROVE Unread
  BY <1>9 DEF RemoveLoaded, activityVars, libraryVars, Unread, Placed, Holders, Phases,
    HalfWay, NoOrphans, Holding, TypeOK, CallType, Adding, Removing
<1>10. ASSUME NEW c \in Callers, RemoveStored(c) PROVE Unread
  BY <1>10 DEF RemoveStored, Bounded, activityVars, libraryVars, Unread, Placed, Holders, Phases,
    HalfWay, NoOrphans, Holding, TypeOK, CallType, Adding, Removing
<1>11. ASSUME NEW c \in Callers, RemoveAbsent(c) PROVE Unread
  BY <1>11 DEF RemoveAbsent, Adding, AfterRemove, Idle, Joins, NewCall, activityVars,
    libraryVars, Unread, Placed, Holders, Phases, HalfWay, NoOrphans, Holding, TypeOK,
    CallType, Removing
<1>12. ASSUME NEW c \in Callers, RemoveDrops(c) PROVE Unread
  BY <1>12 DEF RemoveDrops, libraryVars, Unread, Placed, Holders, Phases, HalfWay,
    NoOrphans, Holding, TypeOK, CallType, Adding, Removing
<1>13. ASSUME NEW c \in Callers, DeletesPiece(c) PROVE Unread
  BY <1>13 DEF DeletesPiece, Bounded, activityVars, libraryVars, Unread, Placed, Holders, Phases,
    HalfWay, NoOrphans, Holding, TypeOK, CallType, Adding, Removing
<1>14. ASSUME NEW c \in Callers, RemoveEnds(c) PROVE Unread
  BY <1>14 DEF RemoveEnds, AfterRemove, Bounded, Idle, NewCall, activityVars, libraryVars, Unread,
    Placed, Holders, Phases, HalfWay, NoOrphans, Holding, TypeOK, CallType, Adding, Removing
<1>15. ASSUME NEW c \in Callers, Delete(c) PROVE Unread
  BY <1>15 DEF Delete, NewCall, activityVars, Unread, Placed, Holders, Phases, HalfWay,
    NoOrphans, Holding, TypeOK, CallType, Adding, Removing
<1>16. ASSUME NEW c \in Callers, DeleteTitle(c) PROVE Unread
  BY <1>16 DEF DeleteTitle, NewCall, Releases, activityVars, Unread, Placed, Holders,
    Phases, HalfWay, NoOrphans, Holding, TypeOK, CallType, Adding, Removing
<1>17. ASSUME NEW c \in Callers, Unassign(c) PROVE Unread
  BY <1>17 DEF Unassign, NewCall, Releases, activityVars, Unread, Placed, Holders, Phases,
    HalfWay, NoOrphans, Holding, TypeOK, CallType, Adding, Removing
<1>18. ASSUME NEW c \in Callers, ChecksUse(c) PROVE Unread
  BY <1>18 DEF ChecksUse, Idle, NewCall, activityVars, libraryVars, Unread, Placed, Holders,
    Phases, HalfWay, NoOrphans, Holding, TypeOK, CallType, Adding, Removing
<1>19. ASSUME NEW c \in Callers, Unstores(c) PROVE Unread
  BY <1>19 DEF Unstores, Bounded, activityVars, Unread, Placed, Holders, Phases, HalfWay,
    NoOrphans, Holding, TypeOK, CallType, Adding, Removing
<1>20. ASSUME NEW c \in Callers, Unpauses(c) PROVE Unread
  BY <1>20 DEF Unpauses, Idle, NewCall, Resume, SetNetwork, libraryVars, Unread, Placed,
    Holders, Phases, HalfWay, NoOrphans, Holding, TypeOK, CallType, Adding, Removing
<1>21. ASSUME NEW h \in Torrents, MarkActive(h) PROVE Unread
  BY <1>21 DEF MarkActive, SetNetwork, libraryVars, Unread, Placed, Holders, Phases,
    HalfWay, NoOrphans, Holding, TypeOK, CallType, Adding, Removing
<1>22. ASSUME NEW h \in Torrents, Fetches(h) PROVE Unread
  BY <1>22 DEF Fetches, activityVars, libraryVars, serviceVars, Unread, Placed, Holders,
    Phases, HalfWay, NoOrphans, Holding, TypeOK, CallType, Adding, Removing
<1>23. CASE IdleApplies
  BY <1>23 DEF IdleApplies, GoesIdle, libraryVars, Unread, Placed, Holders, Phases, HalfWay,
    NoOrphans, Holding, TypeOK, CallType, Adding, Removing
<1>24. CASE PauseApplies
  BY <1>24 DEF PauseApplies, NoPausing, Pause, Resume, SetNetwork, libraryVars, Unread,
    Placed, Holders, Phases, HalfWay, NoOrphans, Holding, TypeOK, CallType, Adding, Removing
<1>25. CASE Restart
  BY <1>25 DEF Restart, Bounded, Idle, NewCall, NoPausing, RestorePauses, Unread, Placed,
    Holders, Phases, HalfWay, NoOrphans, Holding, TypeOK, CallType, Adding, Removing
<1>26. CASE Bookkeeping
  BY <1>26, BookkeepingLeaves DEF Unread, Placed, Holders, Phases, HalfWay, NoOrphans,
    Holding, TypeOK, CallType, Adding, Removing
<1>27. CASE UNCHANGED vars
  BY <1>27 DEF vars, Unread, Placed, Holders, Phases, HalfWay, NoOrphans, Holding, TypeOK,
    CallType, Adding, Removing
<1> QED
  BY <1>1, <1>2, <1>3, <1>4, <1>5, <1>6, <1>7, <1>8, <1>9, <1>10, <1>11, <1>12, <1>13,
    <1>14, <1>15, <1>16, <1>17, <1>18, <1>19, <1>20, <1>21, <1>22, <1>23, <1>24, <1>25,
    <1>26, <1>27 DEF Next, Calls, Locks, Works, Bookkeeping

LEMMA LeavesStep ==
    ASSUME TypeOK, Placed, Holders, Phases, Erased, [Next]_vars
    PROVE  Leaves
<1>1. ASSUME NEW c \in Callers, Add(c) PROVE Leaves
  BY <1>1 DEF Add, Adding, Joins, NewCall, activityVars, libraryVars, Leaves, Placed,
    Holders, Phases, HalfWay, Erased, Holding, TypeOK, CallType, Removing
<1>2. ASSUME NEW c \in Callers, AddLoaded(c) PROVE Leaves
  BY <1>2 DEF AddLoaded, AfterAdd, Idle, NewCall, Returns, Sharing, activityVars,
    libraryVars, Leaves, Placed, Holders, Phases, HalfWay, Erased, Holding, TypeOK,
    CallType, Adding, Removing
<1>3. ASSUME NEW c \in Callers, AddStarts(c) PROVE Leaves
  BY <1>3 DEF AddStarts, activityVars, libraryVars, Leaves, Placed, Holders, Phases,
    HalfWay, Erased, Holding, TypeOK, CallType, Adding, Removing
<1>4. ASSUME NEW c \in Callers, AddRefused(c) PROVE Leaves
  BY <1>4 DEF AddRefused, AfterAdd, Bounded, Idle, NewCall, Returns, Sharing, activityVars,
    libraryVars, Leaves, Placed, Holders, Phases, HalfWay, Erased, Holding, TypeOK,
    CallType, Adding, Removing
<1>5. ASSUME NEW c \in Callers, AddGetsInfo(c) PROVE Leaves
  BY <1>5 DEF AddGetsInfo, Bounded, activityVars, libraryVars, Leaves, Placed, Holders,
    Phases, HalfWay, Erased, Holding, TypeOK, CallType, Adding, Removing
<1>6. ASSUME NEW c \in Callers, AddTimesOut(c) PROVE Leaves
  BY <1>6 DEF AddTimesOut, AfterAdd, Idle, NewCall, Returns, Sharing, activityVars,
    libraryVars, Leaves, Placed, Holders, Phases, HalfWay, Erased, Holding, TypeOK,
    CallType, Adding, Removing
<1>7. ASSUME NEW c \in Callers, AddRegisters(c) PROVE Leaves
  BY <1>7 DEF AddRegisters, SetNetwork, libraryVars, register, Leaves, Placed, Holders,
    Phases, HalfWay, Erased, Holding, TypeOK, CallType, Adding, Removing
<1>8. ASSUME NEW c \in Callers, AddMaps(c) PROVE Leaves
  BY <1>8 DEF AddMaps, AfterAdd, Idle, NewCall, Returns, Sharing, activityVars, libraryVars,
    Leaves, Placed, Holders, Phases, HalfWay, Erased, Holding, TypeOK, CallType, Adding,
    Removing
<1>9. ASSUME NEW c \in Callers, RemoveLoaded(c) PROVE Leaves
  BY <1>9 DEF RemoveLoaded, activityVars, libraryVars, Leaves, Placed, Holders, Phases,
    HalfWay, Erased, Holding, TypeOK, CallType, Adding, Removing
<1>10. ASSUME NEW c \in Callers, RemoveStored(c) PROVE Leaves
  BY <1>10 DEF RemoveStored, Bounded, activityVars, libraryVars, Leaves, Placed, Holders, Phases,
    HalfWay, Erased, Holding, TypeOK, CallType, Adding, Removing
<1>11. ASSUME NEW c \in Callers, RemoveAbsent(c) PROVE Leaves
  BY <1>11 DEF RemoveAbsent, Adding, AfterRemove, Idle, Joins, NewCall, activityVars,
    libraryVars, Leaves, Placed, Holders, Phases, HalfWay, Erased, Holding, TypeOK,
    CallType, Removing
<1>12. ASSUME NEW c \in Callers, RemoveDrops(c) PROVE Leaves
  BY <1>12 DEF RemoveDrops, libraryVars, Leaves, Placed, Holders, Phases, HalfWay, Erased,
    Holding, TypeOK, CallType, Adding, Removing
<1>13. ASSUME NEW c \in Callers, DeletesPiece(c) PROVE Leaves
  BY <1>13 DEF DeletesPiece, Bounded, activityVars, libraryVars, Leaves, Placed, Holders, Phases,
    HalfWay, Erased, Holding, TypeOK, CallType, Adding, Removing
<1>14. ASSUME NEW c \in Callers, RemoveEnds(c) PROVE Leaves
  BY <1>14 DEF RemoveEnds, AfterRemove, Bounded, Idle, NewCall, activityVars, libraryVars, Leaves,
    Placed, Holders, Phases, HalfWay, Erased, Holding, TypeOK, CallType, Adding, Removing
<1>15. ASSUME NEW c \in Callers, Delete(c) PROVE Leaves
  BY <1>15 DEF Delete, NewCall, activityVars, Leaves, Placed, Holders, Phases, HalfWay,
    Erased, Holding, TypeOK, CallType, Adding, Removing
<1>16. ASSUME NEW c \in Callers, DeleteTitle(c) PROVE Leaves
  BY <1>16 DEF DeleteTitle, NewCall, Releases, activityVars, Leaves, Placed, Holders,
    Phases, HalfWay, Erased, Holding, TypeOK, CallType, Adding, Removing
<1>17. ASSUME NEW c \in Callers, Unassign(c) PROVE Leaves
  BY <1>17 DEF Unassign, NewCall, Releases, activityVars, Leaves, Placed, Holders, Phases,
    HalfWay, Erased, Holding, TypeOK, CallType, Adding, Removing
<1>18. ASSUME NEW c \in Callers, ChecksUse(c) PROVE Leaves
  BY <1>18 DEF ChecksUse, Idle, NewCall, activityVars, libraryVars, Leaves, Placed, Holders,
    Phases, HalfWay, Erased, Holding, TypeOK, CallType, Adding, Removing
<1>19. ASSUME NEW c \in Callers, Unstores(c) PROVE Leaves
  BY <1>19 DEF Unstores, Bounded, activityVars, Leaves, Placed, Holders, Phases, HalfWay,
    Erased, Holding, TypeOK, CallType, Adding, Removing
<1>20. ASSUME NEW c \in Callers, Unpauses(c) PROVE Leaves
  BY <1>20 DEF Unpauses, Idle, NewCall, Resume, SetNetwork, libraryVars, Leaves, Placed,
    Holders, Phases, HalfWay, Erased, Holding, TypeOK, CallType, Adding, Removing
<1>21. ASSUME NEW h \in Torrents, MarkActive(h) PROVE Leaves
  BY <1>21 DEF MarkActive, SetNetwork, libraryVars, Leaves, Placed, Holders, Phases,
    HalfWay, Erased, Holding, TypeOK, CallType, Adding, Removing
<1>22. ASSUME NEW h \in Torrents, Fetches(h) PROVE Leaves
  BY <1>22 DEF Fetches, activityVars, libraryVars, serviceVars, Leaves, Placed, Holders,
    Phases, HalfWay, Erased, Holding, TypeOK, CallType, Adding, Removing
<1>23. CASE IdleApplies
  BY <1>23 DEF IdleApplies, GoesIdle, libraryVars, Leaves, Placed, Holders, Phases, HalfWay,
    Erased, Holding, TypeOK, CallType, Adding, Removing
<1>24. CASE PauseApplies
  BY <1>24 DEF PauseApplies, NoPausing, Pause, Resume, SetNetwork, libraryVars, Leaves,
    Placed, Holders, Phases, HalfWay, Erased, Holding, TypeOK, CallType, Adding, Removing
<1>25. CASE Restart
  BY <1>25 DEF Restart, Bounded, Idle, NewCall, NoPausing, RestorePauses, Leaves, Placed,
    Holders, Phases, HalfWay, Erased, Holding, TypeOK, CallType, Adding, Removing
<1>26. CASE Bookkeeping
  BY <1>26, BookkeepingLeaves DEF Leaves, Placed, Holders, Phases, HalfWay, Erased, Holding,
    TypeOK, CallType, Adding, Removing
<1>27. CASE UNCHANGED vars
  BY <1>27 DEF vars, Leaves, Placed, Holders, Phases, HalfWay, Erased, Holding, TypeOK,
    CallType, Adding, Removing
<1> QED
  BY <1>1, <1>2, <1>3, <1>4, <1>5, <1>6, <1>7, <1>8, <1>9, <1>10, <1>11, <1>12, <1>13,
    <1>14, <1>15, <1>16, <1>17, <1>18, <1>19, <1>20, <1>21, <1>22, <1>23, <1>24, <1>25,
    <1>26, <1>27 DEF Next, Calls, Locks, Works, Bookkeeping

-----------------------------------------------------------------------------
(* The invariant is inductive, and what follows.                           *)

LEMMA InitInv == Init => IInv
<1> SUFFICES ASSUME Init PROVE IInv
  OBVIOUS
<1>1. CallsTyped
  BY IdleType DEF Init, CallsTyped
<1>2. RestTyped
  BY DEF Init, RestTyped, PausingType, NoPausing
<1>3. \A c \in Callers : call[c].at = "idle"
  BY DEF Init, Idle, NewCall
<1>4. Placed /\ Joined /\ Phases
  BY <1>3 DEF Placed, Joined, Phases, Holding, Removing
<1>5. \A h \in Torrents, c \in Callers : lock[h] # c
  BY DEF Init
<1>6. Holders
  BY <1>3, <1>5 DEF Holders, Holding
<1>7. NoOrphans /\ PausedIsQuiet
  BY DEF Init, NoOrphans, PausedIsQuiet
<1>8. Erased
  BY <1>3 DEF Erased
<1> QED BY <1>1, <1>2, <1>4, <1>6, <1>7, <1>8, TypedParts DEF IInv

LEMMA NextInv == IInv /\ [Next]_vars => IInv'
<1> SUFFICES ASSUME IInv, [Next]_vars PROVE IInv'
  OBVIOUS
<1>1. TypeOK'
  <2>1. CallsTyped' /\ RestTyped'
    BY TypedParts, CallsStep, RestStep DEF IInv
  <2> QED BY <2>1 DEF TypeOK, CallsTyped, RestTyped
<1> QED BY <1>1, PlacedStep, HoldersStep, JoinedStep, PhasesStep, NoOrphansStep, QuietStep, ErasedStep DEF IInv

LEMMA Inductive == Spec => []IInv
<1>1. Init => IInv
  BY InitInv
<1>2. IInv /\ [Next]_vars => IInv'
  BY NextInv
<1> QED BY <1>1, <1>2, PTL DEF Spec

(* Every variable keeps its type.                                          *)
THEOREM TypeCorrect == Spec => []TypeOK
<1>1. IInv => TypeOK
  BY DEF IInv
<1> QED BY <1>1, Inductive, PTL

(* A torrent whose hash lock is free is in the client, the service's maps  *)
(* and the activity manager, or in none of them (service.add,              *)
(* RemoveTorrent).                                                         *)
THEOREM UnlockedAgree == Spec => []NoOrphans
<1>1. IInv => NoOrphans
  BY DEF IInv
<1> QED BY <1>1, Inductive, PTL

(* A paused torrent's network is off, an active one's on, whatever loads,  *)
(* reads, pauses and the idle check interleave (ActivityManager).          *)
THEOREM PausedStaysQuiet == Spec => []PausedIsQuiet
<1>1. IInv => PausedIsQuiet
  BY DEF IInv
<1> QED BY <1>1, Inductive, PTL

(* Nobody waits for a call that is gone: a held hash lock has the one call *)
(* in the middle of its add or removal, a joined attempt one under way     *)
(* (hashLocks, singleflight).                                              *)
THEOREM WaitsEnd == Spec => []WaitersHaveHolders
<1>1. IInv => WaitersHaveHolders
  BY DEF IInv, Holders, Joined, WaitersHaveHolders
<1> QED BY <1>1, Inductive, PTL

(* The idle check turns off no torrent read since it looked                *)
(* (checkIdleTorrents).                                                    *)
THEOREM IdleNeverRead == Spec => IdleIsUnread
<1>1. IInv /\ [Next]_vars => [Unread]_vars
  BY UnreadStep DEF IInv
<1>2. [Unread]_vars => [\A h \in recent : state[h] = "active" => state'[h] # "idle"]_vars
  BY DEF Unread
<1> QED BY <1>1, <1>2, Inductive, PTL DEF Spec, IdleIsUnread

(* A removal keeps the metainfo that names the pieces until it tried each, *)
(* and leaves of the torrent only those whose deletion failed              *)
(* (RemoveTorrent, deletePieces).                                          *)
THEOREM RemovalIsWhole == Spec => RemovalLeavesOnlyWhatFailed
<1>1. IInv /\ [Next]_vars => [Leaves]_vars
  BY LeavesStep DEF IInv
<1> QED BY <1>1, Inductive, PTL DEF Spec, RemovalLeavesOnlyWhatFailed, Leaves

-----------------------------------------------------------------------------
(* The pauses.  Agreed says how far a pause is with its two writes, and    *)
(* holds of every torrent that no removal is clearing: Forgotten is what a *)
(* removal leaves when it is done, Apart that no pause writes meanwhile,   *)
(* Reasons that what a background delete does touches no pause.            *)

\* A removal of h that clears its pauses is under way.
Removal(k, h) == k.torrent = h /\ k.at \in Removing /\ k.why # "background"
Removed(h) == \E c \in Callers : Removal(call[c], h)

\* A pause has nothing left over when it ends, and starts with all to do.
PauseSteps ==
  /\ pausing.at = "idle" => pausing.over = {}
  /\ pausing.at = "stores" => pausing.todo = pausing.over
  /\ pausing.todo \subseteq pausing.over
\* Only a removal that clears the pauses comes to do so.
Reasons ==
  \A c \in Callers :
    /\ call[c].at = "checks" => call[c].why # "delete"
    /\ call[c].at \in {"unstores", "unpauses"} => call[c].why # "background"
\* A pause and a removal of the same torrent have torn it.
Apart == \A h \in Torrents \ torn : h \in pausing.over => ~Removed(h)
\* A removal that is past the stored pause finds none there again.
Past(k) == k.at = "unpauses" \/ (k.at \in Removing /\ k.why = "delete")
Forgotten ==
  \A c \in Callers :
    Past(call[c]) /\ call[c].torrent \notin torn => call[c].torrent \notin stored
\* In between, a pause that is stored has still to reach the rest of its torrents.
Agreed ==
  \A h \in Torrents \ torn : ~Removed(h) =>
    IF pausing.at = "applies" /\ h \in pausing.over
    THEN /\ h \in stored <=> pausing.on
         /\ h \in pausing.todo \/ (h \in paused <=> pausing.on)
    ELSE h \in stored <=> h \in paused
PauseInv == PauseSteps /\ Reasons /\ Apart /\ Forgotten /\ Agreed

\* How a step may move a call for the pauses not to notice: it removes a torrent
\* before and after or neither, and gets past the stored pause only from "delete".
Sound(k) ==
  /\ k.at = "checks" => k.why # "delete"
  /\ k.at \in {"unstores", "unpauses"} => k.why # "background"
Kin(k, l) ==
  /\ \A h \in Torrents : Removal(l, h) <=> Removal(k, h)
  /\ Past(l) => Past(k) /\ l.torrent = k.torrent
  /\ Sound(l)
Unnoticed == \A c \in Callers : Kin(call[c], call'[c])

LEMMA SameKin == ASSUME NEW k, Sound(k) PROVE Kin(k, k)
BY DEF Kin, Sound

LEMMA IdleKin == ASSUME NEW k, k.at \notin Removing PROVE Kin(k, Idle)
BY DEF Kin, Sound, Removal, Past, Idle, NewCall, Removing

LEMMA NewKin ==
    ASSUME NEW k, k.at = "idle", NEW h, NEW e, NEW at \in {"joined", "adds"}, NEW why
    PROVE  Kin(k, NewCall(at, h, why, e))
BY DEF Kin, Sound, Removal, Past, NewCall, Removing

LEMMA JoinsKin ==
    ASSUME NEW k, k.at = "idle", NEW h, NEW why
    PROVE  Kin(k, Joins(h, why))
BY NewKin DEF Joins

LEMMA ChecksKin ==
    ASSUME NEW k, k.at = "idle", NEW h, NEW e
    PROVE  Kin(k, NewCall("checks", h, "release", e))
BY DEF Kin, Sound, Removal, Past, NewCall, Removing

LEMMA AddKin ==
    ASSUME NEW k \in CallType, k.at \in Adding \cup {"joined"}, NEW ok
    PROVE  Kin(k, AfterAdd(k, ok))
<1>1. k.at \notin Removing
  BY DEF Adding, Removing
<1>2. CASE k.why = "background" /\ ok
  <2> DEFINE l == [k EXCEPT !.at = "checks"]
  <2>1. AfterAdd(k, ok) = l /\ l.at = "checks" /\ l.why = "background"
    BY <1>2 DEF AfterAdd, CallType
  <2> QED BY <1>1, <2>1 DEF Kin, Sound, Removal, Past, Removing
<1>3. CASE ~(k.why = "background" /\ ok)
  BY <1>1, <1>3, IdleKin DEF AfterAdd
<1> QED BY <1>2, <1>3

LEMMA ReturnsKin ==
    ASSUME CallsTyped, Reasons, NEW c \in Callers, NEW ok, Returns(c, ok),
           call[c].at \in Adding
    PROVE  Unnoticed
<1> SUFFICES ASSUME NEW d \in Callers PROVE Kin(call[d], call'[d])
  BY DEF Unnoticed
<1>1. call[d] \in CallType
  BY DEF CallsTyped
<1>2. CASE d \in Sharing(c)
  <2>1. call[d].at \in Adding \cup {"joined"}
    BY <1>2 DEF Sharing
  <2>2. call'[d] = AfterAdd(call[d], ok)
    BY <1>2 DEF Returns
  <2> QED BY <1>1, <2>1, <2>2, AddKin
<1>3. CASE d \notin Sharing(c)
  <2>1. call'[d] = call[d]
    BY <1>3 DEF Returns
  <2>2. Sound(call[d])
    BY DEF Reasons, Sound
  <2> QED BY <2>1, <2>2, SameKin
<1> QED BY <1>2, <1>3

LEMMA MovesKin ==
    ASSUME NEW k \in CallType, NEW l \in CallType, l.torrent = k.torrent, l.why = k.why,
           \/ k.at \in Adding /\ l.at \in Adding
           \/ k.at \in Removing \ {"unpauses"} /\ l.at \in Removing \ {"unstores", "unpauses"}
           \/ k.at \in Removing /\ k.why = "release" /\ l.at = "unstores"
           \/ k.at \in Removing /\ k.why = "delete" /\ l.at = "unpauses"
    PROVE  Kin(k, l)
BY DEF Kin, Sound, Removal, Past, Adding, Removing

LEMMA RemoveKin ==
    ASSUME NEW k \in CallType, k.at \in {"drops", "deletes"}, k.why # "add"
    PROVE  Kin(k, AfterRemove(k))
<1>1. k.why \in {"delete", "release", "background"}
  BY DEF CallType
<1>2. CASE k.why = "delete"
  <2> DEFINE l == [k EXCEPT !.at = "unpauses"]
  <2>1. /\ AfterRemove(k) = l /\ l \in CallType
        /\ l.at = "unpauses" /\ l.why = k.why /\ l.torrent = k.torrent
    BY <1>2 DEF AfterRemove, CallType, Removing
  <2>2. k.at \in Removing
    BY DEF Removing
  <2> HIDE DEF l
  <2> QED BY <1>2, <2>1, <2>2, MovesKin
<1>3. CASE k.why = "release"
  <2> DEFINE l == [k EXCEPT !.at = "unstores"]
  <2>1. /\ AfterRemove(k) = l /\ l \in CallType
        /\ l.at = "unstores" /\ l.why = k.why /\ l.torrent = k.torrent
    BY <1>3 DEF AfterRemove, CallType, Removing
  <2>2. k.at \in Removing
    BY DEF Removing
  <2> HIDE DEF l
  <2> QED BY <1>3, <2>1, <2>2, MovesKin
<1>4. CASE k.why = "background"
  <2>1. AfterRemove(k) = Idle
    BY <1>4 DEF AfterRemove
  <2> QED BY <1>4, <2>1 DEF Kin, Sound, Removal, Past, Idle, NewCall, Removing
<1> QED BY <1>1, <1>2, <1>3, <1>4

\* A step that moves the calls of c, and d, alone.
LEMMA OneKin ==
    ASSUME CallsTyped, Reasons, NEW c \in Callers, NEW l,
           call' = [call EXCEPT ![c] = l], Kin(call[c], l)
    PROVE  Unnoticed
<1> SUFFICES ASSUME NEW d \in Callers PROVE Kin(call[d], call'[d])
  BY DEF Unnoticed
<1>1. call'[d] = IF d = c THEN l ELSE call[d]
  BY DEF CallsTyped
<1>2. Sound(call[d])
  BY DEF Reasons, Sound
<1> QED BY <1>1, <1>2, SameKin

LEMMA CallsUnnoticed ==
    ASSUME CallsTyped, Placed, Reasons, NEW c \in Callers,
           \/ Add(c) \/ DeleteTitle(c) \/ Unassign(c)
           \/ AddLoaded(c) \/ AddStarts(c) \/ AddRefused(c)
           \/ RemoveLoaded(c) \/ RemoveStored(c) \/ RemoveAbsent(c)
           \/ AddGetsInfo(c) \/ AddTimesOut(c) \/ AddRegisters(c) \/ AddMaps(c)
           \/ RemoveDrops(c) \/ DeletesPiece(c) \/ RemoveEnds(c)
    PROVE  Unnoticed /\ UNCHANGED <<stored, paused, pausing, torn>>
<1>1. call[c] \in CallType
  BY DEF CallsTyped
<1>2. call \in [Callers -> CallType]
  BY DEF CallsTyped
<1>3. CASE Add(c)
  <2>1. PICK h \in Torrents : call' = [call EXCEPT ![c] = Joins(h, "add")]
    BY <1>3 DEF Add
  <2>2. call[c].at = "idle"
    BY <1>3 DEF Add
  <2>3. Unnoticed
    BY <2>1, <2>2, JoinsKin, OneKin
  <2> QED BY <1>3, <2>3 DEF Add, activityVars, libraryVars
<1>4. CASE DeleteTitle(c) \/ Unassign(c)
  <2>1. PICK h, e : Releases(c, h, e)
    BY <1>4 DEF DeleteTitle, Unassign
  <2>2. call[c].at = "idle" /\ call' = [call EXCEPT ![c] = NewCall("checks", h, "release", e)]
    BY <2>1 DEF Releases
  <2>3. Unnoticed
    BY <2>2, ChecksKin, OneKin
  <2> QED BY <2>1, <2>3 DEF Releases, activityVars
<1>5. CASE AddLoaded(c)
  <2>1. call[c].at \in Adding /\ Returns(c, TRUE)
    BY <1>5 DEF AddLoaded, Adding
  <2> QED BY <1>5, <2>1, ReturnsKin DEF AddLoaded, activityVars, libraryVars
<1>6. CASE AddRefused(c)
  <2>1. call[c].at \in Adding /\ Returns(c, FALSE)
    BY <1>6 DEF AddRefused, Adding
  <2> QED BY <1>6, <2>1, ReturnsKin DEF AddRefused, activityVars, libraryVars
<1>7. CASE AddTimesOut(c)
  <2>1. call[c].at \in Adding /\ Returns(c, FALSE)
    BY <1>7 DEF AddTimesOut, Adding
  <2> QED BY <1>7, <2>1, ReturnsKin DEF AddTimesOut, activityVars, libraryVars
<1>8. CASE AddMaps(c)
  <2>1. call[c].at \in Adding /\ Returns(c, TRUE)
    BY <1>8 DEF AddMaps, Adding
  <2> QED BY <1>8, <2>1, ReturnsKin DEF AddMaps, activityVars, libraryVars
<1>9. CASE AddStarts(c)
  <2> DEFINE l == [call[c] EXCEPT !.at = "waits", !.fresh = metainfo[call[c].torrent] # "stored"]
  <2>1. call' = [call EXCEPT ![c] = l] /\ call[c].at \in Adding
    BY <1>2, <1>9 DEF AddStarts, Adding
  <2>2. /\ l \in CallType /\ l.torrent = call[c].torrent /\ l.why = call[c].why
        /\ l.at \in Adding
    BY <1>1 DEF CallType, Adding
  <2> HIDE DEF l
  <2>3. Kin(call[c], l)
    BY <1>1, <2>1, <2>2, MovesKin
  <2> QED BY <1>9, <2>1, <2>3, OneKin DEF AddStarts, activityVars, libraryVars
<1>10. CASE AddGetsInfo(c)
  <2> DEFINE l == [call[c] EXCEPT !.at = "registers", !.fresh = FALSE]
  <2>1. call' = [call EXCEPT ![c] = l] /\ call[c].at \in Adding
    BY <1>2, <1>10 DEF AddGetsInfo, Adding
  <2>2. /\ l \in CallType /\ l.torrent = call[c].torrent /\ l.why = call[c].why
        /\ l.at \in Adding
    BY <1>1 DEF CallType, Adding
  <2> HIDE DEF l
  <2>3. Kin(call[c], l)
    BY <1>1, <2>1, <2>2, MovesKin
  <2> QED BY <1>10, <2>1, <2>3, OneKin DEF AddGetsInfo, activityVars, libraryVars
<1>11. CASE AddRegisters(c)
  <2> DEFINE l == [call[c] EXCEPT !.at = "maps"]
  <2>1. call' = [call EXCEPT ![c] = l] /\ call[c].at \in Adding
    BY <1>2, <1>11 DEF AddRegisters, Adding
  <2>2. /\ l \in CallType /\ l.torrent = call[c].torrent /\ l.why = call[c].why
        /\ l.at \in Adding
    BY <1>1 DEF CallType, Adding
  <2> HIDE DEF l
  <2>3. Kin(call[c], l)
    BY <1>1, <2>1, <2>2, MovesKin
  <2> QED BY <1>11, <2>1, <2>3, OneKin DEF AddRegisters, libraryVars
<1>12. CASE RemoveLoaded(c)
  <2> DEFINE l == [call[c] EXCEPT !.at = "unmapped", !.left = ToErase(c)]
  <2>1. call' = [call EXCEPT ![c] = l] /\ call[c].at \in Removing \ {"unpauses"}
    BY <1>2, <1>12 DEF RemoveLoaded, Removing
  <2>2. /\ l \in CallType /\ l.torrent = call[c].torrent /\ l.why = call[c].why
        /\ l.at \in Removing \ {"unstores", "unpauses"}
    BY <1>1 DEF CallType, Removing, ToErase
  <2> HIDE DEF l
  <2>3. Kin(call[c], l)
    BY <1>1, <2>1, <2>2, MovesKin
  <2> QED BY <1>12, <2>1, <2>3, OneKin DEF RemoveLoaded, activityVars, libraryVars
<1>13. CASE RemoveDrops(c)
  <2> DEFINE l == [call[c] EXCEPT !.at = "deletes"]
  <2>1. call' = [call EXCEPT ![c] = l] /\ call[c].at \in Removing \ {"unpauses"}
    BY <1>2, <1>13 DEF RemoveDrops, Removing
  <2>2. /\ l \in CallType /\ l.torrent = call[c].torrent /\ l.why = call[c].why
        /\ l.at \in Removing \ {"unstores", "unpauses"}
    BY <1>1 DEF CallType, Removing
  <2> HIDE DEF l
  <2>3. Kin(call[c], l)
    BY <1>1, <2>1, <2>2, MovesKin
  <2> QED BY <1>13, <2>1, <2>3, OneKin DEF RemoveDrops, libraryVars
<1>14. CASE RemoveStored(c) \/ DeletesPiece(c)
  <2>1. call' = [call EXCEPT ![c] = call'[c]] /\ SameRemoval(call[c], call'[c])
    <3>1. CASE RemoveStored(c)
      BY <3>1, StoredCall
    <3>2. CASE DeletesPiece(c)
      BY <3>2, PieceCall
    <3> QED BY <1>14, <3>1, <3>2
  <2>2. call[c].at \in Removing \ {"unpauses"}
    BY <1>14, StoredCall, PieceCall DEF Removing
  <2>3. Kin(call[c], call'[c])
    BY <1>1, <2>1, <2>2, MovesKin DEF SameRemoval, Removing
  <2>4. UNCHANGED <<stored, paused, pausing, torn>>
    BY <1>14 DEF RemoveStored, DeletesPiece, activityVars, libraryVars
  <2> QED BY <2>1, <2>3, <2>4, OneKin
<1>15. CASE RemoveEnds(c)
  <2>1. call' = [call EXCEPT ![c] = AfterRemove(call[c])] /\ call[c].at \in {"drops", "deletes"}
    BY <1>2, <1>15 DEF RemoveEnds
  <2>2. call[c].why # "add"
    BY <2>1 DEF Placed, Removing
  <2>3. Kin(call[c], AfterRemove(call[c]))
    BY <1>1, <2>1, <2>2, RemoveKin
  <2> QED BY <1>15, <2>1, <2>3, OneKin DEF RemoveEnds, activityVars, libraryVars
<1>16. CASE RemoveAbsent(c)
  <2>1. call[c].at \in {"drops", "deletes"}
    BY <1>16 DEF RemoveAbsent
  <2>2. call[c].why # "add"
    BY <2>1 DEF Placed, Removing
  <2>3. Kin(call[c], AfterRemove(call[c]))
    BY <1>1, <2>1, <2>2, RemoveKin
  <2>4. UNCHANGED <<stored, paused, pausing, torn>>
    BY <1>16 DEF RemoveAbsent, activityVars, libraryVars
  <2>5. CASE call' = [call EXCEPT ![c] = AfterRemove(@)]
    <3>1. call' = [call EXCEPT ![c] = AfterRemove(call[c])]
      BY <1>2, <2>5
    <3> QED BY <3>1, <2>3, <2>4, OneKin
  <2>6. ASSUME NEW d \in Callers, call[d].at = "idle",
               call' = [call EXCEPT ![c] = AfterRemove(@),
                                    ![d] = Joins(call[c].torrent, "background")]
        PROVE  Unnoticed
    <3> SUFFICES ASSUME NEW e \in Callers PROVE Kin(call[e], call'[e])
      BY DEF Unnoticed
    <3>1. call'[e] = IF e = d THEN Joins(call[c].torrent, "background")
                     ELSE IF e = c THEN AfterRemove(call[c]) ELSE call[e]
      BY <1>2, <2>1, <2>6
    <3>2. Sound(call[e])
      BY DEF Reasons, Sound
    <3> QED BY <3>1, <3>2, <2>3, <2>6, JoinsKin, SameKin
  <2> QED BY <1>16, <2>4, <2>5, <2>6 DEF RemoveAbsent
<1> QED
  BY <1>3, <1>4, <1>5, <1>6, <1>7, <1>8, <1>9, <1>10, <1>11, <1>12, <1>13, <1>14, <1>15, <1>16

\* A step whose calls the pauses do not notice, and that leaves them alone, keeps it all.
LEMMA UnnoticedKeeps ==
    ASSUME PauseInv, Unnoticed, UNCHANGED <<stored, paused, pausing, torn>>
    PROVE  PauseInv'
<1>1. \A h \in Torrents : Removed(h)' <=> Removed(h)
  BY DEF Removed, Unnoticed, Kin
<1>2. PauseSteps'
  BY DEF PauseInv, PauseSteps
<1>3. Reasons'
  BY DEF Reasons, Unnoticed, Kin, Sound
<1>4. Apart'
  BY <1>1 DEF PauseInv, Apart
<1>5. Forgotten'
  BY DEF PauseInv, Forgotten, Unnoticed, Kin
<1>6. Agreed'
  BY <1>1 DEF PauseInv, Agreed
<1> QED BY <1>2, <1>3, <1>4, <1>5, <1>6 DEF PauseInv

LEMMA PauseInit == Init => PauseInv
<1> SUFFICES ASSUME Init PROVE PauseInv
  OBVIOUS
<1>1. \A c \in Callers : call[c] = Idle
  BY DEF Init
<1>2. Idle.at = "idle"
  BY DEF Idle, NewCall
<1>3. pausing.at = "idle" /\ pausing.over = {} /\ pausing.todo = {}
  BY DEF Init, NoPausing
<1> QED
  BY <1>1, <1>2, <1>3 DEF Init, PauseInv, PauseSteps, Reasons, Apart, Forgotten, Past, Agreed,
    Removing

\* Delete forgets the stored pause as its removal starts.
LEMMA DeletePauses ==
    ASSUME CallsTyped, RestTyped, PauseInv, NEW c \in Callers, Delete(c)
    PROVE  PauseInv'
<1>1. PICK h \in loaded \cup known, e \in BOOLEAN :
        /\ stored' = stored \ {h}
        /\ call' = [call EXCEPT ![c] = NewCall("drops", h, "delete", e)]
        /\ torn' = torn \cup Overlap(call', pausing)
  BY DEF Delete
<1> DEFINE l == NewCall("drops", h, "delete", e)
<1>2. /\ l.at = "drops" /\ l.torrent = h /\ l.why = "delete"
      /\ call[c].at = "idle" /\ UNCHANGED <<paused, pausing>>
  BY DEF Delete, NewCall, activityVars
<1> HIDE DEF l
<1>3. \A d \in Callers : call'[d] = IF d = c THEN l ELSE call[d]
  BY <1>1 DEF CallsTyped, l
<1>4. \A g \in Torrents : Removed(g)' <=> Removed(g) \/ g = h
  BY <1>2, <1>3 DEF Removed, Removal, Removing
<1>5. PauseSteps'
  BY <1>2 DEF PauseInv, PauseSteps
<1>6. Reasons'
  BY <1>2, <1>3 DEF PauseInv, Reasons
<1>7. \A g \in pausing.over : Removed(g)' => g \in torn'
  BY <1>1 DEF Overlap, Removed, Removal
<1>8. Apart'
  BY <1>2, <1>7 DEF Apart
<1>9. Forgotten'
  BY <1>1, <1>2, <1>3 DEF PauseInv, Forgotten, Past
<1>10. Agreed'
  BY <1>1, <1>2, <1>4 DEF PauseInv, Agreed
<1> QED BY <1>5, <1>6, <1>8, <1>9, <1>10 DEF PauseInv

\* A release found nothing that uses the torrent: its removal starts.
LEMMA ChecksPauses ==
    ASSUME CallsTyped, RestTyped, Placed, PauseInv, NEW c \in Callers, ChecksUse(c)
    PROVE  PauseInv'
<1> DEFINE m == [call[c] EXCEPT !.at = "drops", !.erase = @ \/ call[c].why = "background"]
<1>1. PICK l \in {Idle, m} :
        /\ call' = [call EXCEPT ![c] = l]
        /\ torn' = torn \cup Overlap(call', pausing)
  BY DEF ChecksUse
<1>2. call[c].at = "checks" /\ UNCHANGED <<stored, paused, pausing>>
  BY DEF ChecksUse, activityVars, libraryVars
<1>3. /\ l.at \in {"idle", "drops"}
      /\ l.at = "drops" => l.torrent = call[c].torrent /\ l.why = call[c].why
  <2>1. call[c] \in CallType
    BY DEF CallsTyped
  <2>2. m.at = "drops" /\ m.torrent = call[c].torrent /\ m.why = call[c].why
    BY <2>1 DEF CallType
  <2>3. l = Idle \/ l = m
    BY <1>1
  <2>4. Idle.at = "idle"
    BY DEF Idle, NewCall
  <2> HIDE DEF m
  <2> QED BY <2>2, <2>3, <2>4
<1>4. call[c].why # "delete"
  BY <1>2 DEF PauseInv, Reasons
<1> HIDE DEF m
<1>5. \A d \in Callers : call'[d] = IF d = c THEN l ELSE call[d]
  BY <1>1 DEF CallsTyped
<1>6. \A g \in Torrents : Removed(g) => Removed(g)'
  BY <1>2, <1>5 DEF Removed, Removal, Removing
<1>7. PauseSteps'
  BY <1>2 DEF PauseInv, PauseSteps
<1>8. Reasons'
  BY <1>3, <1>5 DEF PauseInv, Reasons
<1>9. \A g \in pausing.over : Removed(g)' => g \in torn'
  BY <1>1 DEF Overlap, Removed, Removal
<1>10. Apart'
  BY <1>2, <1>9 DEF Apart
<1>11. ~Past(l)
  BY <1>3, <1>4 DEF Past, Removing
<1>12. Forgotten'
  BY <1>1, <1>2, <1>5, <1>11 DEF PauseInv, Forgotten
<1>13. Agreed'
  BY <1>1, <1>2, <1>6 DEF PauseInv, Agreed
<1> QED BY <1>7, <1>8, <1>10, <1>12, <1>13 DEF PauseInv

\* It forgets the stored pause, or fails to and leaves it torn.
LEMMA UnstoresPauses ==
    ASSUME CallsTyped, RestTyped, Placed, PauseInv, NEW c \in Callers, Unstores(c)
    PROVE  PauseInv'
<1> DEFINE h == call[c].torrent
           l == [call[c] EXCEPT !.at = "unpauses"]
<1>1. /\ call[c].at = "unstores" /\ call' = [call EXCEPT ![c] = l]
      /\ \/ stored' = stored \ {h} /\ torn' = torn
         \/ stored' = stored /\ torn' = torn \cup {h}
      /\ UNCHANGED <<paused, pausing>>
  <2>1. call' = [call EXCEPT ![c] = l]
    BY DEF Unstores, CallsTyped
  <2> QED BY <2>1 DEF Unstores, activityVars
<1>2. l.at = "unpauses" /\ l.torrent = h /\ l.why = call[c].why
  BY DEF CallsTyped, CallType
<1>3. h \in Torrents
  BY <1>1 DEF Placed
<1>4. call[c].why # "background"
  BY <1>1 DEF PauseInv, Reasons
<1> HIDE DEF h, l
<1>5. \A d \in Callers : call'[d] = IF d = c THEN l ELSE call[d]
  BY <1>1 DEF CallsTyped
<1>6. Removal(call[c], h) /\ Removal(call'[c], h)
  BY <1>1, <1>2, <1>4, <1>5 DEF h, Removal, Removing
<1>7. \A g \in Torrents : Removed(g)' <=> Removed(g)
  BY <1>1, <1>2, <1>5 DEF h, Removed, Removal, Removing
<1>8. Removed(h)
  BY <1>6 DEF Removed
<1>9. PauseSteps'
  BY <1>1 DEF PauseInv, PauseSteps
<1>10. Reasons'
  BY <1>2, <1>4, <1>5 DEF PauseInv, Reasons
<1>11. Apart'
  BY <1>1, <1>7 DEF PauseInv, Apart
<1>12. Forgotten'
  BY <1>1, <1>2, <1>5 DEF PauseInv, Forgotten, Past
<1>13. Agreed'
  BY <1>1, <1>7, <1>8 DEF PauseInv, Agreed
<1> QED BY <1>9, <1>10, <1>11, <1>12, <1>13 DEF PauseInv

\* The client forgets the pause that the database has forgotten.
LEMMA UnpausesPauses ==
    ASSUME CallsTyped, RestTyped, Placed, PauseInv, NEW c \in Callers, Unpauses(c)
    PROVE  PauseInv'
<1> DEFINE h == call[c].torrent
<1>1. /\ call[c].at = "unpauses" /\ call' = [call EXCEPT ![c] = Idle]
      /\ paused' = paused \ {h} /\ UNCHANGED <<stored, pausing, torn>>
  BY DEF Unpauses, Resume, libraryVars
<1>2. h \in Torrents
  BY <1>1 DEF Placed
<1>3. call[c].why # "background"
  BY <1>1 DEF PauseInv, Reasons
<1>4. Removed(h)
  BY <1>1, <1>3 DEF Removed, Removal, Removing
<1>5. h \notin torn => h \notin stored
  BY <1>1 DEF PauseInv, Forgotten, Past
<1> HIDE DEF h
<1>6. \A d \in Callers : call'[d] = IF d = c THEN Idle ELSE call[d]
  BY <1>1 DEF CallsTyped
<1>7. Idle.at = "idle"
  BY DEF Idle, NewCall
<1>8. \A g \in Torrents : Removed(g)' => Removed(g)
  BY <1>6, <1>7 DEF Removed, Removal, Removing
<1>9. \A g \in Torrents \ {h} : Removed(g)' <=> Removed(g)
  BY <1>6, <1>7 DEF h, Removed, Removal, Removing
<1>10. PauseSteps'
  BY <1>1 DEF PauseInv, PauseSteps
<1>11. Reasons'
  BY <1>6, <1>7 DEF PauseInv, Reasons
<1>12. Apart'
  BY <1>1, <1>8 DEF PauseInv, Apart
<1>13. Forgotten'
  BY <1>1, <1>6, <1>7 DEF PauseInv, Forgotten, Past, Removing
<1>14. Agreed'
  <2> SUFFICES ASSUME NEW g \in Torrents \ torn, ~Removed(g)'
      PROVE  IF pausing.at = "applies" /\ g \in pausing.over
             THEN /\ g \in stored <=> pausing.on
                  /\ g \in pausing.todo \/ (g \in paused' <=> pausing.on)
             ELSE g \in stored <=> g \in paused'
    BY <1>1 DEF Agreed
  <2>1. CASE g = h
    <3>1. g \notin pausing.over
      BY <1>4, <2>1 DEF PauseInv, Apart
    <3> QED BY <1>1, <1>5, <2>1, <3>1
  <2>2. CASE g # h
    BY <1>1, <1>9, <2>2 DEF PauseInv, Agreed
  <2> QED BY <2>1, <2>2
<1> QED BY <1>10, <1>11, <1>12, <1>13, <1>14 DEF PauseInv

LEMMA BeginsPauses ==
    ASSUME RestTyped, PauseInv, NEW on, NEW S, Begins(on, S)
    PROVE  PauseInv'
<1>1. /\ pausing.at = "idle" /\ pausing' = [at |-> "stores", on |-> on, over |-> S, todo |-> S]
      /\ torn' = torn \cup Overlap(call, pausing') /\ UNCHANGED <<call, stored, paused>>
  BY DEF Begins, serviceVars, activityVars, libraryVars
<1>2. pausing'.at = "stores" /\ pausing'.over = S /\ pausing'.todo = S
  BY <1>1
<1>3. \A g \in Torrents : Removed(g)' <=> Removed(g)
  BY <1>1 DEF Removed
<1>4. \A g \in S : Removed(g) => g \in torn'
  BY <1>1, <1>2 DEF Overlap, Removed, Removal
<1>5. PauseSteps'
  BY <1>2 DEF PauseSteps
<1>6. Reasons'
  BY <1>1 DEF PauseInv, Reasons
<1>7. Apart'
  BY <1>2, <1>3, <1>4 DEF Apart
<1>8. Forgotten'
  BY <1>1 DEF PauseInv, Forgotten
<1>9. Agreed'
  BY <1>1, <1>2, <1>3 DEF PauseInv, Agreed, PauseSteps
<1> QED BY <1>5, <1>6, <1>7, <1>8, <1>9 DEF PauseInv

LEMMA StoresPauses ==
    ASSUME RestTyped, PauseInv, PauseStores
    PROVE  PauseInv'
<1>1. pausing.at = "stores" /\ UNCHANGED <<call, paused, torn>>
  BY DEF PauseStores, serviceVars, activityVars
<1>2. \A g \in Torrents : Removed(g)' <=> Removed(g)
  BY <1>1 DEF Removed
<1>3. Reasons'
  BY <1>1 DEF PauseInv, Reasons
<1>4. pausing.todo = pausing.over
  BY <1>1 DEF PauseInv, PauseSteps
<1>5. CASE /\ stored' = IF pausing.on THEN stored \cup pausing.over ELSE stored \ pausing.over
           /\ pausing' = [pausing EXCEPT !.at = "applies"]
  <2>1. /\ pausing'.at = "applies" /\ pausing'.on = pausing.on
        /\ pausing'.over = pausing.over /\ pausing'.todo = pausing.todo
    BY <1>5 DEF RestTyped, PausingType
  <2>2. PauseSteps'
    BY <1>4, <2>1 DEF PauseSteps
  <2>3. Apart'
    BY <1>1, <1>2, <2>1 DEF PauseInv, Apart
  <2>4. Forgotten'
    <3> SUFFICES ASSUME NEW c \in Callers, Past(call[c]), call[c].torrent \notin torn
                 PROVE  call[c].torrent \notin stored'
      BY <1>1 DEF Forgotten
    <3>1. call[c].torrent \notin stored
      BY DEF PauseInv, Forgotten
    <3>2. call[c].torrent \notin pausing.over
      <4> SUFFICES ASSUME call[c].torrent \in pausing.over PROVE FALSE
        OBVIOUS
      <4>1. call[c].torrent \in Torrents
        BY DEF RestTyped, PausingType
      <4>2. call[c].why # "background" /\ call[c].at \in Removing
        BY DEF PauseInv, Reasons, Past, Removing
      <4>3. Removed(call[c].torrent)
        BY <4>2 DEF Removed, Removal
      <4> QED BY <4>1, <4>3 DEF PauseInv, Apart
    <3> QED BY <1>5, <3>1, <3>2
  <2>5. Agreed'
    BY <1>1, <1>2, <1>4, <1>5, <2>1 DEF PauseInv, Agreed
  <2> QED BY <1>3, <2>2, <2>3, <2>4, <2>5 DEF PauseInv
<1>6. CASE pausing' = NoPausing /\ UNCHANGED stored
  <2>1. pausing'.at = "idle" /\ pausing'.over = {} /\ pausing'.todo = {}
    BY <1>6 DEF NoPausing
  <2>2. PauseSteps'
    BY <2>1 DEF PauseSteps
  <2>3. Apart'
    BY <2>1 DEF Apart
  <2>4. Forgotten'
    BY <1>1, <1>6 DEF PauseInv, Forgotten
  <2>5. Agreed'
    BY <1>1, <1>2, <1>6, <2>1 DEF PauseInv, Agreed
  <2> QED BY <1>3, <2>2, <2>3, <2>4, <2>5 DEF PauseInv
<1> QED BY <1>5, <1>6 DEF PauseStores

LEMMA AppliesPauses ==
    ASSUME RestTyped, PauseInv, PauseApplies
    PROVE  PauseInv'
<1>1. pausing.at = "applies" /\ UNCHANGED <<call, stored, torn>>
  BY DEF PauseApplies, libraryVars
<1>2. PICK h \in pausing.todo :
        /\ IF pausing.on THEN Pause(h) ELSE Resume(h)
        /\ pausing' = IF pausing.todo = {h} THEN NoPausing
                      ELSE [pausing EXCEPT !.todo = @ \ {h}]
  BY DEF PauseApplies
<1>3. paused' = IF pausing.on THEN paused \cup {h} ELSE paused \ {h}
  BY <1>2 DEF Pause, Resume
<1>4. h \in pausing.over
  BY DEF PauseInv, PauseSteps
<1>5. \A g \in Torrents : Removed(g)' <=> Removed(g)
  BY <1>1 DEF Removed
<1>6. Reasons' /\ Forgotten'
  BY <1>1 DEF PauseInv, Reasons, Forgotten
<1>7. CASE pausing.todo = {h}
  <2>1. pausing'.at = "idle" /\ pausing'.over = {} /\ pausing'.todo = {}
    BY <1>2, <1>7 DEF NoPausing
  <2>2. PauseSteps' /\ Apart'
    BY <2>1 DEF PauseSteps, Apart
  <2>3. Agreed'
    BY <1>1, <1>3, <1>4, <1>5, <1>7, <2>1 DEF PauseInv, Agreed
  <2> QED BY <1>6, <2>2, <2>3 DEF PauseInv
<1>8. CASE pausing.todo # {h}
  <2>1. /\ pausing'.at = "applies" /\ pausing'.on = pausing.on
        /\ pausing'.over = pausing.over /\ pausing'.todo = pausing.todo \ {h}
    BY <1>1, <1>2, <1>8 DEF RestTyped, PausingType
  <2>2. PauseSteps'
    BY <2>1 DEF PauseInv, PauseSteps
  <2>3. Apart'
    BY <1>1, <1>5, <2>1 DEF PauseInv, Apart
  <2>4. Agreed'
    BY <1>1, <1>3, <1>4, <1>5, <2>1 DEF PauseInv, Agreed
  <2> QED BY <1>6, <2>2, <2>3, <2>4 DEF PauseInv
<1> QED BY <1>7, <1>8

\* The start brings back the stored pauses or, unread, tears them all.
LEMMA RestartPauses == ASSUME Restart PROVE PauseInv'
<1>1. \A c \in Callers : call'[c] = Idle
  BY DEF Restart
<1>2. Idle.at = "idle"
  BY DEF Idle, NewCall
<1>3. pausing'.at = "idle" /\ pausing'.over = {} /\ pausing'.todo = {}
  BY DEF Restart, NoPausing
<1>4. stored' = paused' \/ torn' = Torrents
  BY DEF Restart, RestorePauses
<1> QED
  BY <1>1, <1>2, <1>3, <1>4 DEF PauseInv, PauseSteps, Reasons, Apart, Forgotten, Past, Agreed,
    Removing, Removed, Removal

LEMMA PauseNext ==
    ASSUME IInv, IInv', PauseInv, [Next]_vars
    PROVE  PauseInv'
<1>1. CallsTyped /\ RestTyped /\ Placed
  BY TypedParts DEF IInv
<1>2. Reasons
  BY DEF PauseInv
<1>3. ASSUME NEW c \in Callers, Calls(c) PROVE PauseInv'
  <2>1. CASE Delete(c)
    BY <1>1, <2>1, DeletePauses
  <2>2. CASE Add(c) \/ DeleteTitle(c) \/ Unassign(c)
    <3>1. Unnoticed /\ UNCHANGED <<stored, paused, pausing, torn>>
      BY <1>1, <1>2, <2>2, CallsUnnoticed
    <3> QED BY <3>1, UnnoticedKeeps
  <2> QED BY <1>3, <2>1, <2>2 DEF Calls
<1>4. ASSUME NEW c \in Callers, Locks(c) PROVE PauseInv'
  <2>1. Unnoticed /\ UNCHANGED <<stored, paused, pausing, torn>>
    BY <1>1, <1>2, <1>4, CallsUnnoticed DEF Locks
  <2> QED BY <2>1, UnnoticedKeeps
<1>5. ASSUME NEW c \in Callers, Works(c) PROVE PauseInv'
  <2>1. CASE ChecksUse(c)
    BY <1>1, <2>1, ChecksPauses
  <2>2. CASE Unstores(c)
    BY <1>1, <2>2, UnstoresPauses
  <2>3. CASE Unpauses(c)
    BY <1>1, <2>3, UnpausesPauses
  <2>4. CASE \/ AddGetsInfo(c) \/ AddTimesOut(c) \/ AddRegisters(c) \/ AddMaps(c)
             \/ RemoveDrops(c) \/ DeletesPiece(c) \/ RemoveEnds(c)
    <3>1. Unnoticed /\ UNCHANGED <<stored, paused, pausing, torn>>
      BY <1>1, <1>2, <2>4, CallsUnnoticed
    <3> QED BY <3>1, UnnoticedKeeps
  <2> QED BY <1>5, <2>1, <2>2, <2>3, <2>4 DEF Works
<1>6. CASE SetPaused \/ PauseAll \/ ResumeAll
  BY <1>1, <1>6, BeginsPauses DEF SetPaused, PauseAll, ResumeAll
<1>7. CASE PauseStores
  BY <1>1, <1>7, StoresPauses
<1>8. CASE PauseApplies
  BY <1>1, <1>8, AppliesPauses
<1>9. CASE Restart
  BY <1>9, RestartPauses
<1>10. CASE \/ \E h \in Torrents :
                 MarkActive(h) \/ Ages(h) \/ LibraryUses(h) \/ LibraryLeaves(h) \/ Fetches(h)
            \/ IdleCollects \/ IdleApplies \/ UNCHANGED vars
  <2>1. UNCHANGED <<call, stored, paused, pausing, torn>>
    BY <1>10 DEF MarkActive, Ages, LibraryUses, LibraryLeaves, Fetches, IdleCollects,
      IdleApplies, serviceVars, activityVars, libraryVars, vars
  <2>2. Unnoticed
    BY <1>2, <2>1, SameKin DEF Unnoticed, Reasons, Sound
  <2> QED BY <2>1, <2>2, UnnoticedKeeps
<1> QED
  BY <1>3, <1>4, <1>5, <1>6, <1>7, <1>8, <1>9, <1>10 DEF Next

(* The stored pauses and the client's end up the same whatever pauses,     *)
(* resumes, removals and restarts interleave, but for the torrents that    *)
(* torn names (activity.Service's comment on writes; forgetPause).         *)
THEOREM PausesEndTheSame == Spec => []PausesAgree
<1>1. Init => PauseInv
  BY PauseInit
<1>2. IInv /\ IInv' /\ PauseInv /\ [Next]_vars => PauseInv'
  BY PauseNext
<1>3. Spec => []PauseInv
  BY <1>1, <1>2, Inductive, PTL DEF Spec
<1>4. IInv /\ PauseInv => PausesAgree
  BY DEF PauseInv, Agreed, Removed, Removal, PausesAgree, Settled
<1> QED BY <1>3, <1>4, Inductive, PTL
=============================================================================
