-------------------------- MODULE DownloadsProofs --------------------------
(***************************************************************************)
(* What the run of Downloads checks on one torrent, proved for any         *)
(* torrents, files and pieces: the type invariant, that the cache evicts   *)
(* nothing of a file that stays admitted, and that only slots fetch.       *)
(*                                                                         *)
(* The first argument follows the pins: PlanInv says what a pass carries   *)
(* of the files that stay admitted from its reads to its end, PinsInv that *)
(* the cache has the pins the manager remembers, and that they cover those *)
(* files from the first pass on; before it the trims are held.  The second *)
(* follows the priorities: PriorityInv says that the manager remembers     *)
(* every file at Normal, and of what torrents they are.                    *)
(*                                                                         *)
(* Then that the slots of the planner (DownloadSlots) rotate, for any      *)
(* torrents, slots and times: SlotInv ties the time a torrent has had its  *)
(* slot with nothing arriving to the two ages its stall is told by.        *)
(***************************************************************************)
EXTENDS Downloads, DownloadSlots, FiniteSetTheorems, TLAPS

USE DownloadsAssumption

PlanIsRead == phase \in {"planning", "pinning", "driving"}

PlanInv ==
    /\ safe \subseteq kept
    /\ PlanIsRead => safe \subseteq plan.files
    /\ \A f \in safe : TorrentOf[f] \in metainfo \cup maps
    /\ plan.refs \subseteq maps
    /\ phase \in {"pinning", "driving"} => \A f \in safe : TorrentOf[f] \in plan.refs
    /\ phase = "driving" => restored /\ ToPin = {}

PinsInv ==
    /\ \A t \in Torrent : owners[t] = PiecesIn(pinned[t])
    /\ restored => \A f \in safe : f \in pinned[TorrentOf[f]]
    /\ ~restored /\ ~fellBack /\ phase # "off" => held
    /\ phase = "off" => ~busy /\ ~restored /\ loaded = {} /\ removing = {} /\ loading = {}

IInv == TypeOK /\ PlanInv /\ PinsInv

-----------------------------------------------------------------------------
LEMMA PiecesInType ==
    ASSUME NEW files \in SUBSET File
    PROVE  PiecesIn(files) \in SUBSET Piece
BY DEF PiecesIn

LEMMA FilesOfType ==
    ASSUME NEW t, NEW files \in SUBSET File
    PROVE  FilesOf(t, files) \in SUBSET File
BY DEF FilesOf

LEMMA KeyOfType ==
    ASSUME TypeOK, NEW t
    PROVE  KeyOf(t) \in SUBSET File /\ PiecesIn(KeyOf(t)) \in SUBSET Piece
BY FilesOfType, PiecesInType DEF TypeOK, KeyOf

LEMMA ItemType ==
    ASSUME NEW i \in Piece
    PROVE  <<i, "complete">> \in Key
BY DEF Key

-----------------------------------------------------------------------------
(* Types.                                                                  *)

LEMMA NoPlanType ==
    NoPlan \in [files : SUBSET File, live : SUBSET Torrent, refs : SUBSET Torrent,
                have : SUBSET Piece, slots : SUBSET Torrent, loads : BOOLEAN]
BY DEF NoPlan

LEMMA InitTypes == Init => TypeOK
<1> SUFFICES ASSUME Init PROVE TypeOK
  OBVIOUS
<1>1. NoFiles \in [Torrent -> SUBSET File]
  BY DEF NoFiles
<1>2. owners \in [Torrent -> SUBSET Piece]
  BY DEF Init
<1>3. store \subseteq Key /\ kept \subseteq File /\ metainfo \subseteq Torrent /\ safe \subseteq File
  BY DEF Init
<1>4. changes \in 0..MaxChanges
  BY DEF Init
<1> QED BY <1>1, <1>2, <1>3, <1>4, NoPlanType DEF Init, TypeOK

LEMMA NextTypes == TypeOK /\ [Next]_vars => TypeOK'
<1> SUFFICES ASSUME TypeOK, [Next]_vars PROVE TypeOK'
  OBVIOUS
<1> USE DEF TypeOK, library, cache, client, memory, pass, loads, history
<1>1. CASE DeferTrim
  BY <1>1 DEF DeferTrim, Cache!Hold
<1>2. CASE PassReads
  BY <1>2 DEF PassReads, NoPlan
<1>3. CASE PassFails
  BY <1>3 DEF PassFails, NoPlan, Change
<1>4. CASE PassLooks
  <2> DEFINE refs == Wanted \cap maps'
             have == {i \in PiecesIn({f \in plan.files : TorrentOf[f] \in refs}) : InCache(i)}
             done(t) == t \in refs /\ PiecesIn(KeyOf(t)) \subseteq have
             slots == {t \in Wanted \ waiting : ~done(t)}
  <2>1. Wanted \subseteq Torrent /\ maps' \subseteq Torrent
    BY <1>4 DEF PassLooks, Wanted
  <2>2. have \subseteq Piece
    BY PiecesInType
  <2>3. refs \subseteq Torrent /\ slots \subseteq Torrent
    BY <2>1
  <2>4. plan' = [plan EXCEPT !.refs = refs, !.have = have, !.slots = slots]
    BY <1>4 DEF PassLooks
  <2> HIDE DEF refs, have, slots
  <2>5. plan' \in [files : SUBSET File, live : SUBSET Torrent, refs : SUBSET Torrent,
                   have : SUBSET Piece, slots : SUBSET Torrent, loads : BOOLEAN]
    BY <2>2, <2>3, <2>4
  <2> QED BY <1>4, <2>1, <2>5 DEF PassLooks
<1>5. CASE PassPinned
  BY <1>5 DEF PassPinned, Wanted, Cache!Release
<1>6. CASE PassEnds
  <2>1. /\ prevKey' \in [Torrent -> SUBSET File] /\ resynced' \in [Torrent -> SUBSET File]
        /\ normal' \in [Torrent -> SUBSET File]
    BY <1>6, KeyOfType DEF PassEnds
  <2> QED BY <1>6, <2>1 DEF PassEnds, NoPlan
<1>7. CASE MakesRoom
  BY <1>7 DEF MakesRoom, Evicts, Cache!Evict, Cache!MayMakeRoom, Cache!Rests
<1>8. CASE Trims
  BY <1>8 DEF Trims, Cache!Trim
<1>9. CASE Fallback
  BY <1>9 DEF Fallback, Cache!Release
<1>10. CASE Restart
  <2>1. NoFiles \in [Torrent -> SUBSET File]
    BY DEF NoFiles
  <2>2. owners' \in [Torrent -> SUBSET Piece]
    BY <1>10 DEF Restart, Cache!Restart
  <2>3. UNCHANGED <<kept, waiting, store, metainfo>> /\ changes' \in 0..MaxChanges
    BY <1>10 DEF Restart, Change
  <2>4. safe' \subseteq File
    BY <1>10, <2>3 DEF Restart
  <2> QED BY <1>10, <2>1, <2>2, <2>3, <2>4, NoPlanType DEF Restart, Cache!Restart, Fresh
<1>11. ASSUME NEW t \in Torrent, PinTorrent(t) PROVE TypeOK'
  BY <1>11, KeyOfType DEF PinTorrent, Cache!Pin
<1>12. ASSUME NEW t \in Torrent, UnpinTorrent(t) PROVE TypeOK'
  BY <1>12 DEF UnpinTorrent, Cache!Pin
<1>13. ASSUME NEW t \in Torrent, DriveLoaded(t) PROVE TypeOK'
  <2>1. KeyOf(t) \in SUBSET File
    BY KeyOfType
  <2>2. normal' \in [Torrent -> SUBSET File] /\ priority' \subseteq File
    BY <1>13, <2>1 DEF DriveLoaded, SetPriorities
  <2>3. complete' \subseteq Piece /\ resynced' \in [Torrent -> SUBSET File]
    BY <1>13, <2>1 DEF DriveLoaded, resync
  <2> QED BY <1>13, <2>2, <2>3 DEF DriveLoaded
<1>14. ASSUME NEW t \in Torrent, DriveUnloaded(t) PROVE TypeOK'
  BY <1>14 DEF DriveUnloaded
<1>l. ASSUME NEW t \in Torrent, Loads(t)
      PROVE  /\ loaded' \subseteq Torrent /\ metainfo' \subseteq Torrent
             /\ complete' \subseteq Piece /\ UNCHANGED <<priority, removing>>
  BY <1>l, FilesOfType, PiecesInType DEF Loads
<1>15. ASSUME NEW t \in Torrent, LoadEnds(t) PROVE TypeOK'
  BY <1>15, <1>l DEF LoadEnds
<1>16. ASSUME NEW t \in Torrent, LoadFails(t) \/ RetryDue(t) PROVE TypeOK'
  BY <1>16 DEF LoadFails, RetryDue, Change
<1>17. ASSUME NEW t \in Torrent, OpenLoads(t) PROVE TypeOK'
  BY <1>17, <1>l DEF OpenLoads, Change
<1>18. ASSUME NEW t \in Torrent, Waits(t) PROVE TypeOK'
  BY <1>18 DEF Waits, Change
<1>19. ASSUME NEW t \in Torrent, RemoveTorrent(t) \/ RemoveEnds(t) PROVE TypeOK'
  BY <1>19 DEF RemoveTorrent, RemoveEnds, Change
<1>20. ASSUME NEW t \in Torrent, NEW i \in Piece, DeletePiece(t, i) PROVE TypeOK'
  BY <1>20 DEF DeletePiece, Cache!Delete, Cache!MayMakeRoom
<1>21. ASSUME NEW i \in Piece, FetchesWanted(i) \/ FetchesStreamed(i) PROVE TypeOK'
  BY <1>21, ItemType DEF FetchesWanted, FetchesStreamed, Fetches, Change, Cache!Add, Cache!MayMakeRoom
<1>22. ASSUME NEW f \in File, Admits(f) PROVE TypeOK'
  BY <1>22 DEF Admits, Change
<1>23. CASE UNCHANGED vars
  BY <1>23 DEF vars
<1> QED
  BY <1>1, <1>2, <1>3, <1>4, <1>5, <1>6, <1>7, <1>8, <1>9, <1>10, <1>11, <1>12, <1>13, <1>14,
     <1>15, <1>16, <1>17, <1>18, <1>19, <1>20, <1>21, <1>22, <1>23 DEF Next

\* Passes, the cache, the client and the library keep their types.
THEOREM TypeCorrect == Spec => []TypeOK
BY InitTypes, NextTypes, PTL DEF Spec

-----------------------------------------------------------------------------
(* The pins.                                                               *)

LEMMA InitInv == Init => IInv
<1> SUFFICES ASSUME Init PROVE PlanInv /\ PinsInv
  BY InitTypes DEF IInv
<1>1. PlanInv
  BY DEF Init, PlanInv, PlanIsRead, NoPlan
<1>2. PinsInv
  BY DEF Init, PinsInv, NoFiles, PiecesIn
<1> QED BY <1>1, <1>2

\* What a step that touches none of a pass, its pins and the library keeps.
Still == UNCHANGED <<safe, kept, plan, phase, maps, pinned, restored, owners, held, fellBack>>

LEMMA StillKeeps ==
    ASSUME IInv, Still, metainfo \subseteq metainfo',
           phase # "off" \/ UNCHANGED <<busy, loaded, removing, loading>>
    PROVE  PlanInv' /\ PinsInv'
<1>1. PlanInv'
  BY DEF IInv, TypeOK, PlanInv, PlanIsRead, Still, ToPin, KeyOf
<1>2. PinsInv'
  BY DEF IInv, PinsInv, Still
<1> QED BY <1>1, <1>2

LEMMA NextInv == IInv /\ [Next]_vars => IInv'
<1> SUFFICES ASSUME IInv, [Next]_vars PROVE PlanInv' /\ PinsInv'
  BY NextTypes DEF IInv
<1>0. TypeOK /\ PlanInv /\ PinsInv
  BY DEF IInv
<1> USE DEF library, cache, client, memory, pass, loads, history
<1>1. CASE DeferTrim
  <2>1. PlanInv'
    BY <1>0, <1>1 DEF DeferTrim, PlanInv, PlanIsRead
  <2>2. PinsInv'
    BY <1>0, <1>1 DEF DeferTrim, PinsInv, Cache!Hold
  <2> QED BY <2>1, <2>2
<1>2. CASE PassReads
  <2>1. plan'.files = kept /\ plan'.refs = {} /\ phase' = "planning"
    BY <1>2 DEF PassReads, NoPlan
  <2>2. PlanInv'
    BY <1>0, <1>2, <2>1 DEF PassReads, PlanInv, PlanIsRead
  <2>3. PinsInv'
    BY <1>0, <1>2 DEF PassReads, PinsInv
  <2> QED BY <2>2, <2>3
<1>3. CASE PassFails
  <2>1. plan'.refs = {} /\ phase' = "idle"
    BY <1>3 DEF PassFails, NoPlan
  <2>2. PlanInv'
    BY <1>0, <1>3, <2>1 DEF PassFails, PlanInv, PlanIsRead
  <2>3. PinsInv'
    BY <1>0, <1>3 DEF PassFails, PinsInv
  <2> QED BY <2>2, <2>3
<1>4. CASE PassLooks
  <2>1. /\ plan'.refs = Wanted \cap maps' /\ plan'.files = plan.files
        /\ phase = "planning" /\ phase' = "pinning"
        /\ maps' = maps \cup (Wanted \cap (metainfo \cup loaded))
    BY <1>0, <1>4 DEF PassLooks, TypeOK
  <2>2. ASSUME NEW f \in safe
        PROVE  TorrentOf[f] \in plan'.refs
    <3>1. f \in plan.files /\ f \in File /\ TorrentOf[f] \in Torrent
      BY <1>0, <2>1 DEF PlanInv, PlanIsRead, TypeOK
    <3>2. TorrentOf[f] \in Wanted
      BY <3>1 DEF Wanted, FilesOf
    <3>3. TorrentOf[f] \in metainfo \cup maps
      BY <1>0 DEF PlanInv
    <3> QED BY <2>1, <3>2, <3>3
  <2>3. PlanInv'
    BY <1>0, <1>4, <2>1, <2>2 DEF PassLooks, PlanInv, PlanIsRead
  <2>4. PinsInv'
    BY <1>0, <1>4 DEF PassLooks, PinsInv
  <2> QED BY <2>3, <2>4
<1>5. CASE PassPinned
  <2>1. ASSUME NEW f \in safe
        PROVE  f \in pinned[TorrentOf[f]]
    <3>1. TorrentOf[f] \in plan.refs /\ f \in plan.files
      BY <1>0, <1>5 DEF PassPinned, PlanInv, PlanIsRead
    <3>2. pinned[TorrentOf[f]] = KeyOf(TorrentOf[f])
      BY <1>5, <3>1 DEF PassPinned, ToPin
    <3> QED BY <3>1, <3>2 DEF KeyOf, FilesOf
  <2>2. UNCHANGED owners
    BY <1>5 DEF PassPinned, Cache!Release
  <2>3. PlanInv'
    BY <1>0, <1>5 DEF PassPinned, PlanInv, PlanIsRead, ToPin, KeyOf
  <2>4. PinsInv'
    BY <1>0, <1>5, <2>1, <2>2 DEF PassPinned, PinsInv
  <2> QED BY <2>3, <2>4
<1>6. CASE PassEnds
  <2>1. /\ restored /\ phase' = "idle" /\ plan'.refs = {}
        /\ safe' = {f \in kept \cap plan.files : TorrentOf[f] \in plan.refs}
        /\ UNCHANGED <<kept, metainfo, maps, pinned, restored, owners>>
    BY <1>0, <1>6 DEF PassEnds, PlanInv, NoPlan
  <2>2. ASSUME NEW f \in safe'
        PROVE  f \in pinned[TorrentOf[f]]
    <3>1. TorrentOf[f] \in plan.refs /\ f \in plan.files
      BY <2>1
    <3>2. pinned[TorrentOf[f]] = KeyOf(TorrentOf[f])
      BY <1>0, <1>6, <3>1 DEF PassEnds, PlanInv, ToPin
    <3> QED BY <3>1, <3>2 DEF KeyOf, FilesOf
  <2>3. PlanInv'
    BY <1>0, <2>1 DEF PlanInv, PlanIsRead
  <2>4. PinsInv'
    BY <1>0, <2>1, <2>2 DEF PinsInv
  <2> QED BY <2>3, <2>4
<1>7. CASE MakesRoom
  <2>1. phase # "off" /\ Still /\ UNCHANGED metainfo
    BY <1>0, <1>7 DEF MakesRoom, Evicts, Cache!Evict, Cache!Rests, Still, PinsInv
  <2> QED BY <2>1, StillKeeps
<1>8. CASE Trims
  <2>1. phase # "off" /\ Still /\ UNCHANGED metainfo
    BY <1>8 DEF Trims, Runs, Cache!Trim, Still
  <2> QED BY <2>1, StillKeeps
<1>9. CASE Fallback
  <2>1. PlanInv'
    BY <1>0, <1>9 DEF Fallback, PlanInv, PlanIsRead, ToPin, KeyOf
  <2>2. PinsInv'
    BY <1>0, <1>9 DEF Fallback, Runs, PinsInv, Cache!Release
  <2> QED BY <2>1, <2>2
<1>10. CASE Restart
  <2>1. /\ phase' = "off" /\ plan'.refs = {} /\ ~restored' /\ ~busy'
        /\ safe' = {f \in kept : TorrentOf[f] \in metainfo}
        /\ owners' = [t \in Torrent |-> {}] /\ pinned' = [t \in Torrent |-> {}]
        /\ loaded' = {} /\ removing' = {} /\ loading' = {}
        /\ UNCHANGED <<kept, metainfo>>
    BY <1>10 DEF Restart, Fresh, Cache!Restart, NoPlan, NoFiles
  <2>2. PlanInv'
    BY <2>1 DEF PlanInv, PlanIsRead
  <2>3. PinsInv'
    BY <2>1 DEF PinsInv, PiecesIn
  <2> QED BY <2>2, <2>3
<1>11. ASSUME NEW t \in Torrent, PinTorrent(t) PROVE PlanInv' /\ PinsInv'
  <2>1. /\ phase = "pinning" /\ t \in plan.refs
        /\ pinned' = [pinned EXCEPT ![t] = KeyOf(t)]
        /\ owners' = [owners EXCEPT ![t] = PiecesIn(KeyOf(t))]
        /\ UNCHANGED <<safe, kept, plan, phase, maps, metainfo, restored, held, fellBack>>
    BY <1>11 DEF PinTorrent, Cache!Pin
  <2>2. ASSUME NEW f \in safe, f \in pinned[TorrentOf[f]]
        PROVE  f \in pinned'[TorrentOf[f]]
    <3>1. f \in plan.files
      BY <1>0, <2>1 DEF PlanInv, PlanIsRead
    <3> QED BY <1>0, <2>1, <2>2, <3>1 DEF KeyOf, FilesOf, TypeOK
  <2>3. PlanInv'
    BY <1>0, <2>1 DEF PlanInv, PlanIsRead
  <2>4. \A u \in Torrent : owners'[u] = PiecesIn(pinned'[u])
    BY <1>0, <2>1 DEF PinsInv, TypeOK
  <2>5. PinsInv'
    BY <1>0, <2>1, <2>2, <2>4 DEF PinsInv
  <2> QED BY <2>3, <2>5
<1>12. ASSUME NEW t \in Torrent, UnpinTorrent(t) PROVE PlanInv' /\ PinsInv'
  <2>1. /\ phase = "pinning" /\ t \notin plan.refs
        /\ pinned' = [pinned EXCEPT ![t] = {}]
        /\ owners' = [owners EXCEPT ![t] = {}]
        /\ UNCHANGED <<safe, kept, plan, phase, maps, metainfo, restored, held, fellBack>>
    BY <1>12 DEF UnpinTorrent, ToUnpin, Cache!Pin
  <2>2. ASSUME NEW f \in safe, f \in pinned[TorrentOf[f]]
        PROVE  f \in pinned'[TorrentOf[f]]
    <3>1. TorrentOf[f] \in plan.refs /\ TorrentOf[f] # t
      BY <1>0, <2>1 DEF PlanInv
    <3> QED BY <1>0, <2>1, <2>2, <3>1 DEF TypeOK
  <2>3. PlanInv'
    BY <1>0, <2>1 DEF PlanInv, PlanIsRead
  <2>4. \A u \in Torrent : owners'[u] = PiecesIn(pinned'[u])
    BY <1>0, <2>1 DEF PinsInv, TypeOK, PiecesIn
  <2>5. PinsInv'
    BY <1>0, <2>1, <2>2, <2>4 DEF PinsInv
  <2> QED BY <2>3, <2>5
<1>13. ASSUME NEW t \in Torrent, DriveLoaded(t) \/ DriveUnloaded(t) PROVE PlanInv' /\ PinsInv'
  <2>1. phase # "off" /\ Still /\ UNCHANGED metainfo
    BY <1>13 DEF DriveLoaded, DriveUnloaded, Still
  <2> QED BY <2>1, StillKeeps
<1>14. ASSUME NEW t \in Torrent, LoadEnds(t) PROVE PlanInv' /\ PinsInv'
  <2>1. phase # "off" /\ Still /\ metainfo \subseteq metainfo'
    BY <1>0, <1>14 DEF LoadEnds, Loads, Still, PinsInv
  <2> QED BY <2>1, StillKeeps
<1>15. ASSUME NEW t \in Torrent, LoadFails(t) PROVE PlanInv' /\ PinsInv'
  <2>1. phase # "off" /\ Still /\ UNCHANGED metainfo
    BY <1>0, <1>15 DEF LoadFails, Still, PinsInv
  <2> QED BY <2>1, StillKeeps
<1>16. ASSUME NEW t \in Torrent, RetryDue(t) PROVE PlanInv' /\ PinsInv'
  <2>1. Still /\ UNCHANGED <<busy, loaded, removing, loading, metainfo>>
    BY <1>16 DEF RetryDue, Still
  <2> QED BY <2>1, StillKeeps
<1>17. ASSUME NEW t \in Torrent, OpenLoads(t) PROVE PlanInv' /\ PinsInv'
  <2>1. phase # "off" /\ Still /\ metainfo \subseteq metainfo'
    BY <1>17 DEF OpenLoads, Runs, Loads, Still
  <2> QED BY <2>1, StillKeeps
<1>18. ASSUME NEW t \in Torrent, Waits(t) PROVE PlanInv' /\ PinsInv'
  <2>1. phase # "off" /\ Still /\ UNCHANGED metainfo
    BY <1>18 DEF Waits, Runs, Still
  <2> QED BY <2>1, StillKeeps
<1>19. ASSUME NEW t \in Torrent, RemoveTorrent(t) PROVE PlanInv' /\ PinsInv'
  <2>1. phase # "off" /\ Still /\ UNCHANGED metainfo
    BY <1>19 DEF RemoveTorrent, Runs, Still
  <2> QED BY <2>1, StillKeeps
<1>20. ASSUME NEW t \in Torrent, RemoveEnds(t) PROVE PlanInv' /\ PinsInv'
  <2>1. /\ phase # "off" /\ safe' = safe \ FilesOf(t, File) /\ metainfo' = metainfo \ {t}
        /\ UNCHANGED <<kept, plan, phase, maps, pinned, restored, owners, held, busy, fellBack>>
    BY <1>0, <1>20 DEF RemoveEnds, PinsInv
  <2>2. ASSUME NEW f \in safe'
        PROVE  f \in safe /\ TorrentOf[f] # t
    BY <1>0, <2>1 DEF FilesOf, TypeOK
  <2>3. PlanInv'
    BY <1>0, <2>1, <2>2 DEF PlanInv, PlanIsRead, ToPin, KeyOf
  <2>4. PinsInv'
    BY <1>0, <2>1, <2>2 DEF PinsInv
  <2> QED BY <2>3, <2>4
<1>21. ASSUME NEW t \in Torrent, NEW i \in Piece, DeletePiece(t, i) PROVE PlanInv' /\ PinsInv'
  <2>1. phase # "off" /\ Still /\ UNCHANGED metainfo
    BY <1>0, <1>21 DEF DeletePiece, Cache!Delete, Still, PinsInv
  <2> QED BY <2>1, StillKeeps
<1>22. ASSUME NEW i \in Piece, FetchesWanted(i) \/ FetchesStreamed(i) PROVE PlanInv' /\ PinsInv'
  <2>1. phase # "off" /\ Still /\ UNCHANGED metainfo
    BY <1>0, <1>22 DEF FetchesWanted, FetchesStreamed, Fetches, Cache!Add, Still, PinsInv
  <2> QED BY <2>1, StillKeeps
<1>23. ASSUME NEW f \in File, Admits(f) PROVE PlanInv' /\ PinsInv'
  <2>1. /\ safe' \subseteq safe /\ safe' \subseteq kept'
        /\ UNCHANGED <<plan, phase, maps, metainfo, pinned, restored, owners, held, busy, fellBack,
                       loaded, removing, loading>>
    BY <1>0, <1>23 DEF Admits, PlanInv
  <2>2. PlanInv'
    BY <1>0, <2>1 DEF PlanInv, PlanIsRead, ToPin, KeyOf
  <2>3. PinsInv'
    BY <1>0, <2>1 DEF PinsInv
  <2> QED BY <2>2, <2>3
<1>24. CASE UNCHANGED vars
  <2>1. Still /\ UNCHANGED <<busy, loaded, removing, loading, metainfo>>
    BY <1>24 DEF vars, Still
  <2> QED BY <2>1, StillKeeps
<1> QED
  BY <1>1, <1>2, <1>3, <1>4, <1>5, <1>6, <1>7, <1>8, <1>9, <1>10, <1>11, <1>12, <1>13, <1>14,
     <1>15, <1>16, <1>17, <1>18, <1>19, <1>20, <1>21, <1>22, <1>23, <1>24 DEF Next

\* An eviction finds no pin of a file that stays admitted, before the first
\* pass because the trims are held.
LEMMA EvictionSpares ==
    ASSUME IInv, NEW i \in PiecesIn(safe), Evicts(i)
    PROVE  fellBack
<1> SUFFICES ASSUME ~fellBack PROVE FALSE
  OBVIOUS
<1>0. TypeOK /\ PlanInv /\ PinsInv
  BY DEF IInv
<1>1. busy /\ ~held /\ ~Cache!Pinned(<<i, "complete">>)
  BY DEF Evicts, Cache!Evict
<1>2. restored
  BY <1>0, <1>1 DEF PinsInv
<1>3. PICK f \in safe : i \in PiecesOf[f]
  BY DEF PiecesIn
<1>4. TorrentOf[f] \in Torrent /\ f \in pinned[TorrentOf[f]]
  BY <1>0, <1>2 DEF TypeOK, PinsInv
<1>5. i \in owners[TorrentOf[f]]
  BY <1>0, <1>3, <1>4 DEF PinsInv, PiecesIn
<1> QED BY <1>1, <1>4, <1>5 DEF Cache!Pinned

\* The cache evicts nothing of a file that stays admitted, however passes,
\* evictions, loads, removals and restarts interleave.
THEOREM PinsProtect == Spec => AdmittedSurvives
<1>1. IInv => (\A i \in PiecesIn(safe) : Evicts(i) => fellBack)
  BY EvictionSpares
<1>2. Spec => []IInv
  BY InitInv, NextInv, PTL DEF Spec
<1> QED BY <1>1, <1>2, PTL DEF AdmittedSurvives

-----------------------------------------------------------------------------
(* The priorities.                                                         *)

PriorityInv ==
    /\ \A f \in priority : TorrentOf[f] \in loaded /\ f \in normal[TorrentOf[f]]
    /\ PlanIsRead => \A f \in priority : TorrentOf[f] \in plan.live
    /\ phase = "driving" =>
         \A t \in (Wanted \cap plan.live) \ todo :
            normal[t] = IF t \in plan.slots THEN KeyOf(t) ELSE {}

LEMMA InitPriority == Init => PriorityInv
BY DEF Init, PriorityInv, PlanIsRead

\* What a step that leaves the pass and the priorities alone keeps.
LEMMA PriorityStays ==
    ASSUME PriorityInv, priority' \subseteq priority, loaded \subseteq loaded',
           UNCHANGED <<normal, phase, plan, todo>>
    PROVE  PriorityInv'
BY DEF PriorityInv, PlanIsRead, Wanted, KeyOf

LEMMA NextPriority == TypeOK /\ PriorityInv /\ [Next]_vars => PriorityInv'
<1> SUFFICES ASSUME TypeOK, PriorityInv, [Next]_vars PROVE PriorityInv'
  OBVIOUS
<1> USE DEF library, cache, client, memory, pass, loads, history
<1>1. CASE DeferTrim
  BY <1>1 DEF DeferTrim, PriorityInv, PlanIsRead
<1>2. CASE PassReads
  <2>1. plan'.live = loaded /\ phase' = "planning" /\ UNCHANGED <<priority, loaded, normal>>
    BY <1>2 DEF PassReads, NoPlan
  <2> QED BY <2>1 DEF PriorityInv
<1>3. CASE PassFails
  BY <1>3 DEF PassFails, PriorityInv, PlanIsRead
<1>4. CASE PassLooks
  <2>1. /\ plan'.live = plan.live /\ phase = "planning" /\ phase' = "pinning"
        /\ UNCHANGED <<priority, loaded, normal>>
    BY <1>4 DEF PassLooks, TypeOK
  <2> QED BY <2>1 DEF PriorityInv, PlanIsRead
<1>5. CASE PassPinned
  <2>1. /\ phase = "pinning" /\ phase' = "driving" /\ todo' = Wanted
        /\ UNCHANGED <<priority, loaded, normal, plan>>
    BY <1>5 DEF PassPinned
  <2>2. Wanted' = Wanted
    BY <2>1 DEF Wanted
  <2> QED BY <2>1, <2>2 DEF PriorityInv, PlanIsRead
<1>6. CASE PassEnds
  <2>1. /\ phase = "driving" /\ phase' = "idle" /\ UNCHANGED loaded
        /\ priority' = priority \ UNION {normal[t] : t \in plan.live \ Wanted}
        /\ normal' = [t \in Torrent |-> IF t \in Wanted THEN normal[t] ELSE {}]
    BY <1>6 DEF PassEnds
  <2>2. ASSUME NEW f \in priority'
        PROVE  TorrentOf[f] \in loaded' /\ f \in normal'[TorrentOf[f]]
    <3>1. TorrentOf[f] \in loaded \cap plan.live /\ f \in normal[TorrentOf[f]]
      BY <2>1, <2>2 DEF PriorityInv, PlanIsRead
    <3>2. TorrentOf[f] \in Wanted /\ TorrentOf[f] \in Torrent
      BY <2>1, <2>2, <3>1 DEF Wanted, TypeOK
    <3> QED BY <2>1, <3>1, <3>2
  <2> QED BY <2>1, <2>2 DEF PriorityInv, PlanIsRead
<1>7. ASSUME NEW t \in Torrent, DriveLoaded(t) PROVE PriorityInv'
  <2> DEFINE slot == IF t \in plan.slots THEN KeyOf(t) ELSE {}
  <2>1. /\ phase = "driving" /\ t \in plan.live /\ todo' = todo \ {t}
        /\ normal' = [normal EXCEPT ![t] = slot]
        /\ priority' = IF t \in loaded THEN (priority \ (normal[t] \cup KeyOf(t))) \cup slot
                       ELSE priority
        /\ UNCHANGED <<phase, plan, loaded>>
    BY <1>7 DEF DriveLoaded, SetPriorities
  <2>2. \A f \in slot : f \in File /\ TorrentOf[f] = t
    BY DEF TypeOK, KeyOf, FilesOf
  <2> HIDE DEF slot
  <2>3. ASSUME NEW f \in priority'
        PROVE  TorrentOf[f] \in loaded \cap plan.live /\ f \in normal'[TorrentOf[f]]
    <3>1. CASE f \in slot /\ t \in loaded
      BY <2>1, <2>2, <3>1 DEF TypeOK
    <3>2. CASE ~(f \in slot /\ t \in loaded)
      <4>1. f \in priority /\ f \in File /\ (t \in loaded => f \notin normal[t])
        BY <2>1, <2>3, <3>2 DEF TypeOK
      <4>2. TorrentOf[f] \in loaded \cap plan.live /\ f \in normal[TorrentOf[f]]
        BY <2>1, <4>1 DEF PriorityInv, PlanIsRead
      <4>3. TorrentOf[f] # t
        BY <4>1, <4>2
      <4> QED BY <2>1, <4>1, <4>2, <4>3 DEF TypeOK
    <3> QED BY <3>1, <3>2
  <2>4. Wanted' = Wanted /\ \A u : KeyOf(u)' = KeyOf(u)
    BY <2>1 DEF Wanted, KeyOf
  <2>5. ASSUME NEW u \in (Wanted \cap plan.live) \ todo'
        PROVE  normal'[u] = IF u \in plan.slots THEN KeyOf(u) ELSE {}
    <3>1. u \in Torrent
      BY DEF Wanted
    <3>2. CASE u = t
      BY <2>1, <3>1, <3>2 DEF TypeOK, slot
    <3>3. CASE u # t
      BY <2>1, <3>1, <3>3 DEF TypeOK, PriorityInv
    <3> QED BY <3>2, <3>3
  <2> QED BY <2>1, <2>3, <2>4, <2>5 DEF PriorityInv
<1>8. ASSUME NEW t \in Torrent, DriveUnloaded(t) PROVE PriorityInv'
  <2>1. /\ t \notin plan.live /\ todo' = todo \ {t}
        /\ UNCHANGED <<priority, loaded, normal, phase, plan>>
    BY <1>8 DEF DriveUnloaded
  <2> QED BY <2>1 DEF PriorityInv, PlanIsRead, Wanted, KeyOf
<1>9. ASSUME NEW t \in Torrent, RemoveTorrent(t) PROVE PriorityInv'
  <2>1. /\ loaded' = loaded \ {t} /\ priority' = priority \ FilesOf(t, File)
        /\ UNCHANGED <<normal, phase, plan, todo>>
    BY <1>9 DEF RemoveTorrent
  <2>2. \A f \in priority' : TorrentOf[f] # t /\ f \in priority
    BY <2>1 DEF TypeOK, FilesOf
  <2> QED BY <2>1, <2>2 DEF PriorityInv, PlanIsRead, Wanted, KeyOf
<1>10. CASE Restart
  BY <1>10 DEF Restart, Fresh, PriorityInv, PlanIsRead
<1>11. CASE MakesRoom \/ Trims \/ Fallback \/ UNCHANGED vars
  BY <1>11, PriorityStays DEF MakesRoom, Evicts, Trims, Fallback, vars
<1>12. ASSUME NEW t \in Torrent,
              PinTorrent(t) \/ UnpinTorrent(t) \/ LoadFails(t) \/ RetryDue(t) \/ Waits(t) \/ RemoveEnds(t)
       PROVE  PriorityInv'
  BY <1>12, PriorityStays DEF PinTorrent, UnpinTorrent, LoadFails, RetryDue, Waits, RemoveEnds
<1>13. ASSUME NEW t \in Torrent, LoadEnds(t) \/ OpenLoads(t) PROVE PriorityInv'
  BY <1>13, PriorityStays DEF LoadEnds, OpenLoads, Loads
<1>14. ASSUME NEW i \in Piece,
              (\E t \in Torrent : DeletePiece(t, i)) \/ FetchesWanted(i) \/ FetchesStreamed(i)
       PROVE  PriorityInv'
  BY <1>14, PriorityStays DEF DeletePiece, FetchesWanted, FetchesStreamed, Fetches
<1>15. ASSUME NEW f \in File, Admits(f) PROVE PriorityInv'
  BY <1>15, PriorityStays DEF Admits
<1> QED
  BY <1>1, <1>2, <1>3, <1>4, <1>5, <1>6, <1>7, <1>8, <1>9, <1>10, <1>11, <1>12, <1>13, <1>14,
     <1>15 DEF Next

\* As a pass ends, a file at Normal is of a torrent it drove, and so one of
\* the files it set.
LEMMA PassEndsFetching ==
    ASSUME TypeOK, PriorityInv, PassEnds, NEW f \in priority'
    PROVE  f \in plan.files /\ TorrentOf[f] \in plan.slots
<1>1. /\ phase = "driving" /\ todo = {}
      /\ f \in priority /\ f \notin UNION {normal[t] : t \in plan.live \ Wanted}
  BY DEF PassEnds
<1>2. TorrentOf[f] \in plan.live /\ f \in normal[TorrentOf[f]]
  BY <1>1 DEF PriorityInv, PlanIsRead
<1>3. TorrentOf[f] \in Wanted
  BY <1>1, <1>2
<1>4. normal[TorrentOf[f]] = IF TorrentOf[f] \in plan.slots THEN KeyOf(TorrentOf[f]) ELSE {}
  BY <1>1, <1>2, <1>3 DEF PriorityInv
<1> QED BY <1>2, <1>4 DEF KeyOf, FilesOf

\* After every pass only files with a slot are fetched, however torrents go
\* and load again under it.
THEOREM SlotsFetch == Spec => OnlySlotsFetch
<1> DEFINE Ends == phase = "driving" /\ phase' = "idle" =>
                     priority' \subseteq {f \in plan.files : TorrentOf[f] \in plan.slots}
<1>1. TypeOK /\ PriorityInv /\ [Next]_vars => Ends
  <2> SUFFICES ASSUME TypeOK, PriorityInv, [Next]_vars, phase = "driving", phase' = "idle"
               PROVE  priority' \subseteq {f \in plan.files : TorrentOf[f] \in plan.slots}
    OBVIOUS
  <2> USE DEF library, cache, client, memory, pass, loads, history
  <2>1. PassEnds
    BY DEF Next, vars, DeferTrim, PassReads, PassFails, PassLooks, PassPinned, MakesRoom, Evicts,
           Trims, Fallback, Restart, Fresh, PinTorrent, UnpinTorrent, DriveLoaded, DriveUnloaded,
           LoadEnds, LoadFails, RetryDue, OpenLoads, Waits, RemoveTorrent, RemoveEnds, DeletePiece,
           FetchesWanted, FetchesStreamed, Fetches, Admits
  <2> QED BY <2>1, PassEndsFetching
<1> HIDE DEF Ends
<1>2. Spec => []PriorityInv
  BY InitTypes, NextTypes, InitPriority, NextPriority, PTL DEF Spec
<1>3. Spec => [][Ends]_vars
  BY <1>1, <1>2, TypeCorrect, PTL DEF Spec
<1> QED BY <1>3, PTL DEF OnlySlotsFetch, Ends

-----------------------------------------------------------------------------
(* Slots.  A torrent of the plan that downloads holds a slot, and the time *)
(* nothing has arrived for it stays within a unit of both ages its stall   *)
(* is told by; a pass finds one of them short of StallAfter, or takes the  *)
(* slot away.  Growth the planner has not yet seen has just reset idle.    *)

SlotInv(t) ==
    LET s == stalls[t] IN
    /\ state[t] # "downloading" => idle[t] = 0
    /\ state[t] = "downloading" =>
         /\ Holds(t) /\ idle[t] <= s.slot + 1 /\ idle[t] <= s.since + 1
         /\ passed => s.slot < StallAfter \/ s.since < StallAfter
         /\ measure[t] > s.progress => idle[t] <= IF passed THEN 0 ELSE 1

SlotsInv == SlotsTypeOK /\ \A t \in Planned : SlotInv(t)

Stall == [slot : NoSlot..StallAfter, progress : 0..Goal, since : 0..StallAfter,
          attempts : 0..Attempts, retry : 0..StallBackoffMax]

\* The wait doubles, and a power of two counts subsets: it is never zero.
LEMMA PowerPositive ==
    ASSUME NEW n \in Nat
    PROVE  2^n \in Nat \ {0}
<1> DEFINE first == 1..n
<1>1. IsFiniteSet(first) /\ Cardinality(first) = n
  BY FS_Interval, 1 \in Int, n \in Int
<1>2. IsFiniteSet(SUBSET first) /\ Cardinality(SUBSET first) = 2^n
  BY <1>1, FS_SUBSET
<1>3. Cardinality(SUBSET first) \in Nat
  BY <1>2, FS_CardinalityType
<1>4. SUBSET first # {}
  OBVIOUS
<1>5. Cardinality(SUBSET first) # 0
  BY <1>2, <1>4, FS_EmptySet
<1> QED BY <1>2, <1>3, <1>5

LEMMA SlotNumbers ==
    /\ Attempts \in Nat \ {0} /\ StallAfter \in Nat \ {0} /\ StallBackoffMax \in Nat
    /\ Goal \in Nat \ {0} /\ Long \in Nat /\ MaxSlotChanges \in Nat /\ NoSlot = -1
    /\ NoStall \in Stall
<1>1. /\ Attempts \in Nat \ {0} /\ StallAfter \in Nat \ {0} /\ StallBackoffMax \in Nat
      /\ Goal \in Nat \ {0} /\ Long \in Nat /\ MaxSlotChanges \in Nat /\ NoSlot = -1
  BY SlotsAssumption DEF Attempts, Long, NoSlot
<1> QED BY <1>1 DEF NoStall, Stall

LEMMA BackoffWaits ==
    ASSUME NEW n \in 1..Attempts
    PROVE  backoff(n) \in 1..StallBackoffMax
<1> DEFINE power == 2^(n - 1)
<1>1. n - 1 \in Nat
  BY SlotsAssumption DEF Attempts
<1>2. power \in Nat \ {0}
  BY <1>1, PowerPositive
<1> HIDE DEF power
<1>3. StallBackoff * power \in Nat \ {0}
  BY <1>2, SlotsAssumption
<1>4. Lesser(StallBackoff * power, StallBackoffMax) \in 1..StallBackoffMax
  BY <1>3, SlotsAssumption DEF Lesser
<1> QED BY <1>4 DEF backoff, power

\* What a pass makes of a stall: a slot is kept only by one that is short
\* of StallAfter by one of its ages, and a slot taken away is not retried
\* in the same pass.
LEMMA StallSteps ==
    ASSUME NEW s \in Stall, NEW m \in 0..Goal
    PROVE  LET q == stepStall(s, m) IN
           /\ q \in Stall /\ q.progress = m
           /\ s.slot # NoSlot /\ q.retry = 0 =>
                /\ q.slot = s.slot
                /\ q.slot < StallAfter \/ q.since < StallAfter
                /\ q.since = IF m > s.progress THEN 0 ELSE s.since
           /\ s.slot = NoSlot => q.slot = NoSlot
<1> DEFINE grown == IF m > s.progress
                    THEN [s EXCEPT !.progress = m, !.since = 0, !.attempts = 0, !.retry = 0]
                    ELSE [s EXCEPT !.progress = m]
           n == Lesser(grown.attempts + 1, Attempts)
           q == stepStall(s, m)
<1>1. /\ grown \in Stall /\ grown.progress = m /\ grown.slot = s.slot
      /\ grown.since = IF m > s.progress THEN 0 ELSE s.since
  <2>1. CASE m > s.progress
    <3>1. grown = [s EXCEPT !.progress = m, !.since = 0, !.attempts = 0, !.retry = 0]
      BY <2>1
    <3>2. 0 \in 0..StallAfter /\ 0 \in 0..Attempts /\ 0 \in 0..StallBackoffMax
      BY SlotNumbers
    <3> HIDE DEF grown
    <3> QED BY <2>1, <3>1, <3>2 DEF Stall
  <2>2. CASE ~(m > s.progress)
    <3>1. grown = [s EXCEPT !.progress = m]
      BY <2>2
    <3> HIDE DEF grown
    <3> QED BY <2>2, <3>1 DEF Stall
  <2> QED BY <2>1, <2>2
<1>2. q = IF s.slot # NoSlot /\ Lesser(grown.slot, grown.since) >= StallAfter
          THEN [grown EXCEPT !.slot = NoSlot, !.attempts = n, !.retry = backoff(n)]
          ELSE grown
  BY DEF stepStall
<1> HIDE DEF grown, q
<1>3. n \in 1..Attempts
  BY <1>1, SlotsAssumption DEF Stall, Lesser, Attempts
<1>4. backoff(n) \in 1..StallBackoffMax
  BY <1>3, BackoffWaits
<1> HIDE DEF n
<1>5. CASE s.slot # NoSlot /\ Lesser(grown.slot, grown.since) >= StallAfter
  <2>1. q = [grown EXCEPT !.slot = NoSlot, !.attempts = n, !.retry = backoff(n)]
    BY <1>2, <1>5
  <2>2. q \in Stall /\ q.progress = m /\ q.retry # 0
    <3>1. q.slot = NoSlot /\ q.attempts = n /\ q.retry = backoff(n)
      BY <1>1, <2>1 DEF Stall
    <3>2. NoSlot \in NoSlot..StallAfter /\ n \in 0..Attempts /\ backoff(n) \in 0..StallBackoffMax
      BY <1>3, <1>4, SlotNumbers
    <3>3. q \in Stall /\ q.progress = grown.progress
      BY <1>1, <2>1, <3>2 DEF Stall
    <3> QED BY <1>1, <1>4, <3>1, <3>3, SlotNumbers
  <2> QED BY <1>5, <2>2 DEF q
<1>6. CASE ~(s.slot # NoSlot /\ Lesser(grown.slot, grown.since) >= StallAfter)
  <2>1. q = grown
    BY <1>2, <1>6
  <2>2. s.slot # NoSlot => q.slot < StallAfter \/ q.since < StallAfter
    BY <1>1, <1>6, <2>1, SlotsAssumption DEF Stall, Lesser, NoSlot
  <2> QED BY <1>1, <2>1, <2>2 DEF q
<1> QED BY <1>5, <1>6

LEMMA OlderIsCapped ==
    ASSUME NEW most \in Nat, NEW age \in 0..most
    PROVE  /\ Older(age, most) \in 0..most
           /\ Older(age, most) = IF age < most THEN age + 1 ELSE most
BY DEF Older

LEMMA StatesOfAPass ==
    ASSUME SlotsTypeOK, NEW t \in Planned, NEW s, NEW inSlot
    PROVE  /\ torrentState(t, s, inSlot) \in States
           /\ torrentState(t, s, inSlot) = "downloading" => inSlot /\ ~(s.retry > 0)
BY DEF torrentState, States

LEMMA SlotsStart == SlotsInit => SlotsInv
<1> SUFFICES ASSUME SlotsInit PROVE SlotsInv
  OBVIOUS
<1>1. stalls \in [Planned -> Stall]
  BY SlotNumbers DEF SlotsInit
<1>2. SlotsTypeOK
  <2>1. /\ state \in [Planned -> States] /\ idle \in [Planned -> 0..(StallAfter + 2)]
        /\ seen \in [Planned -> 0..Long] /\ lastSeen \in 0..Long
        /\ measure \in [Planned -> 0..Goal] /\ slotChanges \in 0..MaxSlotChanges
    BY SlotNumbers DEF SlotsInit, States
  <2> QED BY <1>1, <2>1 DEF SlotsInit, SlotsTypeOK, Stall
<1>3. \A t \in Planned : SlotInv(t)
  BY DEF SlotsInit, SlotInv
<1> QED BY <1>2, <1>3 DEF SlotsInv

LEMMA PassKeepsSlots == SlotsInv /\ Pass => SlotsInv'
<1> SUFFICES ASSUME SlotsInv, Pass PROVE SlotsInv'
  OBVIOUS
<1> DEFINE stepped == [t \in Planned |-> stepStall(stalls[t], measure[t])]
           slots == assignSlots(stepped)
<1>1. SlotsTypeOK /\ \A t \in Planned : SlotInv(t)
  BY DEF SlotsInv
<1>2. \A t \in Planned : stalls[t] \in Stall /\ measure[t] \in 0..Goal /\ idle[t] \in 0..(StallAfter + 2)
  BY <1>1 DEF SlotsTypeOK, Stall
<1>3. /\ stalls' = [t \in Planned |->
             IF t \in wanted THEN [stepped[t] EXCEPT !.slot = SlotAge(stepped[t], t \in slots)]
             ELSE NoStall]
      /\ state' = [t \in Planned |->
             IF t \in wanted THEN torrentState(t, stepped[t], t \in slots) ELSE "none"]
      /\ seen' = [t \in Planned |-> SeenNow(t)] /\ lastSeen' = LastSeenNow
      /\ passed' = TRUE
      /\ idle' = [t \in Planned |-> IF state'[t] = "downloading" /\ Holds(t) THEN idle[t] ELSE 0]
      /\ UNCHANGED <<wanted, measure, paused, onHold, current, active, slotChanges>>
  BY DEF Pass, outside
<1>4. ASSUME NEW t \in Planned
      PROVE  /\ stepped[t] \in Stall /\ stepped[t].progress = measure[t]
             /\ stalls[t].slot # NoSlot /\ stepped[t].retry = 0 =>
                  /\ stepped[t].slot = stalls[t].slot
                  /\ stepped[t].slot < StallAfter \/ stepped[t].since < StallAfter
                  /\ stepped[t].since = IF measure[t] > stalls[t].progress THEN 0 ELSE stalls[t].since
             /\ stalls[t].slot = NoSlot => stepped[t].slot = NoSlot
  BY <1>2, StallSteps
<1> HIDE DEF stepped, slots
<1>5. ASSUME NEW t \in Planned
      PROVE  stalls'[t] \in Stall /\ SlotAge(stepped[t], t \in slots) \in NoSlot..StallAfter
  <2>1. SlotAge(stepped[t], t \in slots) \in NoSlot..StallAfter
    BY <1>4, SlotsAssumption DEF SlotAge, NoSlot, Stall
  <2>2. NoStall \in Stall
    BY SlotNumbers
  <2>3. [stepped[t] EXCEPT !.slot = SlotAge(stepped[t], t \in slots)] \in Stall
    BY <1>4, <2>1 DEF Stall
  <2> QED BY <1>3, <2>1, <2>2, <2>3
<1>6. ASSUME NEW t \in Planned
      PROVE  state'[t] \in States /\ idle'[t] \in 0..(StallAfter + 2)
  <2>1. torrentState(t, stepped[t], t \in slots) \in States
    BY <1>1, StatesOfAPass
  <2> QED BY <1>2, <1>3, <2>1, SlotsAssumption DEF States
<1>7. SlotsTypeOK'
  <2>1. stalls' \in [Planned -> Stall]
    BY <1>3, <1>5
  <2>2. state' \in [Planned -> States] /\ idle' \in [Planned -> 0..(StallAfter + 2)]
    BY <1>3, <1>6
  <2>3. seen' \in [Planned -> 0..Long] /\ lastSeen' \in 0..Long
    BY <1>1, <1>3, SlotsAssumption DEF SlotsTypeOK, SeenNow, LastSeenNow, Long
  <2>4. wanted' \subseteq Planned /\ measure' \in [Planned -> 0..Goal] /\ paused' \subseteq Planned
    BY <1>1, <1>3 DEF SlotsTypeOK
  <2>5. /\ onHold' \in BOOLEAN /\ current' \subseteq Planned /\ active' \in BOOLEAN
        /\ passed' \in BOOLEAN /\ slotChanges' \in 0..MaxSlotChanges
    BY <1>1, <1>3 DEF SlotsTypeOK
  <2> QED BY <2>1, <2>2, <2>3, <2>4, <2>5 DEF SlotsTypeOK, Stall
<1>8. ASSUME NEW t \in Planned
      PROVE  SlotInv(t)'
  <2>1. CASE state'[t] # "downloading"
    BY <1>3, <2>1 DEF SlotInv
  <2>2. CASE state'[t] = "downloading"
    <3>1. t \in wanted /\ torrentState(t, stepped[t], t \in slots) = "downloading"
      BY <1>3, <2>2
    <3>2. t \in slots /\ stepped[t].retry = 0
      <4>1. t \in slots /\ ~(stepped[t].retry > 0)
        BY <1>1, <3>1, StatesOfAPass
      <4>2. stepped[t].retry \in Nat
        BY <1>4, SlotNumbers DEF Stall
      <4> QED BY <4>1, <4>2
    <3>3. /\ stalls'[t].slot = IF stepped[t].slot = NoSlot THEN 0 ELSE stepped[t].slot
          /\ stalls'[t].since = stepped[t].since
          /\ stalls'[t].progress = measure[t] /\ measure'[t] = measure[t]
      BY <1>3, <1>4, <3>1, <3>2 DEF SlotAge, Stall
    <3>4. idle'[t] = IF stalls[t].slot # NoSlot THEN idle[t] ELSE 0
      BY <1>3, <2>2 DEF Holds
    <3>5. CASE stalls[t].slot = NoSlot
      <4>1. stalls'[t].slot = 0 /\ idle'[t] = 0
        BY <1>4, <3>3, <3>4, <3>5
      <4>2. stalls'[t].since \in 0..StallAfter
        BY <1>4, <3>3 DEF Stall
      <4> QED
        BY <1>2, <1>3, <2>2, <3>3, <4>1, <4>2, SlotsAssumption DEF SlotInv, Holds, NoSlot
    <3>6. CASE stalls[t].slot # NoSlot
      <4>1. /\ stalls'[t].slot = stalls[t].slot
            /\ stalls'[t].slot < StallAfter \/ stalls'[t].since < StallAfter
            /\ stalls'[t].since = IF measure[t] > stalls[t].progress THEN 0 ELSE stalls[t].since
            /\ idle'[t] = idle[t]
        BY <1>4, <3>2, <3>3, <3>4, <3>6
      <4>2. /\ idle[t] <= stalls[t].slot + 1 /\ idle[t] <= stalls[t].since + 1
            /\ measure[t] > stalls[t].progress => idle[t] <= 1
        BY <1>1, <1>2, <3>6, SlotsAssumption DEF SlotInv, Stall, NoSlot
      <4>3. idle'[t] <= stalls'[t].slot + 1 /\ idle'[t] <= stalls'[t].since + 1
        BY <4>1, <4>2
      <4> QED
        BY <1>2, <1>3, <2>2, <3>3, <3>6, <4>1, <4>3 DEF SlotInv, Holds
    <3> QED BY <3>5, <3>6
  <2> QED BY <2>1, <2>2
<1> QED BY <1>7, <1>8 DEF SlotsInv

LEMMA TickKeepsSlots == SlotsInv /\ Tick => SlotsInv'
<1> SUFFICES ASSUME SlotsInv, Tick PROVE SlotsInv'
  OBVIOUS
<1> DEFINE fetched(t) == t \in Live /\ (Downloads(t) \/ t \in current) /\ measure[t] < Goal
<1>1. SlotsTypeOK /\ \A t \in Planned : SlotInv(t)
  BY DEF SlotsInv
<1>2. \A t \in Planned : stalls[t] \in Stall /\ measure[t] \in 0..Goal /\ idle[t] \in 0..(StallAfter + 2)
  BY <1>1 DEF SlotsTypeOK, Stall
<1>3. /\ passed /\ passed' = FALSE
      /\ measure' = [t \in Planned |-> IF fetched(t) THEN measure[t] + 1 ELSE measure[t]]
      /\ idle' = [t \in Planned |->
            IF Downloads(t) /\ ~fetched(t) THEN Older(idle[t], StallAfter + 2) ELSE 0]
      /\ stalls' = [t \in Planned |-> [stalls[t] EXCEPT
            !.slot = IF @ = NoSlot THEN NoSlot ELSE Older(@, StallAfter),
            !.since = Older(@, StallAfter),
            !.retry = IF @ > 0 THEN @ - 1 ELSE 0]]
      /\ seen' = [t \in Planned |-> Older(seen[t], Long)]
      /\ lastSeen' = Older(lastSeen, Long)
      /\ UNCHANGED <<wanted, paused, onHold, current, active, state, slotChanges>>
  BY DEF Tick
<1>0. \A t : fetched(t) => measure[t] < Goal
  OBVIOUS
<1> HIDE DEF fetched
<1>4. ASSUME NEW t \in Planned
      PROVE  /\ stalls'[t] \in Stall /\ stalls'[t].progress = stalls[t].progress
             /\ stalls'[t].since = Older(stalls[t].since, StallAfter)
             /\ stalls[t].slot # NoSlot =>
                  stalls'[t].slot = Older(stalls[t].slot, StallAfter) /\ stalls'[t].slot # NoSlot
  <2>1. stalls[t].slot # NoSlot => Older(stalls[t].slot, StallAfter) \in 0..StallAfter
    BY <1>2, OlderIsCapped, SlotsAssumption DEF Stall, NoSlot
  <2>2. Older(stalls[t].since, StallAfter) \in 0..StallAfter
    BY <1>2, OlderIsCapped, SlotsAssumption DEF Stall
  <2>3. stalls'[t] = [stalls[t] EXCEPT
            !.slot = IF stalls[t].slot = NoSlot THEN NoSlot ELSE Older(stalls[t].slot, StallAfter),
            !.since = Older(stalls[t].since, StallAfter),
            !.retry = IF stalls[t].retry > 0 THEN stalls[t].retry - 1 ELSE 0]
    BY <1>3
  <2>4. /\ (IF stalls[t].slot = NoSlot THEN NoSlot ELSE Older(stalls[t].slot, StallAfter))
             \in NoSlot..StallAfter
        /\ (IF stalls[t].retry > 0 THEN stalls[t].retry - 1 ELSE 0) \in 0..StallBackoffMax
        /\ stalls[t].slot # NoSlot => Older(stalls[t].slot, StallAfter) # NoSlot
    BY <1>2, <2>1, SlotNumbers DEF Stall
  <2>5. stalls'[t] \in Stall
    BY <1>2, <2>2, <2>3, <2>4 DEF Stall
  <2>6. /\ stalls'[t].progress = stalls[t].progress
        /\ stalls'[t].since = Older(stalls[t].since, StallAfter)
        /\ stalls[t].slot # NoSlot => stalls'[t].slot = Older(stalls[t].slot, StallAfter)
    BY <1>2, <2>3 DEF Stall
  <2> QED BY <2>4, <2>5, <2>6
<1>5. ASSUME NEW t \in Planned
      PROVE  /\ measure'[t] \in 0..Goal /\ idle'[t] \in 0..(StallAfter + 2)
             /\ seen'[t] \in 0..Long
  <2>1. measure'[t] \in 0..Goal
    <3>1. measure'[t] = IF fetched(t) THEN measure[t] + 1 ELSE measure[t]
      BY <1>3
    <3> QED BY <1>0, <1>2, <3>1, SlotNumbers
  <2>2. idle'[t] \in 0..(StallAfter + 2)
    <3>1. Older(idle[t], StallAfter + 2) \in 0..(StallAfter + 2)
      BY <1>2, OlderIsCapped, SlotNumbers, StallAfter + 2 \in Nat
    <3>2. idle'[t] = IF Downloads(t) /\ ~fetched(t) THEN Older(idle[t], StallAfter + 2) ELSE 0
      BY <1>3
    <3> QED BY <3>1, <3>2, SlotNumbers
  <2>3. seen[t] \in 0..Long
    BY <1>1 DEF SlotsTypeOK
  <2>4. seen'[t] \in 0..Long
    BY <1>3, <2>3, OlderIsCapped, SlotsAssumption DEF Long
  <2> QED BY <2>1, <2>2, <2>4
<1>6. SlotsTypeOK'
  <2>1. stalls' \in [Planned -> Stall]
    BY <1>3, <1>4
  <2>2. measure' \in [Planned -> 0..Goal] /\ idle' \in [Planned -> 0..(StallAfter + 2)]
    BY <1>3, <1>5
  <2>3. lastSeen' \in 0..Long
    BY <1>1, <1>3, OlderIsCapped, SlotsAssumption DEF SlotsTypeOK, Long
  <2>4. seen' \in [Planned -> 0..Long]
    BY <1>3, <1>5
  <2>5. /\ wanted' \subseteq Planned /\ paused' \subseteq Planned
        /\ onHold' \in BOOLEAN /\ current' \subseteq Planned /\ active' \in BOOLEAN
        /\ state' \in [Planned -> States] /\ passed' \in BOOLEAN
        /\ slotChanges' \in 0..MaxSlotChanges
    BY <1>1, <1>3 DEF SlotsTypeOK
  <2> QED BY <2>1, <2>2, <2>3, <2>4, <2>5 DEF SlotsTypeOK, Stall
<1>7. ASSUME NEW t \in Planned
      PROVE  SlotInv(t)'
  <2>1. state'[t] = state[t]
    BY <1>3
  <2>2. CASE state[t] # "downloading"
    BY <1>3, <2>1, <2>2 DEF SlotInv, Downloads
  <2>3. CASE state[t] = "downloading"
    <3>1. /\ stalls[t].slot # NoSlot /\ idle[t] <= stalls[t].slot + 1 /\ idle[t] <= stalls[t].since + 1
          /\ stalls[t].slot < StallAfter \/ stalls[t].since < StallAfter
          /\ measure[t] > stalls[t].progress => idle[t] <= 0
      BY <1>1, <1>3, <2>3 DEF SlotInv, Holds
    <3>2. stalls[t].slot \in 0..StallAfter /\ stalls[t].since \in 0..StallAfter
      BY <1>2, <3>1 DEF Stall, NoSlot
    <3>3. /\ stalls'[t].slot = (IF stalls[t].slot < StallAfter THEN stalls[t].slot + 1 ELSE StallAfter)
          /\ stalls'[t].since = (IF stalls[t].since < StallAfter THEN stalls[t].since + 1 ELSE StallAfter)
      BY <1>4, <3>1, <3>2, OlderIsCapped, SlotsAssumption
    <3>4. CASE Downloads(t) /\ ~fetched(t)
      <4>1. idle'[t] = idle[t] + 1 /\ measure'[t] = measure[t]
        <5>1. idle[t] < StallAfter + 2
          BY <1>2, <3>1, <3>2, SlotNumbers
        <5>2. idle'[t] = Older(idle[t], StallAfter + 2) /\ measure'[t] = measure[t]
          BY <1>3, <3>4
        <5> QED BY <5>1, <5>2 DEF Older
      <4>2. idle'[t] <= stalls'[t].slot + 1 /\ idle'[t] <= stalls'[t].since + 1
        BY <1>2, <3>1, <3>2, <3>3, <4>1, SlotsAssumption
      <4>3. measure'[t] > stalls'[t].progress => idle'[t] <= 1
        BY <1>2, <1>4, <3>1, <4>1
      <4>4. stalls'[t].slot # NoSlot /\ passed' = FALSE /\ state'[t] = "downloading"
        BY <1>3, <1>4, <2>1, <2>3, <3>1
      <4> QED BY <4>2, <4>3, <4>4 DEF SlotInv, Holds
    <3>5. CASE ~(Downloads(t) /\ ~fetched(t))
      <4>1. idle'[t] = 0
        BY <1>3, <3>5
      <4>2. stalls'[t].slot >= 0 /\ stalls'[t].since >= 0
        BY <3>2, <3>3, SlotsAssumption
      <4>3. stalls'[t].slot \in Int /\ stalls'[t].since \in Int
        BY <1>4 DEF Stall
      <4>4. stalls'[t].slot # NoSlot /\ passed' = FALSE /\ state'[t] = "downloading"
        BY <1>3, <1>4, <2>1, <2>3, <3>1
      <4>5. idle'[t] <= stalls'[t].slot + 1 /\ idle'[t] <= stalls'[t].since + 1 /\ idle'[t] <= 1
        BY <4>1, <4>2, <4>3
      <4> QED BY <4>4, <4>5 DEF SlotInv, Holds
    <3> QED BY <3>4, <3>5
  <2> QED BY <2>2, <2>3
<1> QED BY <1>6, <1>7 DEF SlotsInv

LEMMA ArrivalsKeepSlots ==
    ASSUME SlotsInv, NEW u \in Planned, NEW m \in {measure[u] - 1, measure[u] + 1}, Arrives(u, m)
    PROVE  SlotsInv'
<1>1. SlotsTypeOK /\ \A t \in Planned : SlotInv(t)
  BY DEF SlotsInv
<1>2. /\ m \in 0..Goal /\ measure' = [measure EXCEPT ![u] = m]
      /\ idle' = IF m > measure[u] THEN [idle EXCEPT ![u] = 0] ELSE idle
      /\ slotChanges < MaxSlotChanges /\ slotChanges' = slotChanges + 1
      /\ UNCHANGED <<wanted, paused, onHold, current, active, seen, lastSeen, stalls, state, passed>>
  BY DEF Arrives, SlotChange
<1>3. SlotsTypeOK'
  BY <1>1, <1>2, SlotsAssumption DEF SlotsTypeOK
<1>4. ASSUME NEW t \in Planned
      PROVE  SlotInv(t)'
  <2>1. /\ stalls[t] \in Stall /\ measure[t] \in 0..Goal /\ idle[t] \in 0..(StallAfter + 2)
        /\ stalls'[t] = stalls[t] /\ state'[t] = state[t] /\ passed' = passed
    BY <1>1, <1>2 DEF SlotsTypeOK, Stall
  <2>2. /\ idle'[t] = idle[t] /\ measure'[t] <= measure[t]
        \/ idle'[t] = 0
    BY <1>1, <1>2, <2>1 DEF SlotsTypeOK
  <2>3. SlotInv(t) /\ measure'[t] \in 0..Goal
    BY <1>1, <1>3 DEF SlotsTypeOK
  <2>4. CASE idle'[t] = idle[t] /\ measure'[t] <= measure[t]
    BY <2>1, <2>3, <2>4 DEF SlotInv, Holds, Stall
  <2>5. CASE idle'[t] = 0
    BY <2>1, <2>3, <2>5 DEF SlotInv, Holds, Stall, NoSlot
  <2> QED BY <2>2, <2>4, <2>5
<1> QED BY <1>3, <1>4 DEF SlotsInv

LEMMA ChangesKeepSlots ==
    ASSUME SlotsInv, NEW w \in SUBSET Planned, NEW p \in SUBSET Planned, NEW h \in BOOLEAN,
           NEW c \in SUBSET Planned, NEW a \in BOOLEAN, Changes(w, p, h, c, a)
    PROVE  SlotsInv'
<1>1. SlotsTypeOK /\ \A t \in Planned : SlotInv(t)
  BY DEF SlotsInv
<1>2. /\ wanted' = w /\ paused' = p /\ onHold' = h /\ current' = c /\ active' = (a \/ c # {})
      /\ slotChanges < MaxSlotChanges /\ slotChanges' = slotChanges + 1
      /\ UNCHANGED <<measure, seen, lastSeen, stalls, state, passed, idle>>
  BY DEF Changes, SlotChange
<1>3. active' \in BOOLEAN
  BY <1>2
<1>4. slotChanges' \in 0..MaxSlotChanges
  BY <1>1, <1>2, SlotsAssumption DEF SlotsTypeOK
<1>5. SlotsTypeOK'
  BY <1>1, <1>2, <1>3, <1>4 DEF SlotsTypeOK
<1>6. \A t \in Planned : SlotInv(t)'
  BY <1>1, <1>2 DEF SlotInv, Holds
<1> QED BY <1>5, <1>6 DEF SlotsInv

LEMMA RestartKeepsSlots == SlotsInv /\ SlotsRestart => SlotsInv'
<1> SUFFICES ASSUME SlotsInv, SlotsRestart PROVE SlotsInv'
  OBVIOUS
<1>1. stalls' \in [Planned -> Stall]
  BY SlotNumbers DEF SlotsRestart
<1>2. slotChanges' \in 0..MaxSlotChanges
  BY SlotNumbers DEF SlotsRestart, SlotChange, SlotsInv, SlotsTypeOK
<1>3. SlotsTypeOK'
  <2>1. /\ state' \in [Planned -> States] /\ idle' \in [Planned -> 0..(StallAfter + 2)]
        /\ seen' \in [Planned -> 0..Long] /\ lastSeen' \in 0..Long
    BY SlotNumbers DEF SlotsRestart, States
  <2> QED BY <1>1, <1>2, <2>1 DEF SlotsRestart, SlotsInv, SlotsTypeOK, Stall
<1>4. \A t \in Planned : SlotInv(t)'
  BY DEF SlotsRestart, SlotInv
<1> QED BY <1>3, <1>4 DEF SlotsInv

LEMMA SlotsStep == SlotsInv /\ [SlotsNext]_slotVars => SlotsInv'
<1> SUFFICES ASSUME SlotsInv, [SlotsNext]_slotVars PROVE SlotsInv'
  OBVIOUS
<1>1. SlotsTypeOK
  BY DEF SlotsInv
<1>2. CASE Pass
  BY <1>2, PassKeepsSlots
<1>3. CASE Tick
  BY <1>3, TickKeepsSlots
<1>4. CASE SlotsRestart
  BY <1>4, RestartKeepsSlots
<1>5. ASSUME NEW t \in Planned, NEW m \in {measure[t] - 1, measure[t] + 1}, Arrives(t, m)
      PROVE  SlotsInv'
  BY <1>5, ArrivalsKeepSlots
<1>6. ASSUME NEW t \in Planned
      PROVE  /\ Flip(wanted, t) \in SUBSET Planned /\ Flip(paused, t) \in SUBSET Planned
             /\ Flip(current, t) \in SUBSET Planned
  BY <1>1 DEF Flip, SlotsTypeOK
<1>7. /\ wanted \in SUBSET Planned /\ paused \in SUBSET Planned /\ current \in SUBSET Planned
      /\ onHold \in BOOLEAN /\ active \in BOOLEAN
  BY <1>1 DEF SlotsTypeOK
<1>8. ASSUME NEW t \in Planned,
             \/ Changes(Flip(wanted, t), paused, onHold, current, active)
             \/ Changes(wanted, Flip(paused, t), onHold, current, active)
             \/ Changes(wanted, paused, onHold, Flip(current, t), FALSE)
      PROVE  SlotsInv'
  BY <1>6, <1>7, <1>8, ChangesKeepSlots
<1>9. CASE Changes(wanted, paused, ~onHold, current, active)
  BY <1>7, <1>9, ChangesKeepSlots
<1>10. CASE Changes(wanted, paused, onHold, {}, ~active)
  BY <1>7, <1>10, ChangesKeepSlots
<1>11. CASE UNCHANGED slotVars
  BY <1>11 DEF slotVars, outside, SlotsInv, SlotsTypeOK, SlotInv, Holds
<1> QED
  BY <1>2, <1>3, <1>4, <1>5, <1>8, <1>9, <1>10, <1>11 DEF SlotsNext

LEMMA SlotsInvariant == SlotsSpec => []SlotsInv
BY SlotsStart, SlotsStep, PTL DEF SlotsSpec

\* The stalls, states and ages of the planner keep their types: a backoff
\* always waits, and no longer than its maximum.
THEOREM SlotsTypeCorrect == SlotsSpec => []SlotsTypeOK
BY SlotsInvariant, PTL DEF SlotsInv

\* No torrent of any plan keeps its slot with nothing arriving for longer
\* than StallAfter and the time to the pass that notices, for any number of
\* slots, whatever the earlier progress, losses, pauses and restarts.
THEOREM SlotsAlwaysRotate == SlotsSpec => []SlotsRotate
<1>1. SlotsInv => SlotsRotate
  <2> SUFFICES ASSUME SlotsInv, NEW t \in Planned PROVE idle[t] <= StallAfter + 1
    BY DEF SlotsRotate
  <2>1. SlotInv(t) /\ idle[t] \in 0..(StallAfter + 2) /\ stalls[t] \in Stall
    BY DEF SlotsInv, SlotsTypeOK, Stall
  <2> QED BY <2>1, SlotsAssumption DEF SlotInv, Stall, NoSlot
<1> QED BY <1>1, SlotsInvariant, PTL
=============================================================================
