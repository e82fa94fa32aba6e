----------------------------- MODULE Downloads -----------------------------
(***************************************************************************)
(* The download manager's passes (internal/downloads/manager.go) over the  *)
(* piece cache, as PinStore promises it, and the torrent client.  A pass   *)
(* plans from what it reads (plan) and carries the plan out (apply) while  *)
(* the cache evicts, the client fetches, torrents load and go, and the     *)
(* library changes.                                                        *)
(*                                                                         *)
(* Which files the caps admit and which torrents get a slot is decided in  *)
(* Admission and DownloadSlots; here both come from outside.               *)
(***************************************************************************)
EXTENDS Integers, FiniteSets

CONSTANTS
    Torrent, File, Piece,
    TorrentOf,    \* the torrent of each file
    PiecesOf,     \* the pieces of each file; neighbours share one
    MaxChanges    \* bound on the changes from outside

PiecesIn(files) == UNION {PiecesOf[f] : f \in files}
FilesOf(t, files) == {f \in files : TorrentOf[f] = t}

ASSUME DownloadsAssumption ==
    /\ TorrentOf \in [File -> Torrent] /\ PiecesOf \in [File -> SUBSET Piece]
    /\ \A f, g \in File : PiecesOf[f] \cap PiecesOf[g] # {} => TorrentOf[f] = TorrentOf[g]
    /\ MaxChanges \in Nat

VARIABLES
    \* The library and the user.
    kept,        \* the admitted files
    waiting,     \* the torrents without a slot
    \* The cache.
    store, owners, held, busy,
    \* The client.
    loaded, complete,   \* its torrents, and the pieces it believes complete
    priority,           \* the files at Normal
    metainfo,           \* the torrents whose metainfo is stored
    removing,           \* those a DELETE is removing
    \* The manager.
    phase, plan, todo,
    maps,                        \* the torrents whose pieces it knows
    pinned, normal,              \* per torrent, the files pinned and set to Normal
    prevKey, prevHave, prevLive, resynced,
    restored, loading, loadFailed,
    \* History and bounds.
    safe,        \* the files kept since the last pass, or the start, saw them
    fellBack,    \* the cache's deferral ended by its timer before a pass ended
    changes

library == <<kept, waiting>>
cache == <<store, owners, held, busy>>
client == <<loaded, complete, priority, metainfo, removing>>
memory == <<maps, pinned, normal, prevKey, prevHave, prevLive, resynced, restored>>
pass == <<phase, plan, todo>>
loads == <<loading, loadFailed>>
history == <<safe, fellBack, changes>>
vars == <<library, cache, client, memory, pass, loads, history>>

Key == Piece \X {"complete"}
Cache == INSTANCE PinStore WITH Hex <- Piece, Owner <- Torrent
InCache(i) == <<i, "complete">> \in store

-----------------------------------------------------------------------------
NoFiles == [t \in Torrent |-> {}]
NoPlan == [files |-> {}, live |-> {}, refs |-> {}, have |-> {}, slots |-> {}, loads |-> FALSE]
Wanted == {t \in Torrent : FilesOf(t, plan.files) # {}}
KeyOf(t) == FilesOf(t, plan.files)

\* A process starts with nothing loaded or pinned; main holds the trims.
Fresh ==
    /\ loaded' = {} /\ complete' = {} /\ priority' = {} /\ removing' = {}
    /\ phase' = "off" /\ plan' = NoPlan /\ todo' = {}
    /\ maps' = {} /\ pinned' = NoFiles /\ normal' = NoFiles
    /\ prevKey' = NoFiles /\ prevHave' = {} /\ prevLive' = {} /\ resynced' = NoFiles
    /\ restored' = FALSE /\ loading' = {} /\ loadFailed' = {}

Init ==
    /\ kept \in SUBSET File /\ waiting = {}
    /\ store \in SUBSET Key /\ owners = [t \in Torrent |-> {}] /\ held = FALSE /\ busy = FALSE
    /\ loaded = {} /\ complete = {} /\ priority = {} /\ removing = {}
    /\ metainfo \in SUBSET Torrent
    /\ phase = "off" /\ plan = NoPlan /\ todo = {}
    /\ maps = {} /\ pinned = NoFiles /\ normal = NoFiles
    /\ prevKey = NoFiles /\ prevHave = {} /\ prevLive = {} /\ resynced = NoFiles
    /\ restored = FALSE /\ loading = {} /\ loadFailed = {}
    /\ safe = {f \in kept : TorrentOf[f] \in metainfo} /\ fellBack = FALSE /\ changes = 0

DeferTrim ==
    /\ phase = "off" /\ phase' = "starting"
    /\ Cache!Hold
    /\ UNCHANGED <<library, client, memory, plan, todo, loads, history>>

-----------------------------------------------------------------------------
(* plan.                                                                   *)

\* The rows and the loaded torrents.  RestorePins, the first pass, loads
\* nothing.
PassReads ==
    /\ phase \in {"starting", "idle"} /\ phase' = "planning"
    /\ plan' = [NoPlan EXCEPT !.files = kept, !.live = loaded, !.loads = phase = "idle"]
    /\ UNCHANGED <<library, cache, client, memory, todo, loads, history>>

\* The pieces on disk, torrent by torrent, and their states; a torrent whose
\* info neither the store nor the client has is not known yet.
PassLooks ==
    /\ phase = "planning" /\ phase' = "pinning"
    /\ maps' = maps \cup (Wanted \cap (metainfo \cup loaded))
    /\ LET refs == Wanted \cap maps'
           have == {i \in PiecesIn({f \in plan.files : TorrentOf[f] \in refs}) : InCache(i)}
           done(t) == t \in refs /\ PiecesIn(KeyOf(t)) \subseteq have
       IN  plan' = [plan EXCEPT !.refs = refs, !.have = have,
                                !.slots = {t \in Wanted \ waiting : ~done(t)}]
    /\ UNCHANGED <<library, cache, client, todo, loads, history,
                   pinned, normal, prevKey, prevHave, prevLive, resynced, restored>>

-----------------------------------------------------------------------------
(* apply.                                                                  *)

\* One owner per torrent, all pins before any unpin.
PinTorrent(t) ==
    /\ phase = "pinning" /\ t \in plan.refs /\ pinned[t] # KeyOf(t)
    /\ Cache!Pin(t, PiecesIn(KeyOf(t)))
    /\ pinned' = [pinned EXCEPT ![t] = KeyOf(t)]
    /\ UNCHANGED <<library, client, pass, loads, history,
                   maps, normal, prevKey, prevHave, prevLive, resynced, restored>>

ToPin == {t \in plan.refs : pinned[t] # KeyOf(t)}
ToUnpin == {t \in Torrent \ plan.refs : pinned[t] # {}}

\* As if the unpinned torrent still counted as read again.
BugUnpinTorrent(t) ==
    /\ phase = "pinning" /\ ToPin = {} /\ t \in ToUnpin
    /\ Cache!Pin(t, {})
    /\ pinned' = [pinned EXCEPT ![t] = {}]
    /\ UNCHANGED <<library, client, pass, loads, history,
                   maps, normal, prevKey, prevHave, prevLive, resynced, restored>>

\* Unpinned, its pieces may go: a new Keep reads all of it again.
UnpinTorrent(t) ==
    /\ phase = "pinning" /\ ToPin = {} /\ t \in ToUnpin
    /\ Cache!Pin(t, {})
    /\ pinned' = [pinned EXCEPT ![t] = {}] /\ resynced' = [resynced EXCEPT ![t] = {}]
    /\ UNCHANGED <<library, client, pass, loads, history,
                   maps, normal, prevKey, prevHave, prevLive, restored>>

\* As if the cache could trim before the pins are back.
BugPassPinned ==
    /\ phase = "pinning" /\ phase' = "driving"
    /\ todo' = Wanted
    /\ restored' = TRUE
    /\ IF restored THEN UNCHANGED cache ELSE Cache!Release
    /\ UNCHANGED <<library, client, plan, loads, history,
                   maps, pinned, normal, prevKey, prevHave, prevLive, resynced>>

\* The first pass with pins lets the cache trim.
PassPinned ==
    /\ phase = "pinning" /\ ToPin = {} /\ ToUnpin = {} /\ phase' = "driving"
    /\ todo' = Wanted
    /\ restored' = TRUE
    /\ IF restored THEN UNCHANGED cache ELSE Cache!Release
    /\ UNCHANGED <<library, client, plan, loads, history,
                   maps, pinned, normal, prevKey, prevHave, prevLive, resynced>>

\* resync: the pieces to ask the client about.  All those missing on the
\* first pass since the torrent loaded or its pins changed, else those the
\* cache lost since the last pass.
ToCheck(t) ==
    LET full == t \notin prevLive \/ resynced[t] # KeyOf(t)
    IN  {i \in PiecesIn(KeyOf(t)) \ plan.have :
            full \/ (prevKey[t] = KeyOf(t) /\ i \in prevHave)}

\* The client reads those it believes complete from the cache again.  One
\* that unloaded meanwhile is asked by the next pass.
resync(t) ==
    IF t \notin plan.refs THEN UNCHANGED <<complete, resynced>>
    ELSE LET lost == {i \in ToCheck(t) : t \in loaded /\ ~InCache(i)}
         IN  /\ complete' = complete \ lost
             /\ resynced' = [resynced EXCEPT ![t] =
                               IF ToCheck(t) = {} \/ t \in loaded THEN KeyOf(t) ELSE {}]

\* As if files it no longer wants stayed.
BugSetPriorities(t, slot) ==
    /\ normal' = [normal EXCEPT ![t] = slot]
    /\ priority' = IF t \in loaded THEN (priority \ KeyOf(t)) \cup slot ELSE priority

\* The files to reset are those of the torrent that wait, and those it set
\* before and no longer wants.
SetPriorities(t, slot) ==
    /\ normal' = [normal EXCEPT ![t] = slot]
    /\ priority' = IF t \in loaded THEN (priority \ (normal[t] \cup KeyOf(t))) \cup slot
                   ELSE priority

DriveLoaded(t) ==
    /\ phase = "driving" /\ t \in todo \cap plan.live
    /\ todo' = todo \ {t}
    /\ SetPriorities(t, IF t \in plan.slots THEN KeyOf(t) ELSE {})
    /\ resync(t)
    /\ UNCHANGED <<library, cache, loaded, metainfo, removing, phase, plan, loads, history,
                   maps, pinned, prevKey, prevHave, prevLive, restored>>

\* Loading goes on in the background, one at a time and not soon after a
\* failure.
DriveUnloaded(t) ==
    /\ phase = "driving" /\ t \in todo \ plan.live
    /\ todo' = todo \ {t}
    /\ loading' = IF plan.loads /\ t \in plan.slots \ loadFailed THEN loading \cup {t} ELSE loading
    /\ UNCHANGED <<library, cache, client, phase, plan, memory, loadFailed, history>>

\* The torrents no longer wanted are reset, and the pass is remembered.
PassEnds ==
    /\ phase = "driving" /\ todo = {} /\ phase' = "idle"
    /\ priority' = priority \ UNION {normal[t] : t \in plan.live \ Wanted}
    /\ normal' = [t \in Torrent |-> IF t \in Wanted THEN normal[t] ELSE {}]
    /\ prevKey' = [t \in Torrent |-> IF t \in plan.refs THEN KeyOf(t) ELSE {}]
    /\ prevHave' = plan.have /\ prevLive' = plan.live
    /\ resynced' = [t \in Torrent |-> IF t \in plan.live THEN resynced[t] ELSE {}]
    /\ safe' = {f \in kept \cap plan.files : TorrentOf[f] \in plan.refs}
    /\ plan' = NoPlan /\ fellBack' = FALSE
    /\ UNCHANGED <<library, cache, loaded, complete, metainfo, removing, todo, loads,
                   maps, pinned, restored, changes>>

-----------------------------------------------------------------------------
(* The client, the cache and the world.                                    *)

Change == changes < MaxChanges /\ changes' = changes + 1
Runs == phase # "off"

\* A loaded torrent starts with no file at Normal, and with the pieces the
\* cache has.
Loads(t) ==
    /\ t \notin loaded \cup removing
    /\ loaded' = loaded \cup {t} /\ metainfo' = metainfo \cup {t}
    /\ complete' = complete \cup {i \in PiecesIn(FilesOf(t, File)) : InCache(i)}
    /\ UNCHANGED <<priority, removing>>

LoadEnds(t) ==
    /\ t \in loading /\ loading' = loading \ {t} /\ loadFailed' = loadFailed \ {t}
    /\ IF t \in loaded THEN UNCHANGED client ELSE Loads(t)
    /\ UNCHANGED <<library, cache, memory, pass, history>>

LoadFails(t) ==
    /\ Change /\ t \in loading
    /\ loading' = loading \ {t} /\ loadFailed' = loadFailed \cup {t}
    /\ UNCHANGED <<library, cache, client, memory, pass, safe, fellBack>>

RetryDue(t) ==
    /\ t \in loadFailed /\ loadFailed' = loadFailed \ {t}
    /\ UNCHANGED <<library, cache, client, memory, pass, loading, history>>

\* A player opens a file of it.
OpenLoads(t) ==
    /\ Change /\ Runs /\ Loads(t)
    /\ UNCHANGED <<library, cache, memory, pass, loads, safe, fellBack>>

\* DELETE /torrents: it goes from the client, then some or all of its pieces
\* and its metainfo go.  Its hash stays locked until then.
RemoveTorrent(t) ==
    /\ Change /\ Runs /\ t \in (loaded \cup metainfo) \ removing
    /\ loaded' = loaded \ {t} /\ removing' = removing \cup {t}
    /\ complete' = complete \ PiecesIn(FilesOf(t, File)) /\ priority' = priority \ FilesOf(t, File)
    /\ UNCHANGED <<library, cache, metainfo, memory, pass, loads, safe, fellBack>>

DeletePiece(t, i) ==
    /\ t \in removing /\ i \in PiecesIn(FilesOf(t, File))
    /\ Cache!Delete(<<i, "complete">>) /\ InCache(i)
    /\ UNCHANGED <<library, client, memory, pass, loads, history>>

RemoveEnds(t) ==
    /\ t \in removing /\ removing' = removing \ {t}
    /\ metainfo' = metainfo \ {t} /\ safe' = safe \ FilesOf(t, File)
    /\ UNCHANGED <<library, cache, loaded, complete, priority, memory, pass, loads, fellBack, changes>>

\* The client fetches a piece it lacks, a file at Normal's or a reader's.
Fetches(i) ==
    /\ i \notin complete /\ \E f \in File : i \in PiecesOf[f] /\ TorrentOf[f] \in loaded
    /\ Cache!Add(<<i, "complete">>)
    /\ complete' = complete \cup {i}
    /\ UNCHANGED <<library, loaded, priority, metainfo, removing, memory, pass, loads>>
FetchesWanted(i) == i \in PiecesIn(priority) /\ Fetches(i) /\ UNCHANGED history
FetchesStreamed(i) == Change /\ Fetches(i) /\ UNCHANGED <<safe, fellBack>>

Evicts(i) ==
    /\ Cache!Evict(<<i, "complete">>)
    /\ UNCHANGED <<library, client, memory, pass, loads, history>>
MakesRoom ==
    \/ \E i \in Piece : Evicts(i)
    \/ Cache!Rests /\ UNCHANGED <<library, client, memory, pass, loads, history>>
Trims ==
    /\ Runs /\ Cache!Trim
    /\ UNCHANGED <<library, client, memory, pass, loads, history>>

Fallback ==
    /\ Runs /\ ~restored /\ ~fellBack /\ Cache!Release /\ fellBack' = TRUE
    /\ UNCHANGED <<library, client, memory, pass, loads, safe, changes>>

\* Keeps, releases, watches, expiries and assignments; pauses, holds and slots.
Admits(f) ==
    /\ Change /\ Runs
    /\ kept' = (kept \ {f}) \cup ({f} \ kept) /\ safe' = safe \ {f}
    /\ UNCHANGED <<waiting, cache, client, memory, pass, loads, fellBack>>
Waits(t) ==
    /\ Change /\ Runs
    /\ waiting' = (waiting \ {t}) \cup ({t} \ waiting)
    /\ UNCHANGED <<kept, cache, client, memory, pass, loads, safe, fellBack>>

\* A plan's reads fail.
PassFails ==
    /\ Change /\ phase = "planning" /\ phase' = "idle" /\ plan' = NoPlan
    /\ UNCHANGED <<library, cache, client, memory, todo, loads, safe, fellBack>>

Restart ==
    /\ Change /\ Fresh
    /\ store' = store /\ Cache!Restart
    /\ safe' = {f \in kept : TorrentOf[f] \in metainfo} /\ fellBack' = FALSE
    /\ UNCHANGED <<library, metainfo>>

Applies == PassLooks \/ (\E t \in Torrent : PinTorrent(t) \/ UnpinTorrent(t)) \/ PassPinned
           \/ (\E t \in Torrent : DriveLoaded(t) \/ DriveUnloaded(t)) \/ PassEnds
Next ==
    \/ DeferTrim \/ PassReads \/ PassFails \/ PassLooks \/ PassPinned \/ PassEnds
    \/ MakesRoom \/ Trims \/ Fallback \/ Restart
    \/ \E t \in Torrent :
          \/ PinTorrent(t) \/ UnpinTorrent(t) \/ DriveLoaded(t) \/ DriveUnloaded(t)
          \/ LoadEnds(t) \/ LoadFails(t) \/ RetryDue(t) \/ OpenLoads(t) \/ Waits(t)
          \/ RemoveTorrent(t) \/ RemoveEnds(t)
          \/ \E i \in Piece : DeletePiece(t, i)
    \/ \E i \in Piece : FetchesWanted(i) \/ FetchesStreamed(i)
    \/ \E f \in File : Admits(f)

Spec == Init /\ [][Next]_vars

\* Passes run on and on, and get the cache's mutex in the end; the cache
\* stops making room; a load that does not fail ends; peers deliver.
FairSpec ==
    /\ Spec
    /\ WF_vars(DeferTrim) /\ WF_vars(PassReads) /\ SF_vars(Applies)
    /\ WF_vars(MakesRoom)
    /\ \A t \in Torrent : WF_vars(LoadEnds(t)) /\ WF_vars(RetryDue(t)) /\ WF_vars(RemoveEnds(t))
    /\ \A i \in Piece : SF_vars(FetchesWanted(i))

-----------------------------------------------------------------------------
TypeOK ==
    /\ kept \subseteq File /\ waiting \subseteq Torrent
    /\ store \subseteq Key /\ owners \in [Torrent -> SUBSET Piece] /\ held \in BOOLEAN /\ busy \in BOOLEAN
    /\ loaded \subseteq Torrent /\ complete \subseteq Piece /\ priority \subseteq File
    /\ metainfo \subseteq Torrent /\ removing \subseteq Torrent
    /\ phase \in {"off", "starting", "planning", "pinning", "driving", "idle"}
    /\ plan \in [files : SUBSET File, live : SUBSET Torrent, refs : SUBSET Torrent,
                 have : SUBSET Piece, slots : SUBSET Torrent, loads : BOOLEAN]
    /\ todo \subseteq Torrent /\ maps \subseteq Torrent
    /\ pinned \in [Torrent -> SUBSET File] /\ normal \in [Torrent -> SUBSET File]
    /\ prevKey \in [Torrent -> SUBSET File] /\ prevHave \subseteq Piece /\ prevLive \subseteq Torrent
    /\ resynced \in [Torrent -> SUBSET File] /\ restored \in BOOLEAN
    /\ loading \subseteq Torrent /\ loadFailed \subseteq Torrent
    /\ safe \subseteq File /\ fellBack \in BOOLEAN /\ changes \in 0..MaxChanges

\* No eviction takes a piece of a file that stays admitted since the last
\* pass, or the start of the process, saw it: not while the pins are not
\* back, and not in the middle of a pass that changes them.  Only the
\* deferral's timer may end that.
AdmittedSurvives ==
    [][\A i \in PiecesIn(safe) : Evicts(i) => fellBack]_vars

\* Between passes only the files the last pass gave a slot are at Normal:
\* one released, paused or done since is not fetched on, although torrents
\* unload, load again and change their files under the pass.
OnlySlotsFetch ==
    [][phase = "driving" /\ phase' = "idle" =>
         priority' \subseteq {f \in plan.files : TorrentOf[f] \in plan.slots}]_vars

\* Whatever the cache evicted before the file's pins were back, and the
\* client went on believing complete, is fetched again: a file that stays
\* admitted and is not held ends up, and stays, on disk whole.
AdmittedIsFetched ==
    \A f \in File :
        <>[](f \in kept /\ TorrentOf[f] \notin waiting) => <>[](\A i \in PiecesOf[f] : InCache(i))
=============================================================================
