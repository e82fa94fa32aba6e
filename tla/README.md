# momoshtrem in TLA+

momoshtrem streams a household's torrents over WebDAV, keeps chosen titles on
disk, and matches torrents to the shows and films of a library. This directory
is a formal model of its Go backend (`src/momoshtrem`): TLA+ modules written
from the source, TLC configurations that check them on small instances, and
proofs that TLAPS checks for every instance.

Run `tlc -config X.cfg M` for a row of the runs table below, and `tlapm M.tla`
for a module of proofs.

## The system

| Component (under `src/momoshtrem/internal`) | State it keeps | Operations | Interacts with | What is hard |
|---|---|---|---|---|
| `torrent/piececache` | files on disk and their record, LRU, pins per owner, capacity, reserve, deferral | open/read/write/remove a file, Pin, Demote, SetCapacity, SetReserve, TrimToCapacity, DeferTrim, Ready | anacrolix's piece storage writes to it; `downloads` pins; `storagecap` sizes it | file calls outside the mutex, evictions under open handles, pins lost at a restart, late timers |
| `storagecap` | stored storage settings, the last statfs and fill, the floor's state | Resolve, PUT /settings/storage, the governor's passes | reads the disk, sizes the cache; `downloads` reads its plan | settings checked against stale usage, a limit stepped down under a growing cache |
| `downloads` | download rows in Postgres; holds, stalls, pins and a snapshot in memory | Keep, Release, Update, smart picks, passes, polls, loads | pins in the cache, prioritises pieces in the torrent client, caps from `storagecap` | plans made from a snapshot and applied later, loads that end late, admission under caps, slot fairness |
| `torrent` (service, activity), `activity`, `service/removal.go` | loaded torrents, hash locks, active/idle/paused, metainfo files; pauses in Postgres | add (lazy load), remove, idle check, pause, resume, restore pauses; delete a torrent or a title, unassign | anacrolix client; `downloads`, `vfs` load; jobs and titles use | shared loads racing removals, a check and an act under different locks, pauses stored and applied apart |
| `library` + `service` (assignment jobs) | jobs by status, proposals, assignments, subtitle tracks in Postgres; the worker's queue in memory | create, classify, resolve with AI, review, apply, override, re-check, discard, recover | `identify` for the mapping, `torrent` for metainfo | answers that arrive late, two jobs of a title, a stopped worker; jobs are claimed by a status, without leases |
| `streaming`, `vfs` files | a reader's position, the window it raised, the read it left behind, a remote body | ReadAt, Close; format detection | anacrolix reader, a remote server; `webdav` reads | reads a timeout leaves behind, windows of several readers over the same pieces |
| `sessions` | who streams what, reads in flight | Begin, progress, end, expiry | `webdav`, `torrent` | requests that overlap and expire |
| `trakt` | sealed tokens, sync state and imported history in Postgres; the connection, its generation and the syncs in memory | device-code connect, poll, refresh, sync runs, disconnect, reauthorise | Trakt's API; `recommend` after the first import | a refresh or a sync racing a disconnect, single-use refresh tokens, two accounts |
| `recommend` | runs and shelves in Postgres; the worker, the loop and their wake-ups in memory | queue by a slot, a refresh or a first sync; execute, retry, reap, forget a member | `aicore` budget, `trakt`, `member`; the command `recommend-run` in its own process | one execution of a run, runs nobody is at, removals during a run |
| `vfs` tree, `webdav` | a tree built from the library | read-only file system, `Range` requests | `torrent`, `sessions` | a tree rebuilt under readers |
| `metadata`, `airdate`, `tmdb` | cached TMDB metadata | refreshes, backfills | TMDB's API | concurrent refreshes |
| `search`, `torznab`, `quality`, `release`, `identify` | none, or health of indexers | pure planning, parsing, scoring and classification | Jackett | large pure functions on text |
| `hdrezka`, `subtitle`, `opensubtitles`, `artwork` | caches, cleaned subtitle files | fetch and convert | outside services | I/O |
| `api`, `me`, `member`, `catalog`, `status`, `metrics`, `config`, `secret`, `aisettings` | none of their own | HTTP handlers, views | everything above | |

### What must hold

What makes each component correct, the most important first. The properties a run
checks are named under Runs; `PROJECT.json` lists every hazard at its line.

- **Piece cache.** A pinned piece is never evicted; files on disk and the record
  never disagree in a way that lets the disk fill; trims stop, and deferral ends.
- **Storage cap.** Caps that were accepted stay fitting and are granted; a limit
  is reached without evicting more than it asks for, and does not chase the fill.
- **Downloads.** What stays admitted is neither evicted nor left unfetched; no
  file is fetched that has no slot; dead torrents do not starve live ones.
- **Torrent service.** With its lock free a torrent is in the client, the
  service's maps and the activity manager, or in none; of what a removal was to
  erase only pieces whose deletion failed are left; a paused torrent's network is
  off, and one just read is not idled.
- **Assignment jobs.** A user's decision stands against late answers and
  re-checks; what is applied was accepted; an episode has one active row.
- **Trakt.** What is stored is the connected account's; memory and the database
  hold the same connection; no granted token is left behind; an initial import
  stays owed until it is done.
- **Recommendation runs.** A run is executed by one process at a time; a removed
  member's stops; every run ends while the server is up.
- **Streams.** A read gives the bytes from its offset on, or fails, whatever the
  reads before it left behind; a seek never waits for one of them; of a file
  nobody reads any more, only what a detection of its format still reads is asked
  of the swarm.

## How the modules were ordered

| Step | Modules |
|---|---|
| 1 | `PieceCache`, `PinStore`, `PieceCacheProofs` |
| 2 | `StorageLimits`, `Admission`, `StoragePut`, `CacheGovernor`, `StorageProofs` over all four |
| 3 | `DownloadSlots`; `Downloads` over `PinStore`; `DownloadsProofs` over both |
| 4 | `TorrentService`, `TorrentServiceProofs` |
| 5 | `AssignmentRules`, `AssignmentJobs`, `AssignmentJobsProofs` |
| 6 | `TraktConnection`, `TraktConnectionProofs` |
| 7 | `RecommendRuns`, `RecommendRunsProofs` |
| 8 | `FileReads`, `ReadCalls`, `TorrentFiles`, `RemoteFiles`, `StreamFiles`, `StreamFilesProofs` |

`Downloads` composes with the cache through `PinStore`, which `PieceCache` is
proved to implement; with `Admission` and `DownloadSlots` through the sets they
decide, which `Downloads` leaves open. `StoragePut` composes `StorageLimits` and
`Admission`; `CacheGovernor` uses `StorageLimits` over the cache's counters.
`AssignmentJobs` uses `AssignmentRules`. `StreamFiles` composes `TorrentFiles` and
`RemoteFiles`, two implementations of one interface over the calls of `ReadCalls`,
and implements `FileReads`, what the interface promises. `TorrentService` puts the client, the
pauses and the removals of three packages in one module, because their hazards lie
between them; `RecommendRuns` does so for the scheduler, the command and the
removal of a member.

## Modules

All paths are under `src/momoshtrem/internal`. An operator named `Bug...` is a
deliberate mistake kept beside the definition it replaces: the run of each
property fails with one of them in place, which shows that the property depends
on that line of the code. They take part in no specification.

### PieceCache

One module for `torrent/piececache`. Everything done under `Cache.mu` is one
step. The two exceptions are the code's own: `OpenFile` opens (and truncates)
the file before it takes the mutex, and a `File` writes before `afterWrite`
takes it, so `OpenFile`/`RegisterItem` and `Write`/`AfterWrite` are pairs of
steps. The loop of `trimToCapacity` is one step per eviction with the mutex held
(`trim # NoTrim`), so file calls interleave with it.

| Model | Code |
|---|---|
| `disk`, `handle` | the files, and each `File` with its fd; `linked` is false once the file was unlinked |
| `items`, `older` | `Cache.items`: sizes, and the order of `Accessed` |
| `policy`, `dirs` | the LRU's keys, the directory index's files |
| `filled`, `pinned`, `capacity`, `reserve` | the counters and limits |
| `owners`, `pinCount` | the pin tables |
| `deferring`, `deferGen`, `timers` | `DeferTrim`; a timer is armed, then fired and waiting for the mutex |

Access times are only an order. A restart gives the files any order, since the
rescan takes the times of the file system. `Demote` leaves open how its
nanosecond steps fall among older pinned items. `Rename` has no caller and is
not modelled. Failing `os` calls that leave no trace (a missing file for `Get`)
are disabled steps; a failed write is modelled, because `WriteAt` reports its
offset even then.

`PinStore` is what the cache's users rely on: items are added, deleted, and
evicted only when no owner pins them and no deferral holds. `PieceCache`
implements it (`ImplementsPinStore`).

### StorageLimits and Admission

Pure rules, without state. `StorageLimits` has the sums of `storagecap/resolve.go`
(`LimitBytes`, `EffectiveBytes`, `ReserveBytes`, `KeptMaxBytes`, `SmartMaxBytes`)
and `patch.go` (`Apply`, `checkLimits`). `Admission` has `admit` of
`downloads/planner.go`: candidates in the order they joined, a shared file paid
for once, one that does not fit leaving its room to later ones. Percentages and
thresholds keep the code's integer division.

### StoragePut

`PUT /settings/storage` beside the downloads its caps bind. The handler reads
under one mutex and decides under another, so it is several steps. So is a Keep,
which resolves its target before it takes `passMu` and writes after it read the plan.

| Model | Code |
|---|---|
| `settings`, `broken`, `config` | the stored document, whether it decodes, `config.yaml`'s limit |
| `updates`, `commits` | the holders of `Governor.updates` and of the manager's `passMu` |
| `put[p]` | the locals of a PUT: patch, merged settings, kept caps before and after |
| `rows`, `usage` | the kept downloads' files; `committed_kept_bytes` of the last snapshot |
| `assigned`, `kept` | the files that are some item's; the kept downloads |
| `keep[d]` | the locals of a Keep: the files its target covered; `overtaken` is history: an assignment landed since |
| `PutRead`, `PutLock`, `PutApprove`, `PutRefuse`, `PutStore` | `UpdateStorage` and the `commit` it runs in `LockCommits` |
| `KeepResolves`, `KeepPlans`, `KeepAgain`, `KeepRefuses`, `KeepCreate`, `KeepFails` | `Service.Keep`: the target, then under `passMu` the plan and the 409's maths, then `CreateDownload` |
| `Release`, `PassAfter`, `Pass` | `Service.Release`; the pass a Keep or a release ends with, which may fail; the loop's passes |
| `Assign`, `Unassign` | a file assigned to a kept title, or taken from it: they take none of the mutexes |
| `Restart` | the database stays, the snapshot goes, `config.yaml` may have changed |

An assignment that lands between a Keep's steps makes it want files the 409 never
counted, or has taken room it was promised: the download is accepted, and some of
its files wait over the cap. The code does nothing against that. `KeepIsAdmitted`
therefore excepts an overtaken Keep from being admitted whole, and from nothing
else: it displaces no admitted file either.

A download has one Keep at a time, as two of one target differ from one after the
other only in what they answer. A release that is due is written by a Keep or a pass
as a release is: `Release`, and `PassAfter` when that pass fails. A write that took
place although it was answered with an error is a `KeepCreate` with a failing pass.
The times rows join at, the server's for a Keep and Postgres's for an assignment, are
of one clock. Rows that join in one transaction stand side by side, and a watched item leaves as
an unassigned one does. A smart pick
that is kept, and the deletion of a title with its downloads, are not modelled.

### CacheGovernor

The governor's passes against a cache that is its counters. A piece is one byte,
so a trim takes exactly what its limits ask for; what larger items change is
shown in `PieceCache`, which has the trim itself.

| Model | Code |
|---|---|
| `limit`, `known`, `other` | the limit of the stored settings, the last a pass could read, others' use of the disk |
| `filled`, `pinned`, `capacity`, `reserve`, `deferring` | the cache |
| `gov` | the locals of a pass: target, lowest step, current step |
| `PassReads`, `PassResolves` | `pass` up to `SetReserve`; they are apart because settings, disk and `Info` are read one after another |
| `StepDown`, `GovernorTrims`, `Looks`, `GoesToTarget` | the loop of `apply` and its last call |
| `Writes`, `Pins`, `EndDeferring`, `World`, `Restart` | readers, downloads, removals, `Ready` and its timer, PUTs and other users of the disk |
| `grown`, `released` | history: bytes written, and pins let go, since the pass looked |

### DownloadSlots

`planTorrents`, `stepStall`, `assignSlots` and `torrentState`, with `apply`'s
copy of the stalls: one `Pass` reads and replaces them under `passMu`, so it is
one step. Times are ages, capped where the rules stop telling ages apart: a stall
keeps how long ago its slot was taken (`slot`), how long ago it grew (`since`)
and how long its retry still waits (`retry`). `Tick` is a unit of time; live
torrents with a slot grow in it. `Arrives` lets a dead torrent grow for once, or
a torrent shrink, as when chunks fail their hash. Pause-while-streaming is on.

### Downloads

A pass of the manager from its reads to its last change, over `PinStore`.

| Model | Code |
|---|---|
| `kept`, `waiting` | what the caps admit; the torrents without a slot |
| `store`, `owners`, `held`, `busy` | the cache, as `PinStore` has it |
| `loaded`, `complete`, `priority`, `metainfo`, `removing` | anacrolix's torrents, the pieces it believes complete, the files at Normal; the metainfo store; `RemoveTorrent` under its hash lock |
| `phase`, `plan`, `todo` | where a pass is, its plan, the torrents it has not driven |
| `maps`, `pinned`, `normal`, `prev...`, `resynced`, `restored` | the manager's memory |
| `loading`, `loadFailed` | background loads and their retry times |
| `PassReads`, `PassLooks`, `PassFails` | `plan`: rows and loaded torrents first, pieces on disk after, errors in between |
| `PinTorrent`, `UnpinTorrent`, `PassPinned` | `apply`: pins before unpins, then `Ready` of the first pass |
| `DriveLoaded`, `DriveUnloaded`, `PassEnds` | priorities and re-checks of one torrent; loads; torrents no longer wanted, and what the next pass remembers |
| `Loads`, `OpenLoads`, `RemoveTorrent`, `DeletePiece`, `RemoveEnds` | the torrent service, as the manager meets it |
| `FetchesWanted`, `FetchesStreamed`, `Evicts`, `Trims`, `Fallback` | peers, readers, the cache's trims, the timer of `DeferTrim` |
| `safe`, `fellBack` | history: files admitted ever since a pass (or the start) saw them; the timer ended the deferral before a pass |

`DriveLoaded` sets a torrent's priorities and checks its pieces in one step:
nothing between the two calls changes what either does. Fetching is atomic per
piece. Caps, holds and slots may change `kept` and `waiting` at any time, so no property
leans on how they are decided.

### TorrentService

`torrent/service_impl.go` and `activity.go`, with the pauses of `activity/service.go`
and the removals of `service/removal.go`. A hash lock serialises loads and removals
of one torrent; the activity manager's and the client's calls inside them are steps
of their own, since pauses, reads and the idle check do not take it.

| Model | Code |
|---|---|
| `known`, `stored` | what the library uses of the torrents; the pauses in Postgres |
| `metainfo`, `data` | the metainfo file ("corrupt" after a crash); the pieces on disk |
| `network`, `loaded` | the client's torrents with their network on or off; `service.torrents` |
| `state`, `recent`, `paused`, `candidates` | the activity manager, and what an idle check under way collected |
| `lock`, `call` | `hashLocks`; each caller's step and locals, with the pieces a removal has `left` to delete and those it `failed` to |
| `pausing` | the pause or resume that holds `Service.writes` |
| `torn` | history: torrents whose two pause writes a removal overlapped, or failed |
| `Add`, `AddLoaded`, `AddStarts` ... `AddMaps` | `AddTorrent`: callers join an attempt under way; the metadata comes, or times out |
| `RemoveLoaded`, `RemoveStored`, `RemoveAbsent` ... `RemoveEnds` | `RemoveTorrent`, with the background fetch of a torrent whose pieces nobody knows |
| `Delete`, `DeleteTitle`, `Unassign`, `ChecksUse`, `Unstores`, `Unpauses` | the removal service: rows first, the torrent when nothing uses it, its pause |
| `IdleCollects`, `IdleApplies` | `checkIdleTorrents`: under the read lock, then under the lock |
| `SetPaused`, `PauseAll`, `ResumeAll`, `PauseStores`, `PauseApplies` | a pause's write to the database, then to the client, torrent by torrent |
| `Restart` | the process ends anywhere; `RestorePauses` |

A removal goes on over its failures. A piece whose `MarkNotComplete` fails stays,
all of them when the storage of a torrent that is not loaded cannot be opened, and
so does a metainfo file that cannot be removed; each is only logged. Pieces whose
metainfo went are named by nothing any more and go when the cache's trim takes them;
after a crash the metainfo is there, but nobody tries the removal again by himself.
A corrupt metainfo file that cannot be removed reads as none and is not told apart
from none, nor are the pieces without a v1 hash, which `storedPieces` skips, from
pieces that failed. `MarkNotComplete` deadlocks with a hasher that reads the piece
(`streamlab/known/stress.go`, #230): inside anacrolix's storage, and not modelled.

### AssignmentRules and AssignmentJobs

`AssignmentRules` is without state: the proposals a reading of a torrent's files
gives (`Drafts`, `DefaultDecision`), which files the AI is asked about
(`FirstScope`, `recheckScope`), how its answers are merged (`mergeAnswers`,
`recheckChanges`), what still needs the user (`settledStatus`) and what an apply
writes (`planApply`). How a file's name is read is a choice: `Readings` lists what
the rules may make of it.

| `AssignmentJobs` | Code |
|---|---|
| `jobs` | `assignment_jobs` with their proposals, each changed in a transaction on its locked row |
| `rows`, `subs` | active `torrent_assignments`; the torrent subtitles recorded for them |
| `worker` | a worker's step, with the reading and scope it asked the AI about |
| `run` | the re-check of a job: the proposals its AI run was shown |
| `tx`, `unrecorded` | the apply or override under way; the subtitles it still has to record |
| `Assign`, `Claim`, `setFileList`, `Classify`, `resolveFirst`, `autoApply` | a job and the worker's first run |
| `Reclassify`, `RecheckReads`, `RecheckStores` | a re-check: reads, asks, and changes what still is as it was shown |
| `PatchProposals`, `Discard`, `Apply`, `AssignShowAndWait`, `override` | the user |
| `writeAssignments`, `Commit`, `Record` | an apply checks, writes and commits; then its subtitles, one at a time |
| `Restart` | `recoverInterrupted` |

Every handler that finds a job in another state than it expects leaves it alone,
and that guard is what most of the properties rest on.

### TraktConnection

`trakt/auth.go` and `sync.go` for one member, against a Trakt that hands out token
pairs, trades each refresh token once and may lose any answer.

| Model | Code |
|---|---|
| `live`, `owner` | Trakt: the pairs it accepts, and whose account each is |
| `row`, `data` | `trakt_auth`, and whose history each part holds (0: the last activities a sync ended with, 1: the sections) |
| `state`, `gen`, `tokens`, `flow` | the fields of `Auth` under `mu` |
| `poller` | the goroutine of each device code |
| `life`, `refreshMu` | the two outer locks |
| `disconnect`, `trigger` | a disconnect under way; the import a connect starts |
| `sync`, `run` | `Syncer`'s `queued`, `initial`, `resume`; the goroutine of the running sync |
| `lost`, `blame`, `interrupted`, `imported` | history: pairs nobody can revoke, the pair taken by Trakt or a lost answer, an import cut short, an import that finished |

A generation (`connected_at`) is named by the pair of its connect: like it, it is
never used twice. The sections of the history stand as one, since each is written
under the same check; when tokens expire and when a sync is due are choices.

### RecommendRuns

The runs of picks: `library/rec_runs_repo.go`, `recommend/schedule/scheduler.go`,
`recommend/runs/run.go`, the command `recommend-run`, and the part of
`member/service.go` that removes a member.

| Model | Code |
|---|---|
| `runs` | `rec_runs` by id; "ended" is succeeded, failed, skipped, or deleted with the member |
| `members`, `connected` | members and how far a removal is; whose Trakt is connected |
| `server`, `exec` | the process; the worker and the command, each at a step of `Execute` |
| `work`, `retrying`, `todo` | the worker's wake-up, the retry after a store error, the members a slot has still to queue |
| `QueueRecRun`, `StartRecRun`, `PublishRecRun`, `FailRecRun`, `SkipRecRun` | the repository's guarded updates |
| `Reaps`, `SlotStarts`, `SlotQueues`, `Refresh` | the loop and its slots, refreshes and first syncs |
| `Start`, `Close`, `Crash`, `Command`, `CommandStops` | the processes |
| `Delete`, `ForgetMember`, `DeleteRow` | the removal of a member, in its three parts |

`s.current` is the worker's run during `Execute`. A run is stale when nobody
executes it and the reap comes after its time: the reap's choice of `Orphans`
stands for the clock. The command reads Trakt's connection when it begins, so its
checks may pass whatever holds later.

### StreamFiles

The files WebDAV requests read. Each request has a handle of its own and reads
with it one `ReadAt` after another; handles of one torrent share its pieces'
priorities. `ReadCalls` has the calls, `TorrentFiles` the file of a torrent with
its reader and prioritizer, `RemoteFiles` the file of an HTTP server, `StreamFiles`
both, and `FileReads` the contract: bytes from the offset on, all of them or an
error, the end only at the end.

| Model | Code |
|---|---|
| `file`, `call`, `calls` | what a handle has open, its `ReadAt` and the bytes it has so far, how many there were |
| `reader`, `at`, `tracked` | `TorrentFile.reader`, the library's position, `readerPos` |
| `seek`, `raised` | `lastSeekOffset` of the prioritizer; the pieces it gave a priority |
| `Demand` | what the swarm is asked for: `raised`, and the pieces at the position of each open reader of the library, a detection's too |
| `read` | the goroutine of `readContext`, and whether it is `pendingRead` |
| `TorrentReadAt`, `Drain`, `DrainTimesOut`, `Seek` | `ReadAt` and `seekAndReadAtLeast` up to the read |
| `StartRead`, `TakeResult`, `ReadTimesOut`, `TorrentClose` | the read's loop and its timeout; `Close` |
| `GoroutineStarts`, `Delivers`, `ReadEnds`, `LateReadEnds` | the goroutine on the library's reader; one that ends after the `Close` |
| `detector`, `DetectFormat` | `detectFormat`, once for a reader, in a goroutine and with a library reader of its own |
| `body`, `pos` | the open body and where the file takes it to be |
| `RemoteReadAt`, `PastEnd`, `RemoteSeek`, `RemoteRead`, `RemoteClose` | `RemoteFile`: the short skip, the new body, one more attempt, the watchdog |
| `Crash` | a goroutine that starts after its file's `Close` finds no reader |
| `quiet` | history: the last reader, open for thirty seconds, is closed |

A piece is the unit of offsets: bytes are told apart by the piece they are in,
and a read of the library gives one piece. Pieces complete and are evicted at
any time, so what a look finds complete is a choice; so are timeouts, whether
enough was read to detect a format, and whether a reader was open for long.
Bytes are told apart by position only: that the library's reader gives out chunks
before their piece is verified (`known.go`, #231) is outside what
`ReadsWhatIsAsked` says. `io.EOF` and `io.ErrUnexpectedEOF` are both "eof".
Levels of priority are not told apart: readers of one torrent overwrite each
other's, as the repository lists among its known issues
(`streamlab/known/known.go`, F6 and F13). A handle serves another request once
the goroutines of its last one ended.

## Runs

| Run | Checks | Bounds, and why they are enough |
|---|---|---|
| `piececache` | files, record and counts agree; a trim reaches the capacity | two owners on two complete pieces (two items), two goroutines with files open: shared pins, truncation, orphaned handles, re-created files; no deferral |
| `piececache_defer` | the cache implements `PinStore`; deferral ends by its own means, and ends | a piece that is complete and also has a chunk (two items), pinned with both; two deferrals, so that a timer of the first can run in the second |
| `storage_puts` | a PUT stores what it checked; caps that fit stay fitting and spare admitted files; a Keep displaces nothing and is admitted whole unless an assignment overtook it; PUTs return | two PUTs at a time, since a third adds no new pair; a limit, a kept and a smart cap, set and unset, which fit in pairs but not together; two downloads that share a file, with a file of one assigned and unassigned between the steps of either's Keep (a shared one so, by the theorem only); failing passes; `config.yaml` set or not |
| `governor_steps` | trims stay within target and step, and settle | a disk of ten bytes against steps of two: limits that take several steps, others' use that pushes the cap to its minimum; two changes from outside, at any two moments |
| `download_slots` | slots are rotated; the live torrent is downloaded | one slot and two dead torrents before a live one; backoff that doubles and reaches its maximum; two changes |
| `downloads_passes` | admitted files survive, only slots fetch, what was lost is fetched again | one torrent whose two files share a piece, so that releasing one file must not unpin the other; two changes. It also held with three changes, and, for safety, with two pieces |
| `torrents` | client, maps and activity manager agree; pauses stand; removals leave only what failed | one torrent, since locks and state are per torrent, of two pieces, so that one may fail and the other go, and two callers: a shared load, a load against a removal, a background delete against either; two failures or restarts |
| `jobs` | one row per episode; settled jobs; user decisions; what an apply writes; jobs settle | two torrents of one episode, one with a file the rules cannot read beside one they are sure of; an AI that is silent, sure, unsure or calls it an extra; two jobs, and two changes by users, re-checks and restarts |
| `jobs_subtitles` | the comment on reassigned subtitles, violated | no changes: two workers that apply one episode |
| `trakt` | imported rows, memory, grants, reauth, owed imports | two accounts, two pairs and two codes (a connect under another's poller, a reconnect, a refresh), a restart, two lost answers or failed calls. It also held with three pairs, one code and one error |
| `recommend` | one execution; removed members stop; runs end | two members, one of whom may be removed; two runs at once or one after the other; one store error and one stop of the server or the command |
| `stream_files` | both kinds of file implement `FileReads`; a seek is free; of a closed file only detections ask | two requests, of either kind, over a file of three pieces; three reads between them, from the start, on from where one stopped, after a gap, over the end and past it: a read left behind, drained and followed by another, a body that breaks after a skip |

The violation run is the finding of `PROJECT.json`: the code is plausible and a
comment promises more than it does.

- `jobs_subtitles`: the torrent's subtitles are said to be replaced by a
  reassignment. They are recorded after the commit that took the title's lock, so
  the earlier of two applies may record its own last.

### Bounds and fairness

`MaxChanges` (`MaxSlotChanges` in `DownloadSlots`; in `RecommendRuns` and
`TraktConnection`: errors, stops, crashes)
bounds what the world does on its own (settings, pauses, losses, removals,
restarts, failing loads, deletions and writes); the program's own steps are not bounded. A property
about what holds "in the end" is thus about what follows the last change, at
whatever state it leaves. `DiskTotal`, `MaxSize`, `MaxGen`, `MaxJobs`,
`MaxPairs`, `MaxFlows`, `MaxRuns` and `MaxCalls` bound the rest. The owners and
threads of `PieceCache`, the callers and pieces of `TorrentService`, the accounts
of `TraktConnection` and the handles of `StreamFiles` are symmetric in runs that
check safety only, where that is sound; no run of a liveness property uses
symmetry. Ages in `DownloadSlots` are capped by the rules, not by a bound.

- `PieceCache`: the trim's loop goes on, the runtime's timers fire, and Go's
  mutex is handed to a waiter after a millisecond (strong fairness of
  `Fallback`). Nothing is assumed of callers: a deferral ends without `Ready`.
- `StoragePut`: strong fairness of `PutLock` for the same mutex; a handler that
  holds a mutex goes on.
- `CacheGovernor`: a pass every minute, and a pass goes on; the deferral ends.
- `DownloadSlots`: passes and time go on; a live torrent's peers deliver in every
  unit it has a slot.
- `Downloads`: passes go on, and win the cache's mutex in the end (strong
  fairness of `Applies`); loads that do not fail end; a piece that is wanted over
  and over is delivered.
- `AssignmentJobs`: workers go on, an AI run answers or times out, transactions
  commit. Users owe nothing.
- `RecommendRuns`: the worker, the command and a slot's loop go on; the loop comes
  back to its reap, at least hourly and so past the time a run may take (strong
  fairness of `LoopReaps`, which a slot's queueing and a stop disable). Retries,
  refreshes and the next slot need not come: a lost wake-up is covered by the reap.

`LiveIsDownloaded` is about two dead torrents. It is no theorem for any number:
the backoff is capped, so with two slots some fourteen torrents without peers
come round as fast as their slots are given up, and hold off a live torrent
behind them. The run shows what the code achieves for a few.

### Where code and comments differ

Met while modelling, beside the finding. None is checked by a run of its own.

- `activity/service.go:164-165` says of `Service.writes` that the stored pauses and
  the client's "always end up the same". A removal (`service/removal.go:158`) clears
  a pause in the database and in the client without that lock, so a pause beside it
  may end in one of the two. `PausesAgree` is what holds: they agree unless a
  removal overlapped, a write failed or the start could not read them.
- `TorrentFile.Close` leaves a pending read to end by itself. The read's goroutine
  looks for the reader when it starts (`vfs/torrent_file.go:471`): if that is after
  the timeout and the `Close`, it finds none and the process panics. That takes a
  goroutine kept waiting for seconds; `Crash` models it.
- `streaming/reader.go:127-138` says that `Close` closes the library's reader and so
  unblocks a read that waits for its piece. It does not (`known.go`, #225): the read
  ends when the piece comes. `LateReadEnds` models that.
- The reader of the format's detection has no timeout and is not closed with its
  file, so a detection may wait for pieces, and ask the swarm for them, long after
  it. A read that ends late with bytes may even start one on the closed file
  (`reader.go:145`). `OnlyDetectionsAsk` says that nothing else is asked for.
- `CommittedKeptBytes` (`storagecap/governor.go:84-85`) is as old as the last pass:
  after a Keep whose pass failed a PUT may cap downloads below what they want.
- `StopSync` (`trakt/sync.go:219-241`) misses a sync that is still starting. It may
  store the old account's last activities under the next connection, although each
  write names its generation. The import the new connection owes replaces them,
  which is what `ImportIsOwed` says.
- At its start the server fails every running run, the one the command executes
  with them; comments in `scheduler.go` leave such runs alone. The command's last
  write is then refused. A pre-check that fails after another executor started the
  run ends that run in the same way.
- A slot that falls together with a change of the schedule may be lost to the
  change; a crash while a slot's runs are queued leaves out the later members.
- The command is not stopped when its member is removed: its writes are refused.

## Proofs

| Module | Shows | For all |
|---|---|---|
| `PieceCacheProofs` | types, tables, order, files, counts, exact sums; pins stay, evictions in order; a trim reaches the capacity; a deferral ends by its own timer; `PieceCache` implements `PinStore` | pieces, keys, owners, threads, sizes, limits |
| `StorageProofs` | caps and reserve share the limit, and what is admitted leaves the reserve free; the size ignores the fill; a PUT stores what it checked, its caps fit and stay fitting, and it spares what is admitted; an accepted Keep displaces nothing and is admitted whole unless an assignment overtook it; the cap's minimum; no trim under its target, none over a step unless pins let go | disks, limits, settings, PUTs, queues, files, steps |
| `DownloadsProofs` | admitted files survive; only slots fetch; slots are rotated; a backoff waits | torrents, files, pieces, slots, backoffs |
| `TorrentServiceProofs` | no orphans; paused is quiet; stored and running pauses agree; locks have holders; no read torrent idles; a removal leaves only pieces whose deletion failed | torrents, pieces, callers |
| `AssignmentJobsProofs` | one row per episode; settled jobs agree; user decisions stand; an apply is what was accepted; what ended stays | torrents, files, episodes, workers, jobs, readings, answers |
| `TraktConnectionProofs` | rows are the connected account's; memory is what is stored; no grant is left; a reauthorisation has its cause; an import stays owed | accounts, pairs, codes, crashes, errors |
| `RecommendRunsProofs` | a run is executed once; a removed member's stops | members, runs, errors, stops |
| `StreamFilesProofs` | a seek is free; of a closed file only detections ask; both kinds of file implement `FileReads` | handles, files, sizes, reads |

All but `AssignmentJobsProofs` and `TraktConnectionProofs` show a type invariant as
well. Every safety property the passing runs check, invariant, action property or
refinement, is a theorem of one of these modules.

The assumptions are the modules' named ones: keys belong to pieces and there are
finitely many owners (`PieceCache`); byte constants are naturals and `Null` is
none (`BytesAssumption`); sizes are naturals, there are finitely many downloads, which
cover sequences of files, late files are files, and a PUT is no download
(`PutAssumption`); `GovernorAssumption`; times, goals and slots are naturals and a
backoff is positive (`SlotsAssumption`); a piece belongs to one torrent
(`DownloadsAssumption`); `Nobody` is no caller
(`TorrentAssumption`); files are numbers, and readings and answers are well formed
(`RulesAssumption`, `JobsAssumption`); bounds are naturals (`BoundsAssumption`).
TLC evaluates each in a run.

Why each invariant is needed:

- **PieceCache.** `TablesInv` (types; LRU, pin counts and index agree) needs the
  cardinality of the owners' sets. `FilesInv` says where the files stand; its
  `LinkedHaveFiles` is the strengthening, without which a write through a handle
  could bring a removed file back. `TrimInv` says that while a trim is under way
  its loop condition holds and the item it protects is the newest, which makes
  the protection of the last item enough for `OwnUpdateSurvives`. `AccountingExact`
  is inductive with them; its sums are stated as the number of bytes the items
  have, so that adding or taking one item is a fact about finite sets.
- **StoragePut.** `PutInv`: what a PUT under way worked out is still what it would
  work out now. It holds because `updates` keeps other PUTs out from the read to
  the store, and a restart, the only thing that changes `config`, ends them all.
  `RowsInv` adds to the types of the rows (`DownloadTypes`) that a PUT holds the
  commit guard from its look at the usage on (`Committed`), so the usage it was
  approved by is that of the rows it stores over; and that a Keep past the plan holds
  it too, and unless it was overtaken still covers what it resolved and still has
  the room the plan had (`Accepted`).
- **Admission.** What a queue admits is a recursion over it. A run (`Runs`) is the
  sequence of what is admitted after each candidate: it exists, `AdmitQueue` is its
  end, it never shrinks, and two runs that meet the same candidates under caps that
  tell none of them apart are the same (`LowerCapSpares`). `KeepFits` runs over any
  files behind the rows: each is either admitted already or fits, because
  the bytes still missing shrink by what it takes. `QueueGrows` says, without any
  room, that what joins behind displaces nothing. What is read off the rows is of
  their kind because `Among`, a recursive function, keeps it (`AmongKinds`).
- **CacheGovernor.** `CapInv` ties the capacity to the step a pass is at and puts
  target, lowest and step in order. `StepInv` bounds the fill: before a trim by
  the step and what was written since, after one by the capacity or by what is
  pinned and reserved. The two together make the last trim a step as well,
  unless `released`.
- **Downloads.** `PlanInv`: every safe file is in the plan under way, and its
  torrent is known once the pass has looked. `PinsInv`: owners in the cache are
  what the manager remembers; from the first pass on every safe file is pinned,
  before it trims are held or fell back. Pins replace a torrent's set in one
  call, which is why a pass in the middle of its changes exposes nothing.
  `PriorityInv`: every file at Normal is remembered in `normal` under a torrent
  of the plan, so the pass's end resets what it should.
- **DownloadSlots.** `SlotInv` follows one torrent's stall: a torrent that downloads
  holds a slot, and its idle time stays within one unit of both ages the planner
  tells a stall by (`slot`, `since`). A pass finds one of them short of
  `StallAfter` or takes the slot away, and growth the pass has yet to see has just
  ended the idle time. The one unit is the slack `SlotsRotate` grants.
- **TorrentService.** `Holders`: a call holds a torrent's lock exactly while it is
  in the middle of an add or a removal of it. `Phases` then says, for each such
  step, what the client, the maps and the activity manager have; with the lock
  free they agree, which is `NoOrphans`. `Erased`: once a removal dropped the
  torrent no peer can bring back a piece it deleted, so what is on disk is what is
  left to delete or failed. `Joined` keeps whoever shares an attempt beside the one that makes it.
  `PauseInv` follows a pause and a removal through their two writes each: outside
  both, and within a pause for the torrents it has not come to (`Agreed`), the
  stored pauses are the client's; a removal that is past its first write has taken
  the stored one (`Forgotten`), and any that overlaps a pause is in `torn`.
- **AssignmentJobs.** `HeldJobs`: while an apply is under way its job keeps the
  status and the proposals it checked, because the row stays locked. `Writes`: what
  it will write is then still `planApply` of them, takes the place of every row of
  its episodes, and no two writes hold one title at a time.
- **TraktConnection.** Generations are fresh (`Fresh`, `Generations`): a sync, a
  poller or a refresh that names one which is not the stored one can never see it
  stored again, so its checked write is refused. `Locks` and `RefreshLock` say who
  may be where while `life` and `refreshMu` are held; `Mirrored` is `MemoryIsStored`
  extended to the steps at which they are; `Accounted...` says whose account the
  rows, the answers under way and the snapshots are. Three more stand on that
  invariant. `GrantInv`: a refresh trades the pair in memory, which is dead once
  Trakt has traded it; the row's pair is that of memory or dead; and a
  reauthorisation is asked for only once nothing is connected. `BlameInv`:
  a pair in use goes only by its own refresh, which nobody runs twice, so a refused
  one was taken. `OweInv`: what the database remembers of a sync lets the next one
  skip the import only if one ended, and a run that will replace it names the
  connection it is for.
- **RecommendRuns.** `Started`: a run somebody executes is past its queue, where no
  row comes back to, so the guard of `StartRecRun` lets nobody in after the first.
  `Apart`: who is being removed has no Trakt, so a check that comes after the
  cancellation fails.
- **StreamFiles.** Per handle: what its call has read are the bytes from its offset
  on (`Bytes`); whose the read goroutine is (`Reader`), without which a drained
  result could be taken for the call's own; and that the position tracked is the
  library reader's unless a read was left behind (`Position`), which is why a call
  that skips its seek reads on at the right place. `Body` is the same for a remote
  file. Each action is shown to keep them and to be a step of `FileReads`. `QuietInv`
  says of the file that while `quiet` no handle has a reader and no priority is left;
  what is asked of the swarm is then what detections want, by the definition of
  `Demand`.

Proved, and in no run, since they follow from what is checked there or from the
rules: `PinnedStays`, `AccessOrderTotal`, `OwnUpdateSurvives`, `DeferredKeeps`,
`TablesAgree`, `EvictsOldestFirst`, `AcceptedCapsFit`, `CapAtLeastMin`, `NeverOverTrims`,
`WaitersHaveHolders`, `ClosedIsFinal` and the type invariants.

`AdmittedLeavesTheReserve` is about the rules alone: it has no state to check.

Only model-checked: the liveness properties, `DeferralEnds`, `PutsReturn`,
`Settles`, `LiveIsDownloaded`, `AdmittedIsFetched`, `JobsSettle` and `RunsEnd`.
Fairness is out of the proof system's reach; and `LiveIsDownloaded` is false for
many torrents (above). `SubtitlesFollow` is the property the code violates.

### Induction

The provers cannot use the library's induction theorems, which take an operator.
Two of its theorems take sets only: finite sets are well founded under inclusion
(`FS_StrictSubsetOrderingWellFounded`), and a set without a least member contradicts
that (`WFMin`). `Least` and `Climb` in `StorageProofs` get induction over the naturals from them,
for a property given as the set of the numbers that have it, and `RecursionExists`
that a recursive function has the values its definition asks for. What admission
does to a queue of any length rests on these. A `RECURSIVE` operator would still be
out of reach: the recursions proved about are functions.

### What the proofs changed in the model

- `AsRead` (`StreamFiles`) had two overlapping arms of a `CASE`, and TLA+ leaves
  open which of them is taken. It is an `IF` now.
- `AdmitQueue` and `Among` were a fold and a filter of the community modules,
  which the provers cannot expand; they are recursive functions.
- The sums `SumOver` (`PieceCache`) and `Bytesof` (`StoragePut`) count bytes, and
  the `CHOOSE` for the next run of a queue (`QueueRecRun`) and for the number of
  attempts a backoff tells apart (`DownloadSlots`) became the values they stand for.
- `PutAssumption` names what the proofs of the Keeps need and the code gives: the
  files of a download are a sequence of files, there are finitely many downloads,
  and a PUT's goroutine is no download.

## Not modelled

The modules map a small share of the code. Most of the rest has no protocol to
check: it parses, scores, fetches, renders or tests. By part (`PROJECT.json` has
each component's reason):

- **Sessions.** One map under one mutex; every method is atomic.
- **AI budget.** The check before a call and the record after it are apart on
  purpose: the limit is soft, and no invariant binds the two.
- **The tree of `vfs`, `webdav`, `metadata`, `airdate`.** A tree rebuilt and
  swapped; HTTP; fetches and upserts with a cache.
- **`identify`, `release`, `quality`, `search`, `torznab`.** Large pure functions on
  text, which the repository's corpus tests.
- **`hdrezka`, `tmdb`, `opensubtitles`, `subtitle`, `artwork`.** I/O and decoding.
- **`library`, `api`, `member`, `catalog`, `status`, `metrics`, `config`.** SQL,
  handlers and views.
- **`streamlab`, the commands, the web front end, deployment.** A test bench,
  wiring, a client of the API.

Within the modelled parts: `Cache.Rename` (no caller); the JSON of a settings patch
and the report of the settings; which files of a title a download asks for, when a
watched or expired one goes, the hours of the day, smart picks, watch marks and the
views of a snapshot; statistics of torrents and the idle check's clock; jobs of
movies, dry runs, HDRezka streams, failing transactions, and several changes in one
PATCH; the registry of Trakt's members, tokens sealed with another key, the sections
of the history one by one, and commits whose outcome is unknown; when a slot of the
schedule falls due or is caught up, pruning of runs, and what a run finds; levels of
priority, the buffers and metrics of a reader, subtitle files and their cache.
