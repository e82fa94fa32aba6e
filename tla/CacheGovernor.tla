--------------------------- MODULE CacheGovernor ---------------------------
(***************************************************************************)
(* The Governor's passes (internal/storagecap/governor.go): each reads the *)
(* settings, the disk and the cache, resolves the effective size and moves *)
(* the cache's capacity to it, stepping down so that no trim evicts much   *)
(* at a time.  Between any two of its calls the cache is written to,       *)
(* pinned and unpinned, files are removed and others fill the disk.        *)
(*                                                                         *)
(* The cache is its counters: pieces are one byte each, so a trim evicts   *)
(* exactly as much as its limits ask for.  PieceCache has the trim itself. *)
(***************************************************************************)
EXTENDS StorageLimits

CONSTANTS
    Limits,         \* the limits the settings may come to
    Others,         \* what others may hold of the disk
    TrimStepBytes,  \* the most a step lowers the cache by
    MaxChanges      \* bound on the changes of settings, pins and others' use

ASSUME GovernorAssumption ==
    /\ Limits \subseteq {n \in Nat : n >= MinBytes} /\ Limits # {}
    /\ Others \subseteq Nat /\ MaxChanges \in Nat
    /\ TrimStepBytes \in Nat \ {0}

VARIABLES
    limit,      \* LimitBytes of the stored settings
    known,      \* that of the last settings a pass read
    other,      \* what others hold of the disk
    filled, pinned, capacity, reserve, deferring,    \* the cache
    gov,        \* where the pass under way is
    grown,      \* how much the fill has grown in this pass
    released,   \* whether pins or the deferral let bytes go in this pass
    changes

cacheVars == <<filled, pinned, capacity, reserve, deferring>>
governorVars == <<limit, known, other, cacheVars, gov, grown, released, changes>>

-----------------------------------------------------------------------------
NoPass == [pc |-> "idle"]
DiskFree == DiskTotal - other - filled
Stepping == gov.pc \in {"step", "trim", "look", "last", "lastTrim"}
Change == changes < MaxChanges /\ changes' = changes + 1

\* The cache's trim of a fill f: it leaves pinned bytes and the reserve.
Trimmed(f, pin) ==
    IF deferring \/ f <= capacity THEN f ELSE Greater(capacity, Lesser(f, pin + reserve))

GovernorInit ==
    /\ limit \in Limits /\ other \in Others
    /\ filled \in 0..(DiskTotal - other)
    /\ pinned = 0 /\ capacity = limit /\ reserve = 0 /\ deferring = TRUE
    /\ gov = NoPass /\ known = limit /\ grown = 0 /\ released = FALSE /\ changes = 0

-----------------------------------------------------------------------------
(* A pass.                                                                 *)

\* The settings, or the last ones read when they cannot be, and the disk.
\* A pass that cannot read the disk changes nothing.
PassReads ==
    /\ gov = NoPass
    /\ \/ known' = limit /\ UNCHANGED changes
       \/ known' = known /\ Change
    /\ gov' = [pc |-> "read", limit |-> known', free |-> DiskFree]
    /\ UNCHANGED <<limit, other, cacheVars, grown, released>>

\* As if it went to the target in one go.
BugPassResolves ==
    LET target == EffectiveBytes(gov.limit, DiskTotal, gov.free, filled)
        res == Lesser(ReserveBytes(gov.limit), target)
        lowest == Greater(target, Lesser(filled, pinned + res))
    IN  /\ gov.pc = "read"
        /\ reserve' = res
        /\ capacity' = target
        /\ gov' = IF filled <= lowest THEN NoPass
                  ELSE [pc |-> "lastTrim", target |-> target, lowest |-> lowest, c |-> filled]
        /\ grown' = 0 /\ released' = FALSE
        /\ UNCHANGED <<limit, known, other, filled, pinned, deferring, changes>>

\* The cache's Info, the limits, SetReserve, and apply's first look.
PassResolves ==
    LET target == EffectiveBytes(gov.limit, DiskTotal, gov.free, filled)
        res == Lesser(ReserveBytes(gov.limit), target)
        lowest == Greater(target, Lesser(filled, pinned + res))
    IN  /\ gov.pc = "read"
        /\ reserve' = res
        /\ IF filled <= lowest
           THEN capacity' = target /\ gov' = NoPass
           ELSE /\ capacity' = capacity
                /\ gov' = [pc |-> "step", target |-> target, lowest |-> lowest, c |-> filled]
        /\ grown' = 0 /\ released' = FALSE
        /\ UNCHANGED <<limit, known, other, filled, pinned, deferring, changes>>

\* SetCapacity of the next step.
StepDown ==
    LET c == Greater(gov.lowest, gov.c - TrimStepBytes)
    IN  /\ gov.pc = "step"
        /\ capacity' = c
        /\ gov' = [gov EXCEPT !.c = c, !.pc = "trim"]
        /\ UNCHANGED <<limit, known, other, filled, pinned, reserve, deferring,
                       grown, released, changes>>

GovernorTrims ==
    /\ gov.pc \in {"trim", "lastTrim"}
    /\ filled' = Trimmed(filled, pinned)
    /\ gov' = IF gov.pc = "trim" THEN [gov EXCEPT !.pc = "look"] ELSE NoPass
    /\ UNCHANGED <<limit, known, other, pinned, capacity, reserve, deferring,
                   grown, released, changes>>

\* There, nothing more to evict, or a pause before the next step.
Looks ==
    /\ gov.pc = "look"
    /\ gov' = [gov EXCEPT !.pc =
                 IF gov.c = gov.lowest \/ filled > gov.c THEN "last" ELSE "step"]
    /\ UNCHANGED <<limit, known, other, cacheVars, grown, released, changes>>

GoesToTarget ==
    /\ gov.pc = "last"
    /\ capacity' = gov.target
    /\ gov' = IF capacity = gov.target THEN NoPass ELSE [gov EXCEPT !.pc = "lastTrim"]
    /\ UNCHANGED <<limit, known, other, filled, pinned, reserve, deferring,
                   grown, released, changes>>

-----------------------------------------------------------------------------
(* What happens meanwhile.                                                 *)

\* A piece is written, and the write trims.
Writes(pin) ==
    /\ DiskFree > 0
    /\ pinned' = pin
    /\ filled' = Trimmed(filled + 1, pin)
    /\ grown' = IF Stepping THEN grown + Greater(filled' - filled, 0) ELSE grown
    /\ UNCHANGED <<limit, known, other, capacity, reserve, deferring, gov, released>>

StreamWrites == Writes(pinned) /\ UNCHANGED changes
DownloadWrites == Writes(pinned + 1) /\ Change

\* Downloads pin what is there, unpin, or a torrent is removed.
Pins(pin, f) ==
    /\ Change
    /\ pinned' = pin /\ filled' = f
    /\ released' = (released \/ (Stepping /\ pin < pinned))
    /\ UNCHANGED <<limit, known, other, capacity, reserve, deferring, gov, grown>>

\* Ready, or its fallback: it does not trim.
EndDeferring ==
    /\ deferring /\ deferring' = FALSE
    /\ released' = (released \/ Stepping)
    /\ UNCHANGED <<limit, known, other, filled, pinned, capacity, reserve, gov, grown, changes>>

\* A PUT stores another limit, or others use the disk.
World(l, o) ==
    /\ Change
    /\ limit' = l /\ other' = o /\ filled <= DiskTotal - o
    /\ UNCHANGED <<known, cacheVars, gov, grown, released>>

\* Close, at once or between two steps, and another start: InitStorage at
\* the limit over the files on disk, then DeferTrim.
GovernorRestart ==
    /\ Change
    /\ gov.pc \in {"idle", "step"}
    /\ pinned' = 0 /\ capacity' = limit /\ reserve' = 0 /\ deferring' = TRUE
    /\ known' = limit /\ gov' = NoPass /\ grown' = 0 /\ released' = FALSE
    /\ UNCHANGED <<limit, other, filled>>

Steps == PassReads \/ PassResolves \/ StepDown \/ GovernorTrims \/ Looks \/ GoesToTarget
GovernorNext ==
    \/ Steps
    \/ StreamWrites \/ DownloadWrites \/ EndDeferring \/ GovernorRestart
    \/ \E pin \in 0..DiskTotal :
          \/ pin <= filled /\ Pins(pin, filled)
          \/ filled > 0 /\ pin \in {pinned, pinned - 1} /\ pin <= filled - 1 /\ Pins(pin, filled - 1)
    \/ \E l \in Limits : World(l, other)
    \/ \E o \in Others : World(limit, o)

GovernorSpec == GovernorInit /\ [][GovernorNext]_governorVars

\* The loop runs a pass every minute, and a pass goes on; the deferral ends
\* by Ready or by its fallback.
GovernorFairSpec == GovernorSpec /\ WF_governorVars(Steps) /\ WF_governorVars(EndDeferring)

-----------------------------------------------------------------------------
GovernorTypeOK ==
    /\ limit \in Limits /\ known \in Limits /\ other \in Nat
    /\ filled \in 0..DiskTotal - other /\ pinned \in 0..filled
    /\ capacity \in Nat /\ reserve \in Nat /\ deferring \in BOOLEAN
    /\ gov \in {NoPass}
         \cup [pc : {"read"}, limit : Limits, free : Nat]
         \cup [pc : {"step", "trim", "look", "last", "lastTrim"}, target : Nat, lowest : Nat, c : Nat]
    /\ grown \in Nat /\ released \in BOOLEAN /\ changes \in 0..MaxChanges

\* Whatever the disk does, the cache is never capped below MinBytes, not by
\* a step either.
CapAtLeastMin == capacity >= MinBytes

\* No trim of the governor evicts bytes its target has room for.
NeverOverTrims ==
    [][gov' # gov /\ filled' < filled => filled' >= gov.target]_governorVars

\* A trim of the governor evicts no more than a step, and what the fill has
\* grown by since the pass looked, however the cache is written to, pinned
\* and removed from meanwhile; but pins released under the pass, or the end
\* of the deferral, can free more.
TrimsAreSteps ==
    [][gov' # gov /\ filled' < filled => released \/ filled - filled' <= TrimStepBytes + grown]_governorVars

\* Once the settings, the pins and the disk's other use stop changing, the
\* cap becomes the effective size for good and the fill comes under it, or
\* down to what is pinned and reserved, while streams go on writing: the
\* floor does not chase the fill it depends on.
Settles ==
    <>[](LET target == EffectiveBytes(limit, DiskTotal, DiskFree, filled)
         IN  capacity = target /\ filled <= Greater(target, pinned + reserve))
=============================================================================
