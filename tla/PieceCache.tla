----------------------------- MODULE PieceCache -----------------------------
(***************************************************************************)
(* The shared piece cache (internal/torrent/piececache): a directory of    *)
(* files kept under a capacity by evicting the least recently used one,    *)
(* with pieces that downloads pin, a reserve of unpinned bytes, and trims  *)
(* deferred until the pins are restored after a start.                     *)
(*                                                                         *)
(* Everything the code does under Cache.mu is one step, but for the loop   *)
(* of trimToCapacity: each eviction is a step of its own, and the mutex    *)
(* stays taken (trim # NoTrim) until the loop ends.  The os calls made     *)
(* without the mutex (opening a file, writing to it) interleave with       *)
(* everything.  Sizes are small numbers, and access times are only their   *)
(* order, the relation older.                                              *)
(***************************************************************************)
EXTENDS Integers, FiniteSets

CONSTANTS
    Hex,         \* the pieces, named by the hex of their hash
    Key,         \* the item paths in use: <<hex, Complete>> or <<hex, offset>>
    Complete,    \* the second half of completed/<hex>
    Owner,       \* the pin owners, one per torrent with downloads
    Thread,      \* the goroutines with a file of the cache open
    MaxSize,     \* the largest file
    Capacities,  \* the values SetCapacity is given; negative is unlimited
    Reserves,    \* the values SetReserve is given
    MaxGen,      \* bound on the deferrals of one process
    NoKey, NoTrim

ASSUME KeyAssumption ==
    /\ \A k \in Key : k = <<k[1], k[2]>> /\ k[1] \in Hex
    /\ NoKey \notin Key /\ NoTrim \notin Key /\ NoKey # NoTrim
ASSUME OwnerAssumption == IsFiniteSet(Owner)
ASSUME SizeAssumption ==
    /\ MaxSize \in Nat /\ MaxGen \in Nat
    /\ Capacities \subseteq Int /\ Reserves \subseteq Nat

VARIABLES
    disk,       \* the size of each file, or NoFile
    items,      \* Cache.items: the recorded size of each item
    older,      \* <<j, k>>: item j was accessed before item k
    policy,     \* the keys in the LRU
    dirs,       \* the keys in the directory index (DirIndex has its tree)
    filled, pinned, capacity, reserve,
    owners,     \* the hexes each owner pins
    pinCount,   \* how many owners pin each hex
    deferring, deferGen,
    timers,     \* generation -> "armed", or "fired" and waiting for the mutex
    trim,       \* the protected key of the trim under way, or NoTrim
    handle      \* the File each thread has open

vars == <<disk, items, older, policy, dirs, filled, pinned, capacity, reserve,
          owners, pinCount, deferring, deferGen, timers, trim, handle>>

pinVars == <<owners, pinCount>>
deferVars == <<deferring, deferGen, timers>>
limitVars == <<capacity, reserve>>

-----------------------------------------------------------------------------
NoFile == -1
Larger(m, n) == IF m > n THEN m ELSE n

\* A handle is linked while its file still has the name it was opened under.
NoHandle == [pc |-> "closed", op |-> "none", key |-> NoKey,
             linked |-> FALSE, off |-> 0]
Handles == [pc : {"opened", "open", "wrote"}, op : {"put", "writeAt", "get"},
            key : Key, linked : BOOLEAN, off : 0..MaxSize]

IsPinned(k) == pinCount[k[1]] > 0

\* completed/<h>, and the files the index has under incompleted/<h>.
PieceItems(h) ==
    {k \in DOMAIN items : k[1] = h /\ (k[2] = Complete \/ k \in dirs)}

\* The bytes of the files of S: a byte is its file and its place in it.
Bytes(size, S) == {b \in S \X (1..MaxSize) : b[2] <= size[b[1]]}
SumOver(size, S) == Cardinality(Bytes(size, S))

Without(f, S) == [k \in (DOMAIN f) \ S |-> f[k]]

TotalOrder(r, S) ==
    /\ r \subseteq S \X S
    /\ \A j \in S : <<j, j>> \notin r
    /\ \A j, k \in S : j # k => (<<j, k>> \in r <=> <<k, j>> \notin r)
    /\ \A i, j, k \in S : <<i, j>> \in r /\ <<j, k>> \in r => <<i, k>> \in r

\* The access order once k is the newest, and once k is gone.
Drop(r, k) == {p \in r : p[1] # k /\ p[2] # k}

Newest(k) == Drop(older, k) \cup (((DOMAIN items) \ {k}) \X {k})

\* lru.Choose: the item the trim takes next.
Oldest(k) == k \in policy /\ \A j \in policy \ {k} : <<k, j>> \in older

\* Bug: the loop ignores deferring.
BugMustEvictDeferred(protect) ==
    /\ capacity >= 0 /\ filled > capacity /\ filled - pinned > reserve
    /\ policy # {}
    /\ ~(policy = {protect} /\ items[protect] <= capacity)

\* The loop condition of trimToCapacity, with its early returns.
MustEvict(protect) ==
    /\ capacity >= 0
    /\ ~deferring
    /\ filled > capacity
    /\ filled - pinned > reserve
    /\ policy # {}
    /\ ~(policy = {protect} /\ items[protect] <= capacity)

\* The trim after an update keeps the mutex while there is more to evict.
TrimAfter(protect) ==
    \E p \in {protect} : trim' = IF MustEvict(p)' THEN p ELSE NoTrim

-----------------------------------------------------------------------------
(* updateItem, in its two forms: k gets a size and becomes the newest, or  *)
(* k is forgotten.  UpdateItem(k, protect) is followed by the trim.        *)

StoreItem(k, size) ==
    LET was == IF k \in DOMAIN items THEN items[k] ELSE 0
    IN  /\ items' = [j \in DOMAIN items \cup {k} |->
                        IF j = k THEN size ELSE items[j]]
        /\ older' = Newest(k)
        /\ filled' = filled - was + size
        /\ pinned' = IF IsPinned(k) THEN pinned - was + size ELSE pinned
        /\ policy' = IF IsPinned(k) THEN policy ELSE policy \cup {k}
        /\ dirs' = dirs \cup {k}

\* Bug: forgetting a pinned item leaves its bytes in pinned.
BugForgetItem(k) ==
    LET was == IF k \in DOMAIN items THEN items[k] ELSE 0
    IN  /\ items' = Without(items, {k})
        /\ older' = Drop(older, k)
        /\ filled' = filled - was
        /\ pinned' = pinned
        /\ policy' = policy \ {k}
        /\ dirs' = IF k \in DOMAIN items THEN dirs \ {k} ELSE dirs

ForgetItem(k) ==
    LET was == IF k \in DOMAIN items THEN items[k] ELSE 0
    IN  /\ items' = Without(items, {k})
        /\ older' = Drop(older, k)
        /\ filled' = filled - was
        /\ pinned' = IF IsPinned(k) THEN pinned - was ELSE pinned
        /\ policy' = policy \ {k}
        /\ dirs' = IF k \in DOMAIN items THEN dirs \ {k} ELSE dirs

\* Bug: the file is left when a handle to it is open.
BugRemoveFile(k) ==
    /\ disk' = IF \E t \in Thread : handle[t].key = k THEN disk
               ELSE [disk EXCEPT ![k] = NoFile]
    /\ UNCHANGED handle

RemoveFile(k) ==
    /\ disk' = [disk EXCEPT ![k] = NoFile]
    /\ handle' = [t \in Thread |->
                     IF handle[t].key = k
                     THEN [handle[t] EXCEPT !.linked = FALSE] ELSE handle[t]]

LockFree == trim = NoTrim

-----------------------------------------------------------------------------
(* Files.  Put is an open that truncates and any number of writes; WriteAt *)
(* an open and one write; Get an open and any number of reads.             *)

OpenFile(t, k, op) ==
    /\ handle[t] = NoHandle
    /\ op = "get" => disk[k] # NoFile
    /\ disk' = [disk EXCEPT ![k] = IF op = "put" \/ @ = NoFile THEN 0 ELSE @]
    /\ handle' = [handle EXCEPT ![t] = [pc |-> "opened", op |-> op, key |-> k,
                                        linked |-> TRUE, off |-> 0]]
    /\ UNCHANGED <<items, older, policy, dirs, filled, pinned, trim,
                   limitVars, pinVars, deferVars>>

\* The end of OpenFile: an item not yet known is recorded as the disk has
\* it; a known one keeps its recorded size, even when the open truncated it.
RegisterItem(t) ==
    LET k == handle[t].key
    IN  /\ LockFree
        /\ handle[t].pc = "opened"
        /\ IF k \in DOMAIN items THEN StoreItem(k, items[k])
           ELSE IF disk[k] # NoFile THEN StoreItem(k, disk[k])
           ELSE ForgetItem(k)
        /\ handle' = [handle EXCEPT ![t].pc = "open"]
        /\ UNCHANGED <<disk, limitVars, pinVars, deferVars>>
        /\ TrimAfter(k)

\* A write that ends at end; one that fails writes nothing, and a WriteAt
\* still reports the offset it was given.
Write(t, end, ok) ==
    LET h == handle[t]
    IN  /\ h.pc = "open"
        /\ h.op \in {"put", "writeAt"}
        /\ h.op = "put" => IF ok THEN end > h.off ELSE end = h.off
        /\ disk' = IF ok /\ h.linked
                   THEN [disk EXCEPT ![h.key] = Larger(@, end)] ELSE disk
        /\ handle' = [handle EXCEPT ![t].pc = "wrote", ![t].off = end]
        /\ UNCHANGED <<items, older, policy, dirs, filled, pinned, trim,
                       limitVars, pinVars, deferVars>>

\* Bug: the recorded size is the end of the last write, not of the furthest.
BugAfterWrite(t) ==
    LET h == handle[t]
    IN  /\ LockFree
        /\ h.pc = "wrote"
        /\ IF h.key \in DOMAIN items THEN StoreItem(h.key, h.off)
           ELSE ForgetItem(h.key)
        /\ handle' = [handle EXCEPT ![t] =
                         IF h.op = "put" THEN [h EXCEPT !.pc = "open"]
                         ELSE NoHandle]
        /\ UNCHANGED <<disk, limitVars, pinVars, deferVars>>
        /\ TrimAfter(h.key)

AfterWrite(t) ==
    LET h == handle[t]
    IN  /\ LockFree
        /\ h.pc = "wrote"
        /\ IF h.key \in DOMAIN items
           THEN StoreItem(h.key, Larger(items[h.key], h.off))
           ELSE ForgetItem(h.key)
        /\ handle' = [handle EXCEPT ![t] =
                         IF h.op = "put" THEN [h EXCEPT !.pc = "open"]
                         ELSE NoHandle]
        /\ UNCHANGED <<disk, limitVars, pinVars, deferVars>>
        /\ TrimAfter(h.key)

Read(t) ==
    LET k == handle[t].key
    IN  /\ LockFree
        /\ handle[t].pc = "open"
        /\ handle[t].op = "get"
        /\ IF k \in DOMAIN items THEN StoreItem(k, items[k]) ELSE ForgetItem(k)
        /\ UNCHANGED <<disk, handle, limitVars, pinVars, deferVars>>
        /\ TrimAfter(k)

Close(t) ==
    /\ handle[t].pc = "open"
    /\ handle[t].op # "writeAt"
    /\ handle' = [handle EXCEPT ![t] = NoHandle]
    /\ UNCHANGED <<disk, items, older, policy, dirs, filled, pinned, trim,
                   limitVars, pinVars, deferVars>>

Remove(k) ==
    /\ LockFree
    /\ RemoveFile(k)
    /\ ForgetItem(k)
    /\ UNCHANGED <<limitVars, pinVars, deferVars>>
    /\ TrimAfter(k)

-----------------------------------------------------------------------------
(* Trimming and its limits.                                                *)

TrimToCapacity ==
    /\ LockFree
    /\ MustEvict(NoKey)
    /\ trim' = NoKey
    /\ UNCHANGED <<disk, items, older, policy, dirs, filled, pinned, handle,
                   limitVars, pinVars, deferVars>>

\* Bug: one eviction for each update, and no loop.
BugEvict(k) ==
    /\ trim # NoTrim
    /\ Oldest(k)
    /\ RemoveFile(k)
    /\ ForgetItem(k)
    /\ trim' = NoTrim
    /\ UNCHANGED <<limitVars, pinVars, deferVars>>

\* One round of the loop.
Evict(k) ==
    /\ trim # NoTrim
    /\ Oldest(k)
    /\ RemoveFile(k)
    /\ ForgetItem(k)
    /\ UNCHANGED <<limitVars, pinVars, deferVars>>
    /\ TrimAfter(trim)

SetCapacity(c) ==
    /\ LockFree
    /\ capacity' = c
    /\ UNCHANGED <<disk, items, older, policy, dirs, filled, pinned, reserve,
                   trim, handle, pinVars, deferVars>>

SetReserve(r) ==
    /\ LockFree
    /\ reserve' = r
    /\ UNCHANGED <<disk, items, older, policy, dirs, filled, pinned, capacity,
                   trim, handle, pinVars, deferVars>>

-----------------------------------------------------------------------------
(* Pins.                                                                   *)

Pin(o, hexes) ==
    LET added == hexes \ owners[o]
        dropped == owners[o] \ hexes
        count == [h \in Hex |-> pinCount[h] + (IF h \in added THEN 1 ELSE 0)
                                            - (IF h \in dropped THEN 1 ELSE 0)]
        newly == UNION {PieceItems(h) : h \in {g \in added : count[g] = 1}}
        freed == UNION {PieceItems(h) : h \in {g \in dropped : count[g] = 0}}
    IN  /\ LockFree
        /\ pinCount' = count
        /\ owners' = [owners EXCEPT ![o] = hexes]
        /\ policy' = (policy \ newly) \cup freed
        /\ pinned' = pinned + SumOver(items, newly) - SumOver(items, freed)
        /\ UNCHANGED <<disk, items, older, dirs, filled, trim, handle,
                       limitVars, deferVars>>

\* The pieces' items go, in their order, just before the oldest unpinned
\* item, or to the end when every item is pinned.  Times are nanoseconds
\* apart there: how they fall among pinned items older than that is left open.
Demote(hexes) ==
    LET D == UNION {PieceItems(h) : h \in hexes}
        rest == (DOMAIN items) \ D
        before == {j \in rest : \A b \in policy : Oldest(b) => <<j, b>> \in older}
        after == rest \ before
    IN  /\ LockFree
        /\ D # {}
        /\ \E ahead \in SUBSET (D \X before) :
              older' = (older \cap ((D \X D) \cup (rest \X rest)))
                       \cup (D \X after) \cup ahead
                       \cup {p \in before \X D : <<p[2], p[1]>> \notin ahead}
        /\ TotalOrder(older', DOMAIN items)
        /\ UNCHANGED <<disk, items, policy, dirs, filled, pinned, trim, handle,
                       limitVars, pinVars, deferVars>>

-----------------------------------------------------------------------------
(* Deferred trims.                                                         *)

\* Bug: the fallback timer is not started.
BugDeferTrim ==
    /\ LockFree
    /\ ~deferring
    /\ deferGen < MaxGen
    /\ deferring' = TRUE
    /\ deferGen' = deferGen + 1
    /\ UNCHANGED <<disk, items, older, policy, dirs, filled, pinned, trim,
                   handle, timers, limitVars, pinVars>>

DeferTrim ==
    /\ LockFree
    /\ ~deferring
    /\ deferGen < MaxGen
    /\ deferring' = TRUE
    /\ deferGen' = deferGen + 1
    /\ timers' = [timers EXCEPT ![deferGen + 1] = "armed"]
    /\ UNCHANGED <<disk, items, older, policy, dirs, filled, pinned, trim,
                   handle, limitVars, pinVars>>

\* Stop has no effect on a timer that fired.
EndDeferring ==
    /\ deferring
    /\ deferring' = FALSE
    /\ timers' = [timers EXCEPT ![deferGen] = IF @ = "armed" THEN "none" ELSE @]

Ready ==
    /\ LockFree
    /\ EndDeferring
    /\ UNCHANGED <<disk, items, older, policy, dirs, filled, pinned, trim,
                   handle, deferGen, limitVars, pinVars>>

TimerFires(g) ==
    /\ timers[g] = "armed"
    /\ timers' = [timers EXCEPT ![g] = "fired"]
    /\ UNCHANGED <<disk, items, older, policy, dirs, filled, pinned, trim,
                   handle, deferring, deferGen, limitVars, pinVars>>

\* Bug: a timer ends whatever deferral is on.
BugFallback(g) ==
    /\ LockFree
    /\ timers[g] = "fired"
    /\ deferring' = FALSE
    /\ timers' = [timers EXCEPT ![g] = "none"]
    /\ UNCHANGED <<disk, items, older, policy, dirs, filled, pinned, trim,
                   handle, deferGen, limitVars, pinVars>>

Fallback(g) ==
    /\ LockFree
    /\ timers[g] = "fired"
    /\ deferring' = (deferring /\ g # deferGen)
    /\ timers' = [timers EXCEPT ![g] = "none"]
    /\ UNCHANGED <<disk, items, older, policy, dirs, filled, pinned, trim,
                   handle, deferGen, limitVars, pinVars>>

-----------------------------------------------------------------------------
(* The process stops at any point and starts again: NewCache and rescan,   *)
(* then DeferTrim before anyone writes (cmd/momoshtrem/main.go:237).       *)

Files == {k \in Key : disk[k] # NoFile}

Restart ==
    /\ items' = [k \in Files |-> disk[k]]
    /\ \E rank \in [Files -> 1..Cardinality(Files)] :
          /\ \A j, k \in Files : j # k => rank[j] # rank[k]
          /\ older' = {p \in Files \X Files : rank[p[1]] < rank[p[2]]}
    /\ policy' = Files
    /\ dirs' = Files
    /\ filled' = SumOver(disk, Files)
    /\ pinned' = 0
    /\ capacity' = -1
    /\ reserve' = 0
    /\ owners' = [o \in Owner |-> {}]
    /\ pinCount' = [h \in Hex |-> 0]
    /\ deferring' = FALSE
    /\ deferGen' = 0
    /\ timers' = [g \in 1..MaxGen |-> "none"]
    /\ trim' = NoTrim
    /\ handle' = [t \in Thread |-> NoHandle]
    /\ UNCHANGED disk

Init ==
    /\ disk = [k \in Key |-> NoFile]
    /\ items = [k \in {} |-> 0]
    /\ older = {} /\ policy = {} /\ dirs = {}
    /\ filled = 0 /\ pinned = 0
    /\ capacity = -1 /\ reserve = 0
    /\ owners = [o \in Owner |-> {}]
    /\ pinCount = [h \in Hex |-> 0]
    /\ deferring = FALSE /\ deferGen = 0
    /\ timers = [g \in 1..MaxGen |-> "none"]
    /\ trim = NoTrim
    /\ handle = [t \in Thread |-> NoHandle]

FileStep(t) ==
    \/ \E k \in Key, op \in {"put", "writeAt", "get"} : OpenFile(t, k, op)
    \/ RegisterItem(t)
    \/ \E end \in 0..MaxSize, ok \in BOOLEAN : Write(t, end, ok)
    \/ AfterWrite(t)
    \/ Read(t)
    \/ Close(t)

Next ==
    \/ \E t \in Thread : FileStep(t)
    \/ \E k \in Key : Remove(k)
    \/ TrimToCapacity
    \/ \E k \in Key : Evict(k)
    \/ \E c \in Capacities : SetCapacity(c)
    \/ \E r \in Reserves : SetReserve(r)
    \/ \E o \in Owner, hexes \in SUBSET Hex : Pin(o, hexes)
    \/ \E hexes \in SUBSET Hex : Demote(hexes)
    \/ DeferTrim
    \/ Ready
    \/ \E g \in 1..MaxGen : TimerFires(g)
    \/ \E g \in 1..MaxGen : Fallback(g)
    \/ Restart

Spec == Init /\ [][Next]_vars

-----------------------------------------------------------------------------
(* Properties.                                                             *)

\* Every variable keeps its type and bounds (AccountingExact gives those of
\* filled and pinned).
TypeOK ==
    /\ disk \in [Key -> {NoFile} \cup 0..MaxSize]
    /\ DOMAIN items \subseteq Key /\ items \in [DOMAIN items -> 0..MaxSize]
    /\ older \subseteq Key \X Key
    /\ policy \subseteq Key /\ dirs \subseteq Key
    /\ capacity \in Capacities \cup {-1} /\ reserve \in Reserves \cup {0}
    /\ owners \in [Owner -> SUBSET Hex]
    /\ pinCount \in [Hex -> Nat]
    /\ deferring \in BOOLEAN /\ deferGen \in 0..MaxGen
    /\ timers \in [1..MaxGen -> {"none", "armed", "fired"}]
    /\ trim \in Key \cup {NoKey, NoTrim}
    /\ handle \in [Thread -> {NoHandle} \cup Handles]

\* The tables of the cache say the same thing: the LRU holds exactly the
\* items no owner pins, whatever order pieces were pinned, unpinned, written
\* and removed in; a hex is pinned as often as owners name it; and the
\* directory index lists the items, so pinning finds all of a piece's items.
PinsCounted ==
    \A h \in Hex : pinCount[h] = Cardinality({o \in Owner : h \in owners[o]})
UnpinnedInPolicy == policy = {k \in DOMAIN items : ~IsPinned(k)}
TablesAgree == PinsCounted /\ UnpinnedInPolicy /\ dirs = DOMAIN items

\* The access order of the items stays total, through demotions too, so the
\* LRU always has one oldest item.
AccessOrderTotal == TotalOrder(older, DOMAIN items)

\* filled and pinned are the sums they stand for after every update.
AccountingExact ==
    /\ filled = SumOver(items, DOMAIN items)
    /\ pinned = SumOver(items, {k \in DOMAIN items : IsPinned(k)})

\* A handle that will still tell the cache about its file.
Opening(t, k) == handle[t].key = k /\ handle[t].pc = "opened"

\* The record never loses a file: an item always has its file, and a file the
\* cache has no item for is about to be recorded by whoever opened it.
FilesAreItems ==
    \A k \in Key :
        /\ k \in DOMAIN items => disk[k] # NoFile
        /\ disk[k] # NoFile => k \in DOMAIN items \/ \E t \in Thread : Opening(t, k)

\* What the capacity is checked against is never less than what the disk
\* holds, but for a write whose afterWrite is still to run.
NeverUndercounts ==
    \A k \in DOMAIN items :
        \/ disk[k] <= items[k]
        \/ \E t \in Thread : /\ handle[t].key = k /\ handle[t].pc = "wrote"
                             /\ handle[t].off >= disk[k]

\* A pinned piece's item is only ever lost to Remove, which the storage calls
\* for a failed hash: no trim, deferral, demotion or restart takes it.
PinnedStays ==
    [][\A k \in DOMAIN items :
          IsPinned(k) /\ k \notin DOMAIN items' => Remove(k)]_vars

\* A trim takes items strictly in the order of their last use: no unpinned
\* item that stays was used before the one that goes.
EvictsOldestFirst ==
    [][\A k \in Key : Evict(k) =>
          \A j \in (DOMAIN items) \ {k} : ~IsPinned(j) => <<k, j>> \in older]_vars

\* The item whose update runs the trim goes in that trim only if it does not
\* fit the capacity on its own: a piece being written is not thrown away to
\* make room for pinned ones.
OwnUpdateSurvives ==
    [][\A k \in Key : Evict(k) /\ trim = k /\ k \in DOMAIN items
                        => items[k] > capacity]_vars

\* Without pins, and with a reserve within the capacity, a trim that ends
\* leaves the cache within its capacity.
TrimReachesCapacity ==
    [][(trim # NoTrim /\ trim' = NoTrim /\ ~Restart /\ pinned' = 0
          /\ reserve <= capacity) => filled' <= capacity]_vars

\* While trims are deferred nothing is evicted, so that pins restored after
\* a start find what the previous process kept.
DeferredKeeps ==
    [][deferring => \A k \in (DOMAIN items) \ (DOMAIN items') : Remove(k)]_vars

\* A deferral ends by Ready or by its own timer, never by the timer of an
\* earlier deferral that fired as Ready stopped it.
OnlyOwnTimerEndsDeferral ==
    [][deferring /\ ~deferring' =>
          \/ Ready
          \/ Restart
          \/ timers[deferGen] = "fired" /\ timers'[deferGen] = "none"]_vars

\* The cache is the store that its users rely on.
Store == INSTANCE PinStore WITH store <- DOMAIN items, held <- deferring,
                                busy <- ~LockFree

\* Seen through its items and pins, every step of the cache is one of the
\* promised ones: items come by registering, go by Remove or by an eviction
\* of an unpinned one, and survive a restart.
ImplementsPinStore == Store!Spec

\* The runtime fires an armed timer and runs its goroutine, the loop of a
\* trim goes on, and Go's mutex starves nobody.
Fairness ==
    /\ WF_vars(\E k \in Key : Evict(k))
    /\ \A g \in 1..MaxGen : WF_vars(TimerFires(g)) /\ SF_vars(Fallback(g))

FairSpec == Spec /\ Fairness

\* A deferral nobody ends with Ready still ends.
DeferralEnds == deferring ~> ~deferring
=============================================================================
