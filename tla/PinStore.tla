------------------------------ MODULE PinStore ------------------------------
(***************************************************************************)
(* What the piece cache promises the rest of the program                   *)
(* (internal/torrent/piececache/pins.go): a store of items that makes room *)
(* by evicting some of them, never one of a piece that an owner pins, and  *)
(* none at all while trims are held.  Callers wait while it makes room.    *)
(* Sizes, order and files are its own business.                            *)
(***************************************************************************)
CONSTANTS Hex, Key, Owner

VARIABLES
    store,    \* the items held
    owners,   \* the pieces each owner pins
    held,     \* trims are held (DeferTrim)
    busy      \* the store is making room

storeVars == <<store, owners, held, busy>>

Pinned(k) == \E o \in Owner : k[1] \in owners[o]

\* It may start to make room at the end of a call that changes the items.
MayMakeRoom == busy' \in BOOLEAN

\* A write or a read registers an item.
Add(k) ==
    /\ ~busy
    /\ store' = store \cup {k}
    /\ MayMakeRoom
    /\ UNCHANGED <<owners, held>>

\* A piece that fails its hash goes, pinned or not.
Delete(k) ==
    /\ ~busy
    /\ store' = store \ {k}
    /\ MayMakeRoom
    /\ UNCHANGED <<owners, held>>

\* Asked to make room.
Trim == ~busy /\ busy' = TRUE /\ UNCHANGED <<store, owners, held>>

\* Making room ends with some eviction.
Evict(k) ==
    /\ busy
    /\ ~held
    /\ k \in store
    /\ ~Pinned(k)
    /\ store' = store \ {k}
    /\ MayMakeRoom
    /\ UNCHANGED <<owners, held>>

\* It has made all the room it wants, or can.
Rests == busy /\ busy' = FALSE /\ UNCHANGED <<store, owners, held>>

\* Pin replaces the set of one owner.
Pin(o, hexes) ==
    /\ ~busy
    /\ owners' = [owners EXCEPT ![o] = hexes]
    /\ UNCHANGED <<store, held, busy>>

Hold == ~busy /\ held' = TRUE /\ UNCHANGED <<store, owners, busy>>
Release == ~busy /\ held' = FALSE /\ UNCHANGED <<store, owners, busy>>

\* A restart loses the pins, and no item: it can find files that were not
\* registered yet.
Restart ==
    /\ store \subseteq store'
    /\ store' \subseteq Key
    /\ owners' = [o \in Owner |-> {}]
    /\ held' = FALSE
    /\ busy' = FALSE

Init ==
    /\ store = {}
    /\ owners = [o \in Owner |-> {}]
    /\ held = FALSE
    /\ busy = FALSE

Next ==
    \/ \E k \in Key : Add(k) \/ Delete(k) \/ Evict(k)
    \/ \E o \in Owner, hexes \in SUBSET Hex : Pin(o, hexes)
    \/ Trim \/ Rests \/ Hold \/ Release
    \/ Restart

Spec == Init /\ [][Next]_storeVars
=============================================================================
