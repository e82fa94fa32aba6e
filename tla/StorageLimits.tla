--------------------------- MODULE StorageLimits ---------------------------
(***************************************************************************)
(* The limits of the piece cache (internal/storagecap/resolve.go) and the  *)
(* checks a PUT /settings/storage makes of them (patch.go).                *)
(*                                                                         *)
(* A document of settings keeps the fields the limits depend on: whether   *)
(* it holds limit_bytes, its value, and the caps of kept and smart         *)
(* downloads.  Null is JSON's null and Go's nil.  A patch says which of    *)
(* the three fields a PUT sends.                                           *)
(***************************************************************************)
EXTENDS Integers

CONSTANTS
    DiskTotal,        \* the size of the disk the cache is on
    MinBytes,         \* the least the cache is capped at
    FloorFreeBytes,   \* what the cache leaves free on the disk
    MaxReserveBytes,  \* bounds the streaming reserve
    Null

ASSUME BytesAssumption ==
    /\ DiskTotal \in Nat \ {0}
    /\ MinBytes \in Nat \ {0} /\ FloorFreeBytes \in Nat /\ MaxReserveBytes \in Nat
    /\ Null \notin Int

Bytes == Nat \cup {Null}
StorageSettings == [limitSet : BOOLEAN, limit : Bytes, kept : Bytes, smart : Bytes]
StorageSettingsPatch == [setLimit : BOOLEAN, limit : Bytes,
                         setKept : BOOLEAN, kept : Bytes,
                         setSmart : BOOLEAN, smart : Bytes]

DefaultStorageSettings == [limitSet |-> FALSE, limit |-> Null, kept |-> Null, smart |-> Null]

Lesser(m, n) == IF m < n THEN m ELSE n
Greater(m, n) == IF m < n THEN n ELSE m
Percent(n, p) == (n * p) \div 100
\* The value, or the default of a null.
Or(v, default) == IF v = Null THEN default ELSE v

-----------------------------------------------------------------------------
(* Resolve: config is config.yaml's limit, total the size of the disk (0   *)
(* when it can't be read).                                                 *)

AutoBytes(total) == Percent(total, 75)
MaxBytes(total) == Percent(total, 90)

\* A stored limit wins over config.yaml, a stored null meaning auto.
WantedLimit(s, config, total) ==
    IF s.limitSet THEN Or(s.limit, AutoBytes(total)) ELSE Or(config, AutoBytes(total))

LimitBytes(s, config, total) ==
    LET want == WantedLimit(s, config, total)
        most == MaxBytes(total)
    IN  Greater(IF most > 0 THEN Lesser(want, most) ELSE want, MinBytes)

\* As if the floor were taken from the free space alone.
BugEffectiveFree(limit, total, free, filled) ==
    IF total > 0 THEN Greater(Lesser(limit, free - FloorFreeBytes), MinBytes) ELSE limit

\* The cache may grow into the free space, less the floor.
EffectiveBytes(limit, total, free, filled) ==
    IF total > 0
    THEN Greater(Lesser(limit, filled + free - FloorFreeBytes), MinBytes)
    ELSE limit

ReserveBytes(limit) == Lesser(MaxReserveBytes, Percent(limit, 25))
Room(limit) == limit - ReserveBytes(limit)

KeptMaxBytes(s, limit) ==
    Greater(Lesser(Or(s.kept, Percent(limit, 50)), Room(limit)), 0)
SmartMaxBytes(s, limit) ==
    Greater(Lesser(Or(s.smart, Percent(limit, 15)), Room(limit) - KeptMaxBytes(s, limit)), 0)

-----------------------------------------------------------------------------
(* A PUT.                                                                  *)

Apply(p, s) ==
    [limitSet |-> s.limitSet \/ p.setLimit,
     limit    |-> IF p.setLimit THEN p.limit ELSE s.limit,
     kept     |-> IF p.setKept THEN p.kept ELSE s.kept,
     smart    |-> IF p.setSmart THEN p.smart ELSE s.smart]

Unfit(v, most) == v # Null /\ v > most

LimitOutOfRange(p, total) ==
    /\ p.setLimit
    /\ \/ p.limit # Null /\ p.limit < MinBytes
       \/ MaxBytes(total) > 0 /\ Unfit(p.limit, MaxBytes(total))

\* As if a smart cap sent alone needed no check.
BugCheckSmart(p, merged, limit, total) ==
    IF LimitOutOfRange(p, total) THEN "limit_bytes"
    ELSE IF ~p.setLimit /\ ~p.setKept THEN ""
    ELSE IF Unfit(merged.kept, Room(limit)) THEN "kept.max_bytes"
    ELSE IF Unfit(merged.smart, Room(limit) - KeptMaxBytes(merged, limit))
    THEN "smart.max_bytes" ELSE ""

\* The field checkLimits refuses, or "" when it accepts; limit is that of
\* the settings merged.
checkLimits(p, merged, limit, total) ==
    LET keptUnfit == Unfit(merged.kept, Room(limit))
        smartUnfit == Unfit(merged.smart, Room(limit) - KeptMaxBytes(merged, limit))
    IN  IF LimitOutOfRange(p, total) THEN "limit_bytes"
        ELSE IF ~p.setLimit /\ ~p.setKept /\ ~p.setSmart THEN ""
        ELSE IF keptUnfit /\ p.setKept THEN "kept.max_bytes"
        ELSE IF keptUnfit /\ p.setLimit THEN "limit_bytes"
        ELSE IF ~smartUnfit THEN ""
        ELSE IF p.setSmart THEN "smart.max_bytes"
        ELSE IF p.setKept THEN "kept.max_bytes"
        ELSE "limit_bytes"

\* Every explicit cap fits what the limit leaves it.
CapsFit(s, limit) ==
    /\ ~Unfit(s.kept, Room(limit))
    /\ ~Unfit(s.smart, Room(limit) - KeptMaxBytes(s, limit))
=============================================================================
