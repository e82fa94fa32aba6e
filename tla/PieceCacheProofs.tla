-------------------------- MODULE PieceCacheProofs --------------------------
(***************************************************************************)
(* Proofs about the piece cache, for any pieces, paths, owners, threads    *)
(* and limits.  Inv is the inductive invariant: the types, the agreement   *)
(* of the tables, and where the files of the disk stand.                   *)
(***************************************************************************)
EXTENDS PieceCache, FiniteSetTheorems, TLAPS

\* A handle that is linked has its file.
LinkedHaveFiles ==
    \A t \in Thread : handle[t].linked => disk[handle[t].key] # NoFile

TablesInv == TypeOK /\ TablesAgree

-----------------------------------------------------------------------------
(* The two forms of an update.                                             *)

\* Storing an item keeps the types and the agreement of the tables.
LEMMA StoreItemTables ==
    ASSUME TypeOK, UnpinnedInPolicy, dirs = DOMAIN items,
           NEW k \in Key, NEW size \in 0..MaxSize, StoreItem(k, size),
           UNCHANGED pinVars
    PROVE  /\ DOMAIN items' \subseteq Key /\ items' \in [DOMAIN items' -> 0..MaxSize]
           /\ older' \subseteq Key \X Key
           /\ policy' \subseteq Key /\ dirs' \subseteq Key
           /\ UnpinnedInPolicy' /\ dirs' = DOMAIN items'
           /\ DOMAIN items' = DOMAIN items \cup {k}
<1>1. DOMAIN items' = DOMAIN items \cup {k}
  BY DEF StoreItem
<1>2. DOMAIN items' \subseteq Key /\ items' \in [DOMAIN items' -> 0..MaxSize]
  BY <1>1 DEF StoreItem, TypeOK
<1>3. older' \subseteq Key \X Key
  BY DEF StoreItem, TypeOK, Newest, Drop
<1>4. policy' \subseteq Key /\ dirs' \subseteq Key /\ dirs' = DOMAIN items'
  BY <1>1 DEF StoreItem, TypeOK
<1>5. \A j : IsPinned(j)' = IsPinned(j)
  BY DEF IsPinned, pinVars
<1>6. UnpinnedInPolicy'
  <2>1. CASE IsPinned(k)
    BY <1>1, <1>5, <2>1 DEF StoreItem, UnpinnedInPolicy
  <2>2. CASE ~IsPinned(k)
    BY <1>1, <1>5, <2>2 DEF StoreItem, UnpinnedInPolicy
  <2> QED BY <2>1, <2>2
<1> QED BY <1>1, <1>2, <1>3, <1>4, <1>6

\* Forgetting an item, or a key that is none, keeps them too.
LEMMA ForgetItemTables ==
    ASSUME TypeOK, UnpinnedInPolicy, dirs = DOMAIN items,
           NEW k, ForgetItem(k), UNCHANGED pinVars
    PROVE  /\ DOMAIN items' \subseteq Key /\ items' \in [DOMAIN items' -> 0..MaxSize]
           /\ older' \subseteq Key \X Key
           /\ policy' \subseteq Key /\ dirs' \subseteq Key
           /\ UnpinnedInPolicy' /\ dirs' = DOMAIN items'
           /\ DOMAIN items' = DOMAIN items \ {k}
<1>1. DOMAIN items' = DOMAIN items \ {k} /\ \A j \in DOMAIN items' : items'[j] = items[j]
  BY DEF ForgetItem, Without
<1>2. items' = [j \in DOMAIN items' |-> items'[j]]
  BY DEF ForgetItem, Without
<1>3. DOMAIN items' \subseteq Key /\ items' \in [DOMAIN items' -> 0..MaxSize]
  BY <1>1, <1>2 DEF TypeOK
<1>4. older' \subseteq Key \X Key
  BY DEF ForgetItem, TypeOK, Drop
<1>5. policy' \subseteq Key /\ dirs' \subseteq Key /\ dirs' = DOMAIN items'
  BY <1>1 DEF ForgetItem, TypeOK
<1>6. \A j : IsPinned(j)' = IsPinned(j)
  BY DEF IsPinned, pinVars
<1>7. UnpinnedInPolicy'
  BY <1>1, <1>6 DEF ForgetItem, UnpinnedInPolicy
<1> QED BY <1>1, <1>3, <1>4, <1>5, <1>7

\* Removing a file keeps the types of the disk and of the handles.
LEMMA RemoveFileTypes ==
    ASSUME TypeOK, NEW k \in Key, RemoveFile(k)
    PROVE  /\ disk' \in [Key -> {NoFile} \cup 0..MaxSize]
           /\ handle' \in [Thread -> {NoHandle} \cup Handles]
<1>1. disk' \in [Key -> {NoFile} \cup 0..MaxSize]
  BY DEF RemoveFile, TypeOK
<1>2. ASSUME NEW t \in Thread
      PROVE  handle'[t] \in {NoHandle} \cup Handles
  <2>1. handle[t] \in {NoHandle} \cup Handles
    BY DEF TypeOK
  <2>2. CASE handle[t].key = k
    <3>1. handle'[t] = [handle[t] EXCEPT !.linked = FALSE]
      BY <2>2 DEF RemoveFile
    <3>2. handle[t] \in Handles
      BY <2>1, <2>2, KeyAssumption DEF NoHandle
    <3> QED BY <3>1, <3>2 DEF Handles
  <2>3. CASE handle[t].key # k
    BY <2>1, <2>3 DEF RemoveFile
  <2> QED BY <2>2, <2>3
<1> QED BY <1>1, <1>2 DEF RemoveFile

\* The key a trim protects is a key, or none.
LEMMA TrimAfterType ==
    ASSUME NEW k \in Key \cup {NoKey}, TrimAfter(k)
    PROVE  trim' \in Key \cup {NoKey, NoTrim}
BY DEF TrimAfter

-----------------------------------------------------------------------------
(* Pin.                                                                    *)

\* The counts follow the owners' sets.
LEMMA PinCounts ==
    ASSUME TypeOK, PinsCounted, NEW o \in Owner, NEW hexes \in SUBSET Hex,
           Pin(o, hexes)
    PROVE  PinsCounted' /\ pinCount' \in [Hex -> Nat]
<1> DEFINE By(h) == {x \in Owner : h \in owners[x]}
           Now(h) == {x \in Owner : h \in owners'[x]}
<1>1. owners' = [owners EXCEPT ![o] = hexes] /\ owners \in [Owner -> SUBSET Hex]
  BY DEF Pin, TypeOK
<1>2. ASSUME NEW h \in Hex
      PROVE  pinCount'[h] = Cardinality(Now(h)) /\ pinCount'[h] \in Nat
  <2>1. IsFiniteSet(By(h)) /\ Cardinality(By(h)) \in Nat
    BY OwnerAssumption, FS_Subset, FS_CardinalityType
  <2>2. pinCount[h] = Cardinality(By(h))
    BY DEF PinsCounted
  <2>3. CASE h \in hexes
    <3>1. Now(h) = By(h) \cup {o}
      BY <1>1, <2>3
    <3>2. Cardinality(Now(h)) = Cardinality(By(h)) + (IF h \in owners[o] THEN 0 ELSE 1)
      <4>1. o \in By(h) <=> h \in owners[o]
        OBVIOUS
      <4>2. Cardinality(By(h) \cup {o}) =
              IF o \in By(h) THEN Cardinality(By(h)) ELSE Cardinality(By(h)) + 1
        BY <2>1, FS_AddElement
      <4> HIDE DEF By, Now
      <4> QED BY <2>1, <3>1, <4>1, <4>2
    <3> HIDE DEF By, Now
    <3>3. pinCount'[h] = pinCount[h] + (IF h \in owners[o] THEN 0 ELSE 1)
      BY <2>1, <2>2, <2>3 DEF Pin
    <3> QED BY <2>1, <2>2, <3>2, <3>3
  <2>4. CASE h \notin hexes
    <3>1. Now(h) = By(h) \ {o}
      BY <1>1, <2>4
    <3>2. Cardinality(Now(h)) = Cardinality(By(h)) - (IF h \in owners[o] THEN 1 ELSE 0)
      <4>1. o \in By(h) <=> h \in owners[o]
        OBVIOUS
      <4>2. Cardinality(By(h) \ {o}) =
              IF o \in By(h) THEN Cardinality(By(h)) - 1 ELSE Cardinality(By(h))
        BY <2>1, FS_RemoveElement
      <4> HIDE DEF By, Now
      <4> QED BY <2>1, <3>1, <4>1, <4>2
    <3>3. Cardinality(Now(h)) \in Nat
      <4>1. IsFiniteSet(Now(h))
        BY OwnerAssumption, FS_Subset
      <4> QED BY <4>1, FS_CardinalityType
    <3> HIDE DEF By, Now
    <3>4. pinCount'[h] = pinCount[h] - (IF h \in owners[o] THEN 1 ELSE 0)
      BY <2>1, <2>2, <2>4 DEF Pin
    <3> QED BY <2>1, <2>2, <3>2, <3>3, <3>4
  <2> QED BY <2>3, <2>4
<1>3. pinCount' = [h \in Hex |-> pinCount'[h]]
  BY DEF Pin
<1> QED BY <1>2, <1>3 DEF PinsCounted

\* Pinning takes a piece's items out of the LRU and unpinning puts them back.
LEMMA PinPolicy ==
    ASSUME TypeOK, UnpinnedInPolicy, dirs = DOMAIN items,
           NEW o \in Owner, NEW hexes \in SUBSET Hex, Pin(o, hexes),
           pinCount' \in [Hex -> Nat]
    PROVE  UnpinnedInPolicy' /\ policy' \subseteq Key
<1> DEFINE added == hexes \ owners[o]
           dropped == owners[o] \ hexes
           newly == UNION {PieceItems(h) : h \in {g \in added : pinCount'[g] = 1}}
           freed == UNION {PieceItems(h) : h \in {g \in dropped : pinCount'[g] = 0}}
<1>1. \A h \in Hex : pinCount'[h] = pinCount[h] + (IF h \in added THEN 1 ELSE 0)
                                               - (IF h \in dropped THEN 1 ELSE 0)
  BY DEF Pin
<1>2. policy' = (policy \ newly) \cup freed /\ items' = items
  <2>1. {g \in added : pinCount'[g] = 1} = {g \in added :
           [h \in Hex |-> pinCount[h] + (IF h \in added THEN 1 ELSE 0)
                                      - (IF h \in dropped THEN 1 ELSE 0)][g] = 1}
    BY DEF Pin
  <2>2. {g \in dropped : pinCount'[g] = 0} = {g \in dropped :
           [h \in Hex |-> pinCount[h] + (IF h \in added THEN 1 ELSE 0)
                                      - (IF h \in dropped THEN 1 ELSE 0)][g] = 0}
    BY DEF Pin
  <2> QED BY <2>1, <2>2 DEF Pin
<1>3. \A k \in DOMAIN items : k[1] \in Hex /\ k \in Key
  BY KeyAssumption DEF TypeOK
<1>4. \A k : k \in newly <=> k \in DOMAIN items /\ k[1] \in added /\ pinCount'[k[1]] = 1
  BY DEF PieceItems
<1>5. \A k : k \in freed <=> k \in DOMAIN items /\ k[1] \in dropped /\ pinCount'[k[1]] = 0
  BY DEF PieceItems
<1>6. pinCount \in [Hex -> Nat]
  BY DEF TypeOK
<1> HIDE DEF newly, freed
<1>7. ASSUME NEW k
      PROVE  k \in policy' <=> k \in DOMAIN items /\ ~IsPinned(k)'
  <2>1. k \in policy <=> k \in DOMAIN items /\ ~(pinCount[k[1]] > 0)
    BY DEF UnpinnedInPolicy, IsPinned
  <2>2. CASE k \notin DOMAIN items
    BY <1>2, <1>5, <2>1, <2>2
  <2>3. CASE k \in DOMAIN items
    <3>1. /\ k[1] \in Hex /\ pinCount[k[1]] \in Nat /\ pinCount'[k[1]] \in Nat
          /\ pinCount'[k[1]] = pinCount[k[1]] + (IF k[1] \in added THEN 1 ELSE 0)
                                              - (IF k[1] \in dropped THEN 1 ELSE 0)
      BY <1>1, <1>3, <1>6, <2>3
    <3>2. ~(k[1] \in added /\ k[1] \in dropped)
      OBVIOUS
    <3> HIDE DEF added, dropped
    <3> QED BY <1>2, <1>4, <1>5, <2>1, <2>3, <3>1, <3>2 DEF IsPinned
  <2> QED BY <2>2, <2>3
<1>8. policy' \subseteq Key
  BY <1>2, <1>3, <1>5 DEF TypeOK
<1> QED BY <1>2, <1>7, <1>8 DEF UnpinnedInPolicy

-----------------------------------------------------------------------------
(* TypeOK and TablesAgree are inductive together.                          *)

LEMMA TablesInit == Init => TablesInv
<1> SUFFICES ASSUME Init PROVE TablesInv
  OBVIOUS
<1>1. TypeOK
  <2>1. DOMAIN items = {} /\ items \in [DOMAIN items -> 0..MaxSize]
    BY DEF Init
  <2>2. disk \in [Key -> {NoFile} \cup 0..MaxSize]
    BY DEF Init
  <2>3. handle \in [Thread -> {NoHandle} \cup Handles]
    BY DEF Init
  <2>4. timers \in [1..MaxGen -> {"none", "armed", "fired"}] /\ 0 \in 0..MaxGen
    BY SizeAssumption DEF Init
  <2> QED BY <2>1, <2>2, <2>3, <2>4 DEF Init, TypeOK
<1>2. PinsCounted
  <2>1. \A h \in Hex : {o \in Owner : h \in owners[o]} = {}
    BY DEF Init
  <2> QED BY <2>1, FS_EmptySet DEF Init, PinsCounted
<1>3. UnpinnedInPolicy /\ dirs = DOMAIN items
  BY DEF Init, UnpinnedInPolicy
<1> QED BY <1>1, <1>2, <1>3 DEF TablesInv, TablesAgree

\* What a step that leaves the items and the pins alone has to show.
LEMMA OthersKeepTables ==
    ASSUME TablesInv,
           UNCHANGED <<items, older, policy, dirs, pinVars>>,
           disk' \in [Key -> {NoFile} \cup 0..MaxSize],
           capacity' \in Capacities \cup {-1}, reserve' \in Reserves \cup {0},
           deferring' \in BOOLEAN, deferGen' \in 0..MaxGen,
           timers' \in [1..MaxGen -> {"none", "armed", "fired"}],
           trim' \in Key \cup {NoKey, NoTrim},
           handle' \in [Thread -> {NoHandle} \cup Handles]
    PROVE  TablesInv'
<1>1. TypeOK'
  BY DEF TablesInv, TypeOK, pinVars
<1>2. TablesAgree'
  BY DEF TablesInv, TablesAgree, PinsCounted, UnpinnedInPolicy, IsPinned, pinVars
<1> QED BY <1>1, <1>2 DEF TablesInv

\* What a step that stores or forgets an item has to show.
LEMMA UpdateKeepsTables ==
    ASSUME TablesInv, NEW k \in Key,
           ForgetItem(k) \/ \E size \in 0..MaxSize : StoreItem(k, size),
           UNCHANGED <<limitVars, pinVars, deferVars>>,
           disk' \in [Key -> {NoFile} \cup 0..MaxSize],
           trim' \in Key \cup {NoKey, NoTrim},
           handle' \in [Thread -> {NoHandle} \cup Handles]
    PROVE  TablesInv'
<1>1. /\ DOMAIN items' \subseteq Key /\ items' \in [DOMAIN items' -> 0..MaxSize]
      /\ older' \subseteq Key \X Key
      /\ policy' \subseteq Key /\ dirs' \subseteq Key
      /\ UnpinnedInPolicy' /\ dirs' = DOMAIN items'
  <2>1. TypeOK /\ UnpinnedInPolicy /\ dirs = DOMAIN items
    BY DEF TablesInv, TablesAgree
  <2>2. CASE ForgetItem(k)
    BY <2>1, <2>2, ForgetItemTables
  <2>3. ASSUME NEW size \in 0..MaxSize, StoreItem(k, size)
        PROVE  /\ DOMAIN items' \subseteq Key
               /\ items' \in [DOMAIN items' -> 0..MaxSize]
               /\ older' \subseteq Key \X Key
               /\ policy' \subseteq Key /\ dirs' \subseteq Key
               /\ UnpinnedInPolicy' /\ dirs' = DOMAIN items'
    BY <2>1, <2>3, StoreItemTables
  <2> QED BY <2>2, <2>3
<1>2. TypeOK'
  BY <1>1 DEF TablesInv, TypeOK, pinVars, limitVars, deferVars
<1>3. PinsCounted'
  BY DEF TablesInv, TablesAgree, PinsCounted, pinVars
<1> QED BY <1>1, <1>2, <1>3 DEF TablesInv, TablesAgree

LEMMA TablesNext == TablesInv /\ [Next]_vars => TablesInv'
<1> SUFFICES ASSUME TablesInv, [Next]_vars PROVE TablesInv'
  OBVIOUS
<1> USE DEF LockFree
<1>0. TypeOK
  BY DEF TablesInv
<1>t. ASSUME NEW t \in Thread, handle[t].pc # "closed"
      PROVE  handle[t] \in Handles /\ handle[t].key \in Key /\ handle[t].off \in 0..MaxSize
  BY <1>0, <1>t DEF TypeOK, NoHandle, Handles
<1>1. ASSUME NEW t \in Thread, NEW k \in Key, NEW op \in {"put", "writeAt", "get"},
             OpenFile(t, k, op)
      PROVE  TablesInv'
  <2>1. disk' \in [Key -> {NoFile} \cup 0..MaxSize]
    BY <1>0, <1>1, SizeAssumption DEF OpenFile, TypeOK
  <2>2. handle' \in [Thread -> {NoHandle} \cup Handles]
    BY <1>0, <1>1, SizeAssumption DEF OpenFile, TypeOK, Handles
  <2> QED BY <1>0, <1>1, <2>1, <2>2, OthersKeepTables
          DEF OpenFile, TypeOK, pinVars, limitVars, deferVars
<1>2. ASSUME NEW t \in Thread, RegisterItem(t)
      PROVE  TablesInv'
  <2> DEFINE k == handle[t].key
  <2>1. k \in Key /\ handle[t] \in Handles
    BY <1>2, <1>t DEF RegisterItem
  <2>2. ForgetItem(k) \/ \E size \in 0..MaxSize : StoreItem(k, size)
    BY <1>0, <1>2, <2>1 DEF RegisterItem, TypeOK, NoFile
  <2>3. handle' \in [Thread -> {NoHandle} \cup Handles]
    BY <1>0, <1>2, <2>1 DEF RegisterItem, TypeOK, Handles
  <2>4. TrimAfter(k)
    BY <1>2 DEF RegisterItem
  <2>5. disk' = disk /\ UNCHANGED <<limitVars, pinVars, deferVars>>
    BY <1>2 DEF RegisterItem
  <2>6. trim' \in Key \cup {NoKey, NoTrim}
    BY <2>1, <2>4, TrimAfterType
  <2> HIDE DEF k
  <2> QED BY <1>0, <2>1, <2>2, <2>3, <2>5, <2>6, UpdateKeepsTables DEF TypeOK
<1>3. ASSUME NEW t \in Thread, NEW end \in 0..MaxSize, NEW ok \in BOOLEAN,
             Write(t, end, ok)
      PROVE  TablesInv'
  <2>1. handle[t] \in Handles /\ handle[t].key \in Key
    BY <1>3, <1>t DEF Write
  <2>2. disk' \in [Key -> {NoFile} \cup 0..MaxSize]
    BY <1>0, <1>3, <2>1, SizeAssumption DEF Write, TypeOK, Larger
  <2>3. handle' \in [Thread -> {NoHandle} \cup Handles]
    BY <1>0, <1>3, <2>1 DEF Write, TypeOK, Handles
  <2> QED BY <1>0, <1>3, <2>2, <2>3, OthersKeepTables
          DEF Write, TypeOK, pinVars, limitVars, deferVars
<1>4. ASSUME NEW t \in Thread, AfterWrite(t)
      PROVE  TablesInv'
  <2> DEFINE k == handle[t].key
  <2>1. k \in Key /\ handle[t] \in Handles /\ handle[t].off \in 0..MaxSize
    BY <1>4, <1>t DEF AfterWrite
  <2>2. ForgetItem(k) \/ \E size \in 0..MaxSize : StoreItem(k, size)
    BY <1>0, <1>4, <2>1 DEF AfterWrite, TypeOK, Larger
  <2>3. handle' \in [Thread -> {NoHandle} \cup Handles]
    BY <1>0, <1>4, <2>1 DEF AfterWrite, TypeOK, Handles
  <2>4. TrimAfter(k)
    BY <1>4 DEF AfterWrite
  <2>5. disk' = disk /\ UNCHANGED <<limitVars, pinVars, deferVars>>
    BY <1>4 DEF AfterWrite
  <2>6. trim' \in Key \cup {NoKey, NoTrim}
    BY <2>1, <2>4, TrimAfterType
  <2> HIDE DEF k
  <2> QED BY <1>0, <2>1, <2>2, <2>3, <2>5, <2>6, UpdateKeepsTables DEF TypeOK
<1>5. ASSUME NEW t \in Thread, Read(t)
      PROVE  TablesInv'
  <2> DEFINE k == handle[t].key
  <2>1. k \in Key
    BY <1>5, <1>t DEF Read
  <2>2. ForgetItem(k) \/ \E size \in 0..MaxSize : StoreItem(k, size)
    BY <1>0, <1>5, <2>1 DEF Read, TypeOK
  <2>3. TrimAfter(k)
    BY <1>5 DEF Read
  <2>4. UNCHANGED <<disk, handle, limitVars, pinVars, deferVars>>
    BY <1>5 DEF Read
  <2>5. trim' \in Key \cup {NoKey, NoTrim}
    BY <2>1, <2>3, TrimAfterType
  <2> HIDE DEF k
  <2> QED BY <1>0, <2>1, <2>2, <2>4, <2>5, UpdateKeepsTables DEF TypeOK
<1>6. ASSUME NEW t \in Thread, Close(t)
      PROVE  TablesInv'
  <2>1. handle' \in [Thread -> {NoHandle} \cup Handles]
    BY <1>0, <1>6 DEF Close, TypeOK
  <2> QED BY <1>0, <1>6, <2>1, OthersKeepTables
          DEF Close, TypeOK, pinVars, limitVars, deferVars
<1>7. ASSUME NEW k \in Key, Remove(k)
      PROVE  TablesInv'
  <2>1. RemoveFile(k) /\ ForgetItem(k) /\ TrimAfter(k)
        /\ UNCHANGED <<limitVars, pinVars, deferVars>>
    BY <1>7 DEF Remove
  <2>2. trim' \in Key \cup {NoKey, NoTrim}
    BY <2>1, TrimAfterType
  <2> QED BY <1>0, <2>1, <2>2, RemoveFileTypes, UpdateKeepsTables
<1>8. ASSUME NEW k \in Key, Evict(k)
      PROVE  TablesInv'
  <2>1. RemoveFile(k) /\ ForgetItem(k) /\ TrimAfter(trim) /\ trim # NoTrim
        /\ UNCHANGED <<limitVars, pinVars, deferVars>>
    BY <1>8 DEF Evict
  <2>2. trim' \in Key \cup {NoKey, NoTrim}
    <3>1. trim \in Key \cup {NoKey}
      BY <1>0, <2>1 DEF TypeOK
    <3> QED BY <2>1, <3>1 DEF TrimAfter
  <2> QED BY <1>0, <2>1, <2>2, RemoveFileTypes, UpdateKeepsTables
<1>9. CASE TrimToCapacity
  BY <1>0, <1>9, OthersKeepTables
     DEF TrimToCapacity, TypeOK, pinVars, limitVars, deferVars
<1>10. ASSUME NEW c \in Capacities, SetCapacity(c)
       PROVE  TablesInv'
  BY <1>0, <1>10, OthersKeepTables DEF SetCapacity, TypeOK, pinVars, deferVars
<1>11. ASSUME NEW r \in Reserves, SetReserve(r)
       PROVE  TablesInv'
  BY <1>0, <1>11, OthersKeepTables DEF SetReserve, TypeOK, pinVars, deferVars
<1>12. ASSUME NEW o \in Owner, NEW hexes \in SUBSET Hex, Pin(o, hexes)
       PROVE  TablesInv'
  <2>1. PinsCounted /\ UnpinnedInPolicy /\ dirs = DOMAIN items
    BY DEF TablesInv, TablesAgree
  <2>2. PinsCounted' /\ pinCount' \in [Hex -> Nat]
    BY <1>0, <1>12, <2>1, PinCounts
  <2>3. UnpinnedInPolicy' /\ policy' \subseteq Key
    BY <1>0, <1>12, <2>1, <2>2, PinPolicy
  <2>4. owners' \in [Owner -> SUBSET Hex]
    BY <1>0, <1>12 DEF Pin, TypeOK
  <2>5. UNCHANGED <<disk, items, older, dirs, trim, handle, limitVars, deferVars>>
    BY <1>12 DEF Pin
  <2>6. TypeOK'
    BY <1>0, <2>2, <2>3, <2>4, <2>5 DEF TypeOK, limitVars, deferVars
  <2> QED BY <2>1, <2>2, <2>3, <2>5, <2>6 DEF TablesInv, TablesAgree
<1>13. ASSUME NEW hexes \in SUBSET Hex, Demote(hexes)
       PROVE  TablesInv'
  <2>1. older' \subseteq Key \X Key
    <3>1. older' \subseteq (DOMAIN items) \X (DOMAIN items)
      BY <1>13 DEF Demote, TotalOrder
    <3>2. DOMAIN items \subseteq Key
      BY <1>0 DEF TypeOK
    <3> QED BY <3>1, <3>2
  <2>2. UNCHANGED <<disk, items, policy, dirs, trim, handle,
                    limitVars, pinVars, deferVars>>
    BY <1>13 DEF Demote
  <2>3. TypeOK'
    BY <1>0, <2>1, <2>2 DEF TypeOK, limitVars, deferVars, pinVars
  <2> QED BY <2>2, <2>3
          DEF TablesInv, TablesAgree, PinsCounted, UnpinnedInPolicy, IsPinned, pinVars
<1>14. CASE DeferTrim
  <2>1. deferGen' \in 0..MaxGen
    BY <1>0, <1>14, SizeAssumption DEF DeferTrim, TypeOK
  <2> QED BY <1>0, <1>14, <2>1, OthersKeepTables
          DEF DeferTrim, TypeOK, pinVars, limitVars
<1>15. CASE Ready
  BY <1>0, <1>15, OthersKeepTables
     DEF Ready, EndDeferring, TypeOK, pinVars, limitVars
<1>16. ASSUME NEW g \in 1..MaxGen, TimerFires(g)
       PROVE  TablesInv'
  BY <1>0, <1>16, OthersKeepTables DEF TimerFires, TypeOK, pinVars, limitVars
<1>17. ASSUME NEW g \in 1..MaxGen, Fallback(g)
       PROVE  TablesInv'
  BY <1>0, <1>17, OthersKeepTables DEF Fallback, TypeOK, pinVars, limitVars
<1>18. CASE Restart
  <2>1. TypeOK'
    <3>1. Files \subseteq Key /\ \A k \in Files : disk[k] \in 0..MaxSize
      BY <1>0 DEF TypeOK, Files
    <3>2. DOMAIN items' \subseteq Key /\ items' \in [DOMAIN items' -> 0..MaxSize]
      BY <1>18, <3>1 DEF Restart
    <3>3. older' \subseteq Key \X Key
      BY <1>18, <3>1 DEF Restart
    <3>4. /\ capacity' \in Capacities \cup {-1} /\ reserve' \in Reserves \cup {0}
          /\ deferring' \in BOOLEAN /\ trim' \in Key \cup {NoKey, NoTrim}
      BY <1>18 DEF Restart
    <3>7. deferGen' \in 0..MaxGen
      BY <1>18, SizeAssumption DEF Restart
    <3>8. timers' \in [1..MaxGen -> {"none", "armed", "fired"}]
      BY <1>18 DEF Restart
    <3>5. /\ owners' \in [Owner -> SUBSET Hex] /\ pinCount' \in [Hex -> Nat]
          /\ handle' \in [Thread -> {NoHandle} \cup Handles]
      BY <1>18 DEF Restart
    <3>6. policy' \subseteq Key /\ dirs' \subseteq Key /\ disk' = disk
      BY <1>18, <3>1 DEF Restart
    <3> QED BY <1>0, <3>2, <3>3, <3>4, <3>5, <3>6, <3>7, <3>8 DEF TypeOK
  <2>2. PinsCounted'
    <3>1. \A h \in Hex : {o \in Owner : h \in owners'[o]} = {}
      BY <1>18 DEF Restart
    <3> QED BY <1>18, <3>1, FS_EmptySet DEF Restart, PinsCounted
  <2>3. UnpinnedInPolicy' /\ dirs' = DOMAIN items'
    <3>1. \A k \in Files : k[1] \in Hex
      BY KeyAssumption DEF Files
    <3> QED BY <1>18, <3>1 DEF Restart, UnpinnedInPolicy, IsPinned
  <2> QED BY <2>1, <2>2, <2>3 DEF TablesInv, TablesAgree
<1>19. CASE UNCHANGED vars
  BY <1>0, <1>19, OthersKeepTables
     DEF vars, TypeOK, pinVars, limitVars, deferVars
<1> QED
  BY <1>1, <1>2, <1>3, <1>4, <1>5, <1>6, <1>7, <1>8, <1>9, <1>10, <1>11, <1>12,
     <1>13, <1>14, <1>15, <1>16, <1>17, <1>18, <1>19 DEF Next, FileStep

THEOREM TablesInvariant == Spec => []TablesInv
BY TablesInit, TablesNext, PTL DEF Spec

\* Every reachable state is well typed.
THEOREM TypeCorrect == Spec => []TypeOK
<1>1. TablesInv => TypeOK
  BY DEF TablesInv
<1> QED BY <1>1, TablesInvariant, PTL

\* The LRU always holds exactly the unpinned items, the counts are the
\* owners', and the index lists the items.
THEOREM TablesAlwaysAgree == Spec => []TablesAgree
<1>1. TablesInv => TablesAgree
  BY DEF TablesInv
<1> QED BY <1>1, TablesInvariant, PTL

-----------------------------------------------------------------------------
(* The access order.                                                       *)

LEMMA NewestTotal ==
    ASSUME AccessOrderTotal, NEW k, NEW S, S = DOMAIN items \cup {k}
    PROVE  TotalOrder(Newest(k), S)
<1> DEFINE D == DOMAIN items
           r == Newest(k)
<1>1. \A a, b : <<a, b>> \in r <=>
          \/ <<a, b>> \in older /\ a # k /\ b # k
          \/ a \in D /\ a # k /\ b = k
  BY DEF Newest, Drop
<1>2. /\ older \subseteq D \X D
      /\ \A j \in D : <<j, j>> \notin older
      /\ \A i, j \in D : i # j => (<<i, j>> \in older <=> <<j, i>> \notin older)
      /\ \A i, j, l \in D : <<i, j>> \in older /\ <<j, l>> \in older => <<i, l>> \in older
  BY DEF AccessOrderTotal, TotalOrder
<1>3. r \subseteq S \X S
  BY <1>2 DEF Newest, Drop
<1>4. \A j \in S : <<j, j>> \notin r
  BY <1>1, <1>2
<1>5. \A i, j \in S : i # j => (<<i, j>> \in r <=> <<j, i>> \notin r)
  BY <1>1, <1>2
<1>6. \A i, j, l \in S : <<i, j>> \in r /\ <<j, l>> \in r => <<i, l>> \in r
  BY <1>1, <1>2
<1> QED BY <1>3, <1>4, <1>5, <1>6 DEF TotalOrder

LEMMA DropTotal ==
    ASSUME AccessOrderTotal, NEW k, NEW S, S = (DOMAIN items) \ {k}
    PROVE  TotalOrder(Drop(older, k), S)
<1> DEFINE D == DOMAIN items
           r == Drop(older, k)
<1>1. \A a, b : <<a, b>> \in r <=> <<a, b>> \in older /\ a # k /\ b # k
  BY DEF Drop
<1>2. /\ older \subseteq D \X D
      /\ \A j \in D : <<j, j>> \notin older
      /\ \A i, j \in D : i # j => (<<i, j>> \in older <=> <<j, i>> \notin older)
      /\ \A i, j, l \in D : <<i, j>> \in older /\ <<j, l>> \in older => <<i, l>> \in older
  BY DEF AccessOrderTotal, TotalOrder
<1>3. r \subseteq S \X S
  BY <1>2 DEF Drop
<1>4. \A j \in S : <<j, j>> \notin r
  BY <1>1, <1>2
<1>5. \A i, j \in S : i # j => (<<i, j>> \in r <=> <<j, i>> \notin r)
  BY <1>1, <1>2
<1>6. \A i, j, l \in S : <<i, j>> \in r /\ <<j, l>> \in r => <<i, l>> \in r
  BY <1>1, <1>2
<1> QED BY <1>3, <1>4, <1>5, <1>6 DEF TotalOrder

\* Every step leaves the order alone, moves one item to its end, drops one,
\* or builds a total one.
LEMMA OrderNext ==
    ASSUME AccessOrderTotal, [Next]_vars
    PROVE  AccessOrderTotal'
<1>1. ASSUME NEW k, NEW size, StoreItem(k, size)
      PROVE  AccessOrderTotal'
  BY <1>1, NewestTotal DEF StoreItem, AccessOrderTotal
<1>2. ASSUME NEW k, ForgetItem(k)
      PROVE  AccessOrderTotal'
  <2>1. DOMAIN items' = (DOMAIN items) \ {k} /\ older' = Drop(older, k)
    BY <1>2 DEF ForgetItem, Without
  <2> QED BY <2>1, DropTotal DEF AccessOrderTotal
<1>3. ASSUME UNCHANGED <<items, older>>
      PROVE  AccessOrderTotal'
  BY <1>3 DEF AccessOrderTotal
<1>4. ASSUME NEW t \in Thread, FileStep(t)
      PROVE  AccessOrderTotal'
  <2>1. ASSUME NEW k \in Key, NEW op \in {"put", "writeAt", "get"}, OpenFile(t, k, op)
        PROVE  AccessOrderTotal'
    BY <2>1, <1>3 DEF OpenFile
  <2>2. CASE RegisterItem(t)
    BY <2>2, <1>1, <1>2 DEF RegisterItem
  <2>3. ASSUME NEW end \in 0..MaxSize, NEW ok \in BOOLEAN, Write(t, end, ok)
        PROVE  AccessOrderTotal'
    BY <2>3, <1>3 DEF Write
  <2>4. CASE AfterWrite(t)
    BY <2>4, <1>1, <1>2 DEF AfterWrite
  <2>5. CASE Read(t)
    BY <2>5, <1>1, <1>2 DEF Read
  <2>6. CASE Close(t)
    BY <2>6, <1>3 DEF Close
  <2> QED BY <1>4, <2>1, <2>2, <2>3, <2>4, <2>5, <2>6 DEF FileStep
<1>5. ASSUME NEW k \in Key, Remove(k) \/ Evict(k)
      PROVE  AccessOrderTotal'
  BY <1>5, <1>2 DEF Remove, Evict
<1>6. ASSUME NEW hexes \in SUBSET Hex, Demote(hexes)
      PROVE  AccessOrderTotal'
  BY <1>6 DEF Demote, AccessOrderTotal
<1>7. CASE Restart
  <2>1. PICK rank \in [Files -> 1..Cardinality(Files)] :
              /\ \A j, k \in Files : j # k => rank[j] # rank[k]
              /\ older' = {p \in Files \X Files : rank[p[1]] < rank[p[2]]}
    BY <1>7 DEF Restart
  <2>2. DOMAIN items' = Files
    BY <1>7 DEF Restart
  <2>3. \A j, k \in Files : <<j, k>> \in older' <=> rank[j] < rank[k]
    BY <2>1
  <2>4. \A j \in Files : rank[j] \in Int
    BY <2>1
  <2>5. older' \subseteq Files \X Files
    BY <2>1
  <2>6. TotalOrder(older', Files)
    BY <2>1, <2>3, <2>4, <2>5 DEF TotalOrder
  <2> QED BY <2>2, <2>6 DEF AccessOrderTotal
<1>8. CASE TrimToCapacity \/ Ready \/ DeferTrim \/ UNCHANGED vars
  BY <1>8, <1>3 DEF TrimToCapacity, Ready, DeferTrim, vars
<1>9. ASSUME \/ \E c \in Capacities : SetCapacity(c)
             \/ \E r \in Reserves : SetReserve(r)
             \/ \E o \in Owner, hexes \in SUBSET Hex : Pin(o, hexes)
             \/ \E g \in 1..MaxGen : TimerFires(g) \/ Fallback(g)
      PROVE  AccessOrderTotal'
  BY <1>9, <1>3 DEF SetCapacity, SetReserve, Pin, TimerFires, Fallback
<1> QED BY <1>4, <1>5, <1>6, <1>7, <1>8, <1>9 DEF Next

\* The access order of the items is total in every reachable state.
THEOREM OrderAlwaysTotal == Spec => []AccessOrderTotal
<1>1. Init => AccessOrderTotal
  BY DEF Init, AccessOrderTotal, TotalOrder
<1>2. AccessOrderTotal /\ [Next]_vars => AccessOrderTotal'
  BY OrderNext
<1> QED BY <1>1, <1>2, PTL DEF Spec

-----------------------------------------------------------------------------
(* Files and their record.  A write through a handle can only grow a file  *)
(* that still has its name, which is why the invariant includes            *)
(* LinkedHaveFiles: an orphaned handle would otherwise bring a file back.  *)

FilesInv == FilesAreItems /\ NeverUndercounts /\ LinkedHaveFiles

\* Removing a file with its item, as Remove and the trim do.
LEMMA RemoveKeepsFiles ==
    ASSUME TypeOK, FilesInv, NEW k \in Key, RemoveFile(k), ForgetItem(k)
    PROVE  FilesInv'
<1>1. DOMAIN items' = (DOMAIN items) \ {k} /\ \A j \in DOMAIN items' : items'[j] = items[j]
  BY DEF ForgetItem, Without
<1>2. disk'[k] = NoFile /\ \A j \in Key \ {k} : disk'[j] = disk[j]
  BY DEF RemoveFile, TypeOK
<1>3. \A t \in Thread : /\ handle'[t].key = handle[t].key
                        /\ handle'[t].pc = handle[t].pc
                        /\ handle'[t].off = handle[t].off
                        /\ handle'[t].linked => handle[t].linked /\ handle[t].key # k
  <2> SUFFICES ASSUME NEW t \in Thread
               PROVE  /\ handle'[t].key = handle[t].key
                      /\ handle'[t].pc = handle[t].pc
                      /\ handle'[t].off = handle[t].off
                      /\ handle'[t].linked => handle[t].linked /\ handle[t].key # k
    OBVIOUS
  <2>1. handle[t] \in {NoHandle} \cup Handles
    BY DEF TypeOK
  <2>2. CASE handle[t].key = k
    <3>1. handle'[t] = [handle[t] EXCEPT !.linked = FALSE]
      BY <2>2 DEF RemoveFile
    <3>2. handle[t] \in Handles
      BY <2>1, <2>2, KeyAssumption DEF NoHandle
    <3> QED BY <3>1, <3>2 DEF Handles
  <2>3. CASE handle[t].key # k
    BY <2>3 DEF RemoveFile
  <2> QED BY <2>2, <2>3
<1>4. FilesAreItems'
  BY <1>1, <1>2, <1>3 DEF FilesInv, FilesAreItems, Opening
<1>5. NeverUndercounts'
  <2>1. \A j \in DOMAIN items' : j \in DOMAIN items /\ j \in Key \ {k}
    BY <1>1 DEF TypeOK
  <2>2. \A j \in DOMAIN items' : disk'[j] = disk[j] /\ items'[j] = items[j]
    BY <1>1, <1>2, <2>1
  <2> QED BY <1>3, <2>1, <2>2 DEF FilesInv, NeverUndercounts
<1>6. LinkedHaveFiles'
  <2>1. \A t \in Thread : handle[t].linked => handle[t].key \in Key
    BY DEF TypeOK, NoHandle, Handles
  <2> QED BY <1>2, <1>3, <2>1 DEF FilesInv, LinkedHaveFiles
<1> QED BY <1>4, <1>5, <1>6 DEF FilesInv

\* What a step that leaves the files, the items and the handles alone shows.
LEMMA OthersKeepFiles ==
    ASSUME FilesInv, UNCHANGED <<disk, items, handle>>
    PROVE  FilesInv'
BY DEF FilesInv, FilesAreItems, NeverUndercounts, LinkedHaveFiles, Opening

LEMMA FilesNext == TypeOK /\ FilesInv /\ [Next]_vars => FilesInv'
<1> SUFFICES ASSUME TypeOK, FilesInv, [Next]_vars PROVE FilesInv'
  OBVIOUS
<1>t. ASSUME NEW t \in Thread, handle[t].pc # "closed"
      PROVE  handle[t] \in Handles /\ handle[t].key \in Key /\ handle[t].off \in 0..MaxSize
  BY <1>t DEF TypeOK, NoHandle, Handles
<1>d. \A k \in DOMAIN items : k \in Key /\ items[k] \in 0..MaxSize /\ disk[k] # NoFile
  BY DEF TypeOK, FilesInv, FilesAreItems
<1>e. \A k \in Key : disk[k] \in Int /\ (disk[k] # NoFile => disk[k] \in 0..MaxSize)
  BY SizeAssumption DEF TypeOK, NoFile
<1>1. ASSUME NEW t \in Thread, NEW k \in Key, NEW op \in {"put", "writeAt", "get"},
             OpenFile(t, k, op)
      PROVE  FilesInv'
  <2>1. /\ disk'[k] # NoFile /\ disk'[k] \in 0..MaxSize
        /\ disk[k] # NoFile => disk'[k] = disk[k] \/ disk'[k] = 0
        /\ \A j \in Key \ {k} : disk'[j] = disk[j]
    BY <1>1, <1>e, SizeAssumption DEF OpenFile, TypeOK, NoFile
  <2>2. /\ handle'[t] = [pc |-> "opened", op |-> op, key |-> k,
                         linked |-> TRUE, off |-> 0]
        /\ \A u \in Thread \ {t} : handle'[u] = handle[u]
        /\ handle[t].pc = "closed"
    BY <1>1 DEF OpenFile, TypeOK, NoHandle
  <2>3. items' = items
    BY <1>1 DEF OpenFile
  <2>4. FilesAreItems'
    BY <2>1, <2>2, <2>3 DEF FilesInv, FilesAreItems, Opening
  <2>5. NeverUndercounts'
    <3>1. SUFFICES ASSUME NEW j \in DOMAIN items
                   PROVE  \/ disk'[j] <= items[j]
                          \/ \E u \in Thread : /\ handle'[u].key = j
                                               /\ handle'[u].pc = "wrote"
                                               /\ handle'[u].off >= disk'[j]
      BY <2>3 DEF NeverUndercounts
    <3>2. disk'[j] = disk[j] \/ disk'[j] = 0
      BY <1>d, <2>1
    <3>3. CASE disk'[j] = 0
      BY <1>d, <3>3, SizeAssumption
    <3>4. CASE disk'[j] = disk[j] /\ disk[j] <= items[j]
      BY <3>4
    <3>5. ASSUME disk'[j] = disk[j], NEW u \in Thread, handle[u].key = j,
                 handle[u].pc = "wrote", handle[u].off >= disk[j]
          PROVE  /\ handle'[u].key = j /\ handle'[u].pc = "wrote"
                 /\ handle'[u].off >= disk'[j]
      BY <2>2, <3>5
    <3> QED BY <3>2, <3>3, <3>4, <3>5 DEF FilesInv, NeverUndercounts
  <2>6. LinkedHaveFiles'
    <3>1. \A u \in Thread : handle[u].linked => handle[u].key \in Key
      BY DEF TypeOK, NoHandle, Handles
    <3> QED BY <2>1, <2>2, <3>1 DEF FilesInv, LinkedHaveFiles
  <2> QED BY <2>4, <2>5, <2>6 DEF FilesInv
<1>2. ASSUME NEW t \in Thread, RegisterItem(t)
      PROVE  FilesInv'
  <2> DEFINE k == handle[t].key
  <2>1. k \in Key
    BY <1>2, <1>t DEF RegisterItem
  <2>2. disk' = disk /\ handle' = [handle EXCEPT ![t].pc = "open"]
        /\ handle[t].pc = "opened" /\ handle[t] \in Handles
    BY <1>2, <1>t DEF RegisterItem
  <2>3. \A u \in Thread : /\ handle'[u].key = handle[u].key
                          /\ handle'[u].linked = handle[u].linked
                          /\ handle'[u].off = handle[u].off
                          /\ u # t => handle'[u].pc = handle[u].pc
    BY <2>2 DEF TypeOK, Handles
  <2>4. \/ k \in DOMAIN items /\ DOMAIN items' = DOMAIN items
           /\ \A j \in DOMAIN items : items'[j] = items[j]
        \/ /\ k \notin DOMAIN items /\ disk[k] # NoFile
           /\ DOMAIN items' = DOMAIN items \cup {k} /\ items'[k] = disk[k]
           /\ \A j \in DOMAIN items : items'[j] = items[j]
        \/ /\ k \notin DOMAIN items /\ disk[k] = NoFile /\ DOMAIN items' = DOMAIN items
           /\ \A j \in DOMAIN items : items'[j] = items[j]
    <3>1. CASE k \in DOMAIN items
      <4>1. StoreItem(k, items[k])
        BY <1>2, <3>1 DEF RegisterItem
      <4> QED BY <3>1, <4>1 DEF StoreItem
    <3>2. CASE k \notin DOMAIN items /\ disk[k] # NoFile
      <4>1. StoreItem(k, disk[k])
        BY <1>2, <3>2 DEF RegisterItem
      <4> QED BY <3>2, <4>1 DEF StoreItem
    <3>3. CASE k \notin DOMAIN items /\ disk[k] = NoFile
      <4>1. ForgetItem(k)
        BY <1>2, <3>3 DEF RegisterItem
      <4> QED BY <3>3, <4>1 DEF ForgetItem, Without
    <3> QED BY <3>1, <3>2, <3>3
  <2> HIDE DEF k
  <2>5. FilesAreItems'
    <3>1. \A j \in DOMAIN items' : j \in DOMAIN items \/ (j = k /\ disk[k] # NoFile)
      BY <2>4
    <3>2. \A j \in Key : disk[j] # NoFile =>
            j \in DOMAIN items' \/ \E u \in Thread : Opening(u, j)'
      <4>1. SUFFICES ASSUME NEW j \in Key, disk[j] # NoFile, j \notin DOMAIN items'
                     PROVE  \E u \in Thread : Opening(u, j)'
        OBVIOUS
      <4>2. j # k /\ j \notin DOMAIN items
        BY <2>4, <4>1
      <4>3. PICK u \in Thread : Opening(u, j)
        BY <4>1, <4>2 DEF FilesInv, FilesAreItems
      <4>4. u # t
        BY <4>2, <4>3 DEF Opening, k
      <4> QED BY <2>3, <4>3, <4>4 DEF Opening
    <3> QED BY <1>d, <2>2, <3>1, <3>2 DEF FilesAreItems
  <2>6. NeverUndercounts'
    <3>1. SUFFICES ASSUME NEW j \in DOMAIN items'
                   PROVE  \/ disk[j] <= items'[j]
                          \/ \E u \in Thread : /\ handle'[u].key = j
                                               /\ handle'[u].pc = "wrote"
                                               /\ handle'[u].off >= disk[j]
      BY <2>2 DEF NeverUndercounts
    <3>2. CASE j \in DOMAIN items
      <4>1. items'[j] = items[j]
        BY <2>4, <3>2
      <4>2. CASE disk[j] <= items[j]
        BY <4>1, <4>2
      <4>3. ASSUME NEW u \in Thread, handle[u].key = j, handle[u].pc = "wrote",
                   handle[u].off >= disk[j]
            PROVE  \E v \in Thread : /\ handle'[v].key = j
                                    /\ handle'[v].pc = "wrote"
                                    /\ handle'[v].off >= disk[j]
        <5>1. u # t
          BY <2>2, <4>3
        <5> QED BY <2>3, <4>3, <5>1
      <4> QED BY <3>2, <4>2, <4>3 DEF FilesInv, NeverUndercounts
    <3>3. CASE j \notin DOMAIN items
      <4>1. items'[j] = disk[j] /\ disk[j] \in Int
        BY <1>e, <2>1, <2>4, <3>3
      <4> QED BY <4>1
    <3> QED BY <3>2, <3>3
  <2>7. LinkedHaveFiles'
    BY <2>2, <2>3 DEF FilesInv, LinkedHaveFiles
  <2> QED BY <2>5, <2>6, <2>7 DEF FilesInv
<1>3. ASSUME NEW t \in Thread, NEW end \in 0..MaxSize, NEW ok \in BOOLEAN,
             Write(t, end, ok)
      PROVE  FilesInv'
  <2> DEFINE k == handle[t].key
  <2>1. k \in Key /\ handle[t] \in Handles
    BY <1>3, <1>t DEF Write
  <2>2. items' = items
    BY <1>3 DEF Write
  <2>3. /\ \A u \in Thread : /\ handle'[u].key = handle[u].key
                             /\ handle'[u].linked = handle[u].linked
        /\ \A u \in Thread \ {t} : handle'[u] = handle[u]
        /\ handle[t].pc = "open" /\ handle'[t].pc = "wrote" /\ handle'[t].off = end
    BY <1>3, <2>1 DEF Write, TypeOK, Handles
  <2>4. /\ \A j \in Key \ {k} : disk'[j] = disk[j]
        /\ \/ disk'[k] = disk[k]
           \/ /\ handle[t].linked /\ disk[k] # NoFile
              /\ disk'[k] = end /\ end # NoFile
    <3>1. end # NoFile
      BY SizeAssumption DEF NoFile
    <3>2. handle[t].linked => disk[k] # NoFile
      BY DEF FilesInv, LinkedHaveFiles
    <3> QED BY <1>3, <2>1, <3>1, <3>2 DEF Write, TypeOK, Larger
  <2> HIDE DEF k
  <2>5. FilesAreItems'
    BY <2>1, <2>2, <2>3, <2>4 DEF FilesInv, FilesAreItems, Opening
  <2>6. NeverUndercounts'
    <3>1. ASSUME NEW j \in DOMAIN items, disk'[j] = disk[j]
          PROVE  \/ disk'[j] <= items[j]
                 \/ \E u \in Thread : /\ handle'[u].key = j /\ handle'[u].pc = "wrote"
                                      /\ handle'[u].off >= disk'[j]
      BY <2>3, <3>1 DEF FilesInv, NeverUndercounts
    <3>2. ASSUME k \in DOMAIN items, disk'[k] = end
          PROVE  \E u \in Thread : /\ handle'[u].key = k /\ handle'[u].pc = "wrote"
                                   /\ handle'[u].off >= disk'[k]
      <4>1. end >= end
        BY SizeAssumption
      <4> QED BY <2>3, <3>2, <4>1 DEF k
    <3> QED BY <1>d, <2>2, <2>4, <3>1, <3>2 DEF NeverUndercounts
  <2>7. LinkedHaveFiles'
    <3>1. \A u \in Thread : handle[u].linked => handle[u].key \in Key
      BY DEF TypeOK, NoHandle, Handles
    <3> QED BY <2>3, <2>4, <3>1 DEF FilesInv, LinkedHaveFiles
  <2> QED BY <2>5, <2>6, <2>7 DEF FilesInv
<1>4. ASSUME NEW t \in Thread, AfterWrite(t)
      PROVE  FilesInv'
  <2> DEFINE k == handle[t].key
  <2>1. k \in Key /\ handle[t] \in Handles /\ handle[t].off \in 0..MaxSize
    BY <1>4, <1>t DEF AfterWrite
  <2>2. /\ DOMAIN items' = DOMAIN items /\ disk' = disk
        /\ \A j \in DOMAIN items :
              items'[j] = IF j = k THEN Larger(items[k], handle[t].off) ELSE items[j]
    <3>1. CASE k \in DOMAIN items
      <4>1. StoreItem(k, Larger(items[k], handle[t].off))
        BY <1>4, <3>1 DEF AfterWrite
      <4> QED BY <1>4, <3>1, <4>1 DEF StoreItem, AfterWrite
    <3>2. CASE k \notin DOMAIN items
      <4>1. ForgetItem(k)
        BY <1>4, <3>2 DEF AfterWrite
      <4> QED BY <1>4, <3>2, <4>1 DEF ForgetItem, Without, AfterWrite
    <3> QED BY <3>1, <3>2
  <2>3. /\ \A u \in Thread \ {t} : handle'[u] = handle[u]
        /\ handle[t].pc = "wrote"
        /\ handle'[t].linked => handle[t].linked /\ handle'[t].key = k
    BY <1>4, <2>1 DEF AfterWrite, TypeOK, NoHandle, Handles
  <2> HIDE DEF k
  <2>4. FilesAreItems'
    BY <2>2, <2>3 DEF FilesInv, FilesAreItems, Opening
  <2>5. NeverUndercounts'
    <3>1. SUFFICES ASSUME NEW j \in DOMAIN items
                   PROVE  \/ disk[j] <= items'[j]
                          \/ \E u \in Thread : /\ handle'[u].key = j
                                               /\ handle'[u].pc = "wrote"
                                               /\ handle'[u].off >= disk[j]
      BY <2>2 DEF NeverUndercounts
    <3>2. items'[j] \in Int /\ items'[j] >= items[j]
          /\ (j = k => items'[j] >= handle[t].off)
      BY <1>d, <2>1, <2>2 DEF Larger
    <3>3. CASE disk[j] <= items[j]
      BY <1>d, <1>e, <3>2, <3>3
    <3>4. ASSUME NEW u \in Thread, handle[u].key = j, handle[u].pc = "wrote",
                 handle[u].off >= disk[j]
          PROVE  \/ disk[j] <= items'[j]
                 \/ \E v \in Thread : /\ handle'[v].key = j
                                      /\ handle'[v].pc = "wrote"
                                      /\ handle'[v].off >= disk[j]
      <4>1. CASE u = t
        BY <1>d, <1>e, <2>1, <3>2, <3>4, <4>1 DEF k
      <4>2. CASE u # t
        BY <2>3, <3>4, <4>2
      <4> QED BY <4>1, <4>2
    <3> QED BY <3>3, <3>4 DEF FilesInv, NeverUndercounts
  <2>6. LinkedHaveFiles'
    BY <2>2, <2>3 DEF FilesInv, LinkedHaveFiles, k
  <2> QED BY <2>4, <2>5, <2>6 DEF FilesInv
<1>5. ASSUME NEW t \in Thread, Read(t)
      PROVE  FilesInv'
  <2>1. items' = items
    <3> DEFINE k == handle[t].key
    <3>1. CASE k \in DOMAIN items
      <4>1. StoreItem(k, items[k])
        BY <1>5, <3>1 DEF Read
      <4> QED BY <3>1, <4>1 DEF StoreItem, TypeOK
    <3>2. CASE k \notin DOMAIN items
      <4>1. ForgetItem(k)
        BY <1>5, <3>2 DEF Read
      <4> QED BY <3>2, <4>1 DEF ForgetItem, Without, TypeOK
    <3> QED BY <3>1, <3>2
  <2> QED BY <1>5, <2>1, OthersKeepFiles DEF Read
<1>6. ASSUME NEW t \in Thread, Close(t)
      PROVE  FilesInv'
  <2>1. disk' = disk /\ items' = items /\ handle[t].pc = "open"
        /\ handle'[t] = NoHandle /\ \A u \in Thread \ {t} : handle'[u] = handle[u]
    BY <1>6 DEF Close, TypeOK
  <2>2. FilesAreItems'
    BY <2>1 DEF FilesInv, FilesAreItems, Opening
  <2>3. NeverUndercounts'
    BY <2>1 DEF FilesInv, NeverUndercounts
  <2>4. LinkedHaveFiles'
    BY <2>1 DEF FilesInv, LinkedHaveFiles, NoHandle
  <2> QED BY <2>2, <2>3, <2>4 DEF FilesInv
<1>7. ASSUME NEW k \in Key, Remove(k) \/ Evict(k)
      PROVE  FilesInv'
  BY <1>7, RemoveKeepsFiles DEF Remove, Evict
<1>8. CASE TrimToCapacity \/ Ready \/ DeferTrim \/ UNCHANGED vars
  BY <1>8, OthersKeepFiles DEF TrimToCapacity, Ready, DeferTrim, vars
<1>9. ASSUME \/ \E c \in Capacities : SetCapacity(c)
             \/ \E r \in Reserves : SetReserve(r)
             \/ \E o \in Owner, hexes \in SUBSET Hex : Pin(o, hexes)
             \/ \E hexes \in SUBSET Hex : Demote(hexes)
             \/ \E g \in 1..MaxGen : TimerFires(g) \/ Fallback(g)
      PROVE  FilesInv'
  BY <1>9, OthersKeepFiles
     DEF SetCapacity, SetReserve, Pin, Demote, TimerFires, Fallback
<1>10. CASE Restart
  <2>1. disk' = disk /\ DOMAIN items' = Files /\ \A k \in Files : items'[k] = disk[k]
    BY <1>10 DEF Restart
  <2>2. \A t \in Thread : handle'[t].linked = FALSE
    BY <1>10 DEF Restart, NoHandle
  <2>3. FilesAreItems'
    BY <2>1 DEF Files, FilesAreItems
  <2>4. NeverUndercounts'
    BY <1>e, <2>1 DEF Files, NeverUndercounts
  <2>5. LinkedHaveFiles'
    BY <2>2 DEF LinkedHaveFiles
  <2> QED BY <2>3, <2>4, <2>5 DEF FilesInv
<1> QED
  BY <1>1, <1>2, <1>3, <1>4, <1>5, <1>6, <1>7, <1>8, <1>9, <1>10 DEF Next, FileStep

THEOREM FilesInvariant == Spec => []FilesInv
<1>1. Init => FilesInv
  BY DEF Init, FilesInv, FilesAreItems, NeverUndercounts, LinkedHaveFiles, NoHandle
<1>2. TypeOK /\ FilesInv /\ [Next]_vars => FilesInv'
  BY FilesNext
<1> QED BY <1>1, <1>2, TypeCorrect, PTL DEF Spec

\* Every file is an item or about to be, and every item has its file.
THEOREM FilesKnown == Spec => []FilesAreItems
<1>1. FilesInv => FilesAreItems
  BY DEF FilesInv
<1> QED BY <1>1, FilesInvariant, PTL

\* No file is larger than its record, but for a write still to be reported.
THEOREM NeverUndercounted == Spec => []NeverUndercounts
<1>1. FilesInv => NeverUndercounts
  BY DEF FilesInv
<1> QED BY <1>1, FilesInvariant, PTL

-----------------------------------------------------------------------------
(* What trims may take.                                                    *)

\* The steps by which an item leaves the record.
LEMMA ItemsLeaveBy ==
    ASSUME TablesInv, FilesInv, [Next]_vars, NEW k \in DOMAIN items,
           k \notin DOMAIN items'
    PROVE  Remove(k) \/ Evict(k)
<1>1. TypeOK
  BY DEF TablesInv
<1>2. ASSUME NEW j, NEW size, StoreItem(j, size)
      PROVE  FALSE
  BY <1>2 DEF StoreItem
<1>3. ASSUME NEW j, ForgetItem(j)
      PROVE  j = k
  BY <1>3 DEF ForgetItem, Without
<1>4. ASSUME NEW t \in Thread, FileStep(t)
      PROVE  FALSE
  <2>1. CASE RegisterItem(t)
    BY <1>2, <1>3, <2>1 DEF RegisterItem
  <2>2. CASE AfterWrite(t)
    BY <1>2, <1>3, <2>2 DEF AfterWrite
  <2>3. CASE Read(t)
    BY <1>2, <1>3, <2>3 DEF Read
  <2> QED BY <1>4, <2>1, <2>2, <2>3 DEF FileStep, OpenFile, Write, Close
<1>5. ASSUME NEW j \in Key, Remove(j) \/ Evict(j)
      PROVE  Remove(k) \/ Evict(k)
  BY <1>3, <1>5 DEF Remove, Evict
<1>6. CASE Restart
  <2>1. disk[k] # NoFile /\ k \in Key
    BY <1>1 DEF FilesInv, FilesAreItems, TypeOK
  <2> QED BY <1>6, <2>1 DEF Restart, Files
<1>7. CASE TrimToCapacity \/ Ready \/ DeferTrim \/ UNCHANGED vars
  BY <1>7 DEF TrimToCapacity, Ready, DeferTrim, vars
<1>8. ASSUME \/ \E c \in Capacities : SetCapacity(c)
             \/ \E r \in Reserves : SetReserve(r)
             \/ \E o \in Owner, hexes \in SUBSET Hex : Pin(o, hexes)
             \/ \E hexes \in SUBSET Hex : Demote(hexes)
             \/ \E g \in 1..MaxGen : TimerFires(g) \/ Fallback(g)
      PROVE  FALSE
  BY <1>8 DEF SetCapacity, SetReserve, Pin, Demote, TimerFires, Fallback
<1> QED BY <1>4, <1>5, <1>6, <1>7, <1>8 DEF Next

\* An eviction takes an unpinned item.
LEMMA EvictsUnpinned ==
    ASSUME TablesInv, NEW k, Evict(k)
    PROVE  k \in DOMAIN items /\ ~IsPinned(k)
BY DEF Evict, Oldest, TablesInv, TablesAgree, UnpinnedInPolicy

\* A pinned piece's item only ever goes by Remove, in any instance.
THEOREM PinnedPiecesStay == Spec => PinnedStays
<1> DEFINE Stays == \A k \in DOMAIN items :
                       IsPinned(k) /\ k \notin DOMAIN items' => Remove(k)
<1>1. TablesInv /\ FilesInv /\ [Next]_vars => Stays
  BY ItemsLeaveBy, EvictsUnpinned
<1>2. TablesInv /\ FilesInv /\ [Next]_vars => [Stays]_vars
  BY <1>1
<1> HIDE DEF Stays
<1>3. Spec => [][Stays]_vars
  BY <1>2, TablesInvariant, FilesInvariant, PTL DEF Spec
<1> QED BY <1>3 DEF PinnedStays, Stays

\* Trims take the items no owner pins in the order of their last use.
THEOREM OldestGoFirst == Spec => EvictsOldestFirst
<1> DEFINE First == \A k \in Key : Evict(k) =>
              \A j \in (DOMAIN items) \ {k} : ~IsPinned(j) => <<k, j>> \in older
<1>1. TablesInv => [First]_vars
  BY DEF Evict, Oldest, TablesInv, TablesAgree, UnpinnedInPolicy
<1> HIDE DEF First
<1>2. Spec => [][First]_vars
  BY <1>1, TablesInvariant, PTL DEF Spec
<1> QED BY <1>2 DEF EvictsOldestFirst, First

-----------------------------------------------------------------------------
(* The trim spares the update that runs it.  While a trim is under way its *)
(* loop condition holds, and the item it protects, if it is one, is the    *)
(* newest: so the loop reaches it only when it is alone.                   *)

TrimInv ==
    trim # NoTrim =>
       /\ MustEvict(trim)
       /\ trim \in DOMAIN items =>
             \A j \in (DOMAIN items) \ {trim} : <<j, trim>> \in older

\* An update of k that leaves k the newest item, or none, sets the trim up.
LEMMA UpdateStartsTrim ==
    ASSUME TypeOK, NEW k \in Key \cup {NoKey}, TrimAfter(k),
           k \in DOMAIN items' =>
              \A j \in (DOMAIN items') \ {k} : <<j, k>> \in older'
    PROVE  TrimInv'
<1>1. trim' = IF MustEvict(k)' THEN k ELSE NoTrim
  BY DEF TrimAfter
<1>2. CASE trim' = NoTrim
  BY <1>2 DEF TrimInv
<1>3. CASE trim' # NoTrim
  <2>1. trim' = k /\ MustEvict(k)'
    BY <1>1, <1>3
  <2>2. MustEvict(trim)'
    BY <2>1 DEF MustEvict
  <2> QED BY <2>1, <2>2 DEF TrimInv
<1> QED BY <1>2, <1>3

\* Storing k makes it the newest item; forgetting it makes it none.
LEMMA UpdateMakesNewest ==
    ASSUME NEW k, ForgetItem(k) \/ \E size \in 0..MaxSize : StoreItem(k, size)
    PROVE  k \in DOMAIN items' => \A j \in (DOMAIN items') \ {k} : <<j, k>> \in older'
<1>1. CASE ForgetItem(k)
  BY <1>1 DEF ForgetItem, Without
<1>2. ASSUME NEW size \in 0..MaxSize, StoreItem(k, size)
      PROVE  \A j \in (DOMAIN items') \ {k} : <<j, k>> \in older'
  BY <1>2 DEF StoreItem, Newest
<1> QED BY <1>1, <1>2

LEMMA TrimNext == TypeOK /\ TrimInv /\ [Next]_vars => TrimInv'
<1> SUFFICES ASSUME TypeOK, TrimInv, [Next]_vars PROVE TrimInv'
  OBVIOUS
<1>t. ASSUME NEW t \in Thread, handle[t].pc # "closed"
      PROVE  handle[t].key \in Key /\ handle[t].off \in 0..MaxSize
  BY <1>t DEF TypeOK, NoHandle, Handles
<1>u. ASSUME NEW k \in Key, TrimAfter(k),
             ForgetItem(k) \/ \E size \in 0..MaxSize : StoreItem(k, size)
      PROVE  TrimInv'
  BY <1>u, UpdateMakesNewest, UpdateStartsTrim
\* The steps that do not wait for the mutex leave the trim as it is.
<1>s. ASSUME UNCHANGED <<items, older, policy, filled, pinned, trim,
                         limitVars, deferring>>
      PROVE  TrimInv'
  BY <1>s DEF TrimInv, MustEvict, limitVars
<1>f. ASSUME trim' = NoTrim
      PROVE  TrimInv'
  BY <1>f DEF TrimInv
<1>1. ASSUME NEW t \in Thread, FileStep(t)
      PROVE  TrimInv'
  <2> DEFINE k == handle[t].key
  <2>1. ASSUME NEW j \in Key, NEW op \in {"put", "writeAt", "get"}, OpenFile(t, j, op)
        PROVE  TrimInv'
    BY <1>s, <2>1 DEF OpenFile, deferVars
  <2>2. CASE RegisterItem(t)
    <3>1. k \in Key
      BY <1>t, <2>2 DEF RegisterItem
    <3>2. ForgetItem(k) \/ \E size \in 0..MaxSize : StoreItem(k, size)
      BY <2>2, <3>1 DEF RegisterItem, TypeOK, NoFile
    <3>3. TrimAfter(k)
      BY <2>2 DEF RegisterItem
    <3> HIDE DEF k
    <3> QED BY <1>u, <3>1, <3>2, <3>3
  <2>3. ASSUME NEW end \in 0..MaxSize, NEW ok \in BOOLEAN, Write(t, end, ok)
        PROVE  TrimInv'
    BY <1>s, <2>3 DEF Write, deferVars
  <2>4. CASE AfterWrite(t)
    <3>1. k \in Key /\ handle[t].off \in 0..MaxSize
      BY <1>t, <2>4 DEF AfterWrite
    <3>2. ForgetItem(k) \/ \E size \in 0..MaxSize : StoreItem(k, size)
      BY <2>4, <3>1 DEF AfterWrite, TypeOK, Larger
    <3>3. TrimAfter(k)
      BY <2>4 DEF AfterWrite
    <3> HIDE DEF k
    <3> QED BY <1>u, <3>1, <3>2, <3>3
  <2>5. CASE Read(t)
    <3>1. k \in Key
      BY <1>t, <2>5 DEF Read
    <3>2. ForgetItem(k) \/ \E size \in 0..MaxSize : StoreItem(k, size)
      BY <2>5, <3>1 DEF Read, TypeOK
    <3>3. TrimAfter(k)
      BY <2>5 DEF Read
    <3> HIDE DEF k
    <3> QED BY <1>u, <3>1, <3>2, <3>3
  <2>6. CASE Close(t)
    BY <1>s, <2>6 DEF Close, deferVars
  <2> QED BY <1>1, <2>1, <2>2, <2>3, <2>4, <2>5, <2>6 DEF FileStep
<1>2. ASSUME NEW k \in Key, Remove(k)
      PROVE  TrimInv'
  BY <1>u, <1>2 DEF Remove
<1>3. ASSUME NEW k \in Key, Evict(k)
      PROVE  TrimInv'
  <2>1. trim \in Key \cup {NoKey} /\ TrimAfter(trim) /\ ForgetItem(k) /\ trim # NoTrim
    BY <1>3 DEF Evict, TypeOK
  <2>2. DOMAIN items' = (DOMAIN items) \ {k} /\ older' = Drop(older, k)
    BY <2>1 DEF ForgetItem, Without
  <2>3. ASSUME NEW p \in Key \cup {NoKey}, p = trim
        PROVE  p \in DOMAIN items' => \A j \in (DOMAIN items') \ {p} : <<j, p>> \in older'
    BY <2>1, <2>2, <2>3 DEF TrimInv, Drop
  <2>4. \E p \in Key \cup {NoKey} : p = trim /\ TrimAfter(p)
    <3>1. PICK p \in {trim} : trim' = IF MustEvict(p)' THEN p ELSE NoTrim
      BY <2>1 DEF TrimAfter
    <3>2. TrimAfter(p)
      BY <3>1 DEF TrimAfter
    <3> QED BY <2>1, <3>1, <3>2
  <2> QED BY <2>3, <2>4, UpdateStartsTrim
<1>4. CASE TrimToCapacity
  BY <1>4, KeyAssumption
     DEF TrimToCapacity, TrimInv, MustEvict, TypeOK, limitVars, deferVars
<1>5. CASE Ready \/ DeferTrim \/ Restart
  BY <1>5, <1>f DEF Ready, DeferTrim, Restart, LockFree
<1>6. CASE UNCHANGED vars
  BY <1>6, <1>s DEF vars, limitVars
<1>7. ASSUME \/ \E c \in Capacities : SetCapacity(c)
             \/ \E r \in Reserves : SetReserve(r)
             \/ \E o \in Owner, hexes \in SUBSET Hex : Pin(o, hexes)
             \/ \E hexes \in SUBSET Hex : Demote(hexes)
             \/ \E g \in 1..MaxGen : Fallback(g)
      PROVE  TrimInv'
  BY <1>7, <1>f DEF SetCapacity, SetReserve, Pin, Demote, Fallback, LockFree
<1>8. ASSUME NEW g \in 1..MaxGen, TimerFires(g)
      PROVE  TrimInv'
  BY <1>8, <1>s DEF TimerFires
<1> QED BY <1>1, <1>2, <1>3, <1>4, <1>5, <1>6, <1>7, <1>8 DEF Next

THEOREM TrimInvariant == Spec => []TrimInv
<1>1. Init => TrimInv
  BY DEF Init, TrimInv
<1> QED BY <1>1, TrimNext, TypeCorrect, PTL DEF Spec

\* A trim never takes the item whose update runs it while that item fits the
\* capacity on its own.
THEOREM OwnUpdateIsSpared == Spec => OwnUpdateSurvives
<1> DEFINE Spared == \A k \in Key : Evict(k) /\ trim = k /\ k \in DOMAIN items
                                       => items[k] > capacity
<1>1. TablesInv /\ AccessOrderTotal /\ TrimInv => [Spared]_vars
  <2> SUFFICES ASSUME TablesInv, AccessOrderTotal, TrimInv,
                      NEW k \in Key, Evict(k), trim = k, k \in DOMAIN items
               PROVE  items[k] > capacity
    OBVIOUS
  <2>1. MustEvict(k) /\ \A j \in (DOMAIN items) \ {k} : <<j, k>> \in older
    BY DEF TrimInv, Evict
  <2>2. k \in policy /\ \A j \in policy \ {k} : <<k, j>> \in older
    BY DEF Evict, Oldest
  <2>3. policy \subseteq DOMAIN items
    BY DEF TablesInv, TablesAgree, UnpinnedInPolicy
  <2>4. policy = {k}
    <3>1. ASSUME NEW j \in policy, j # k PROVE FALSE
      <4>1. <<k, j>> \in older /\ <<j, k>> \in older /\ j \in DOMAIN items
        BY <2>1, <2>2, <2>3, <3>1
      <4>2. \A a, b \in DOMAIN items :
              a # b => (<<a, b>> \in older <=> <<b, a>> \notin older)
        BY DEF AccessOrderTotal, TotalOrder
      <4> QED BY <3>1, <4>1, <4>2
    <3> QED BY <2>2, <3>1
  <2>5. ~(items[k] <= capacity)
    BY <2>1, <2>4 DEF MustEvict
  <2>6. items[k] \in Int /\ capacity \in Int
    BY SizeAssumption DEF TablesInv, TypeOK
  <2> QED BY <2>5, <2>6
<1> HIDE DEF Spared
<1>2. Spec => [][Spared]_vars
  BY <1>1, TablesInvariant, OrderAlwaysTotal, TrimInvariant, PTL DEF Spec
<1> QED BY <1>2 DEF OwnUpdateSurvives, Spared

\* While trims are deferred only Remove takes an item.
THEOREM DeferralKeeps == Spec => DeferredKeeps
<1> DEFINE Keeps == deferring => \A k \in (DOMAIN items) \ (DOMAIN items') : Remove(k)
<1>1. TablesInv /\ FilesInv /\ TrimInv /\ [Next]_vars => [Keeps]_vars
  BY ItemsLeaveBy DEF Evict, TrimInv, MustEvict
<1> HIDE DEF Keeps
<1>2. Spec => [][Keeps]_vars
  BY <1>1, TablesInvariant, FilesInvariant, TrimInvariant, PTL DEF Spec
<1> QED BY <1>2 DEF DeferredKeeps, Keeps

-----------------------------------------------------------------------------
(* The cache implements PinStore: items are what is stored, deferring is   *)
(* what holds the trims.                                                   *)

\* A key whose count is 0 is one that no owner pins.
LEMMA CountedIsPinned ==
    ASSUME TypeOK, PinsCounted, NEW k \in Key, ~IsPinned(k)
    PROVE  ~Store!Pinned(k)
<1> DEFINE S == {o \in Owner : k[1] \in owners[o]}
<1>1. k[1] \in Hex
  BY KeyAssumption
<1>2. pinCount[k[1]] = Cardinality(S) /\ pinCount[k[1]] \in Nat
  BY <1>1 DEF PinsCounted, TypeOK
<1>3. Cardinality(S) = 0
  BY <1>2 DEF IsPinned
<1>4. IsFiniteSet(S)
  BY OwnerAssumption, FS_Subset
<1>5. S = {}
  BY <1>3, <1>4, FS_EmptySet
<1> QED BY <1>5 DEF Store!Pinned

LEMMA StepRefines ==
    ASSUME TablesInv, FilesInv, TrimInv, [Next]_vars
    PROVE  [Store!Next]_Store!storeVars
<1> USE DEF Store!storeVars, LockFree
<1>0. TypeOK /\ PinsCounted /\ UnpinnedInPolicy
  BY DEF TablesInv, TablesAgree
<1>t. ASSUME NEW t \in Thread, handle[t].pc # "closed"
      PROVE  handle[t].key \in Key
  BY <1>0, <1>t DEF TypeOK, NoHandle, Handles
\* An update by a reader or a writer registers its key, or changes nothing.
<1>u. ASSUME NEW k \in Key, LockFree, UNCHANGED <<pinVars, deferVars>>,
             \/ \E size : StoreItem(k, size)
             \/ k \notin DOMAIN items /\ ForgetItem(k)
      PROVE  [Store!Next]_Store!storeVars
  <2>1. CASE \E size : StoreItem(k, size)
    <3>1. DOMAIN items' = DOMAIN items \cup {k}
      BY <2>1 DEF StoreItem
    <3>2. Store!Add(k)
      BY <1>u, <3>1 DEF Store!Add, Store!MayMakeRoom, pinVars, deferVars
    <3> QED BY <3>2 DEF Store!Next
  <2>2. CASE k \notin DOMAIN items /\ ForgetItem(k)
    <3>1. DOMAIN items' = DOMAIN items
      BY <2>2 DEF ForgetItem, Without
    <3>2. CASE LockFree'
      BY <1>u, <3>1, <3>2 DEF pinVars, deferVars
    <3>3. CASE ~LockFree'
      <4>1. Store!Trim
        BY <1>u, <3>1, <3>3 DEF Store!Trim, pinVars, deferVars
      <4> QED BY <4>1 DEF Store!Next
    <3> QED BY <3>2, <3>3
  <2> QED BY <1>u, <2>1, <2>2
<1>s. ASSUME UNCHANGED <<items, pinVars, deferring, trim>>
      PROVE  [Store!Next]_Store!storeVars
  BY <1>s DEF pinVars
<1>1. ASSUME NEW t \in Thread, FileStep(t)
      PROVE  [Store!Next]_Store!storeVars
  <2> DEFINE k == handle[t].key
  <2>1. ASSUME NEW j \in Key, NEW op \in {"put", "writeAt", "get"}, OpenFile(t, j, op)
        PROVE  [Store!Next]_Store!storeVars
    BY <1>s, <2>1 DEF OpenFile, deferVars
  <2>2. CASE RegisterItem(t)
    <3>1. k \in Key
      BY <1>t, <2>2 DEF RegisterItem
    <3>2. (\E size : StoreItem(k, size)) \/ (k \notin DOMAIN items /\ ForgetItem(k))
      BY <2>2 DEF RegisterItem
    <3>3. LockFree /\ UNCHANGED <<pinVars, deferVars>>
      BY <2>2 DEF RegisterItem
    <3> HIDE DEF k
    <3> QED BY <1>u, <3>1, <3>2, <3>3
  <2>3. ASSUME NEW end \in 0..MaxSize, NEW ok \in BOOLEAN, Write(t, end, ok)
        PROVE  [Store!Next]_Store!storeVars
    BY <1>s, <2>3 DEF Write, deferVars
  <2>4. CASE AfterWrite(t)
    <3>1. k \in Key
      BY <1>t, <2>4 DEF AfterWrite
    <3>2. (\E size : StoreItem(k, size)) \/ (k \notin DOMAIN items /\ ForgetItem(k))
      BY <2>4 DEF AfterWrite
    <3>3. LockFree /\ UNCHANGED <<pinVars, deferVars>>
      BY <2>4 DEF AfterWrite
    <3> HIDE DEF k
    <3> QED BY <1>u, <3>1, <3>2, <3>3
  <2>5. CASE Read(t)
    <3>1. k \in Key
      BY <1>t, <2>5 DEF Read
    <3>2. (\E size : StoreItem(k, size)) \/ (k \notin DOMAIN items /\ ForgetItem(k))
      BY <2>5 DEF Read
    <3>3. LockFree /\ UNCHANGED <<pinVars, deferVars>>
      BY <2>5 DEF Read
    <3> HIDE DEF k
    <3> QED BY <1>u, <3>1, <3>2, <3>3
  <2>6. CASE Close(t)
    BY <1>s, <2>6 DEF Close, deferVars
  <2> QED BY <1>1, <2>1, <2>2, <2>3, <2>4, <2>5, <2>6 DEF FileStep
<1>2. ASSUME NEW k \in Key, Remove(k)
      PROVE  [Store!Next]_Store!storeVars
  <2>1. DOMAIN items' = (DOMAIN items) \ {k} /\ UNCHANGED <<pinVars, deferVars>>
    BY <1>2 DEF Remove, ForgetItem, Without
  <2>2. Store!Delete(k)
    BY <1>2, <2>1 DEF Remove, Store!Delete, Store!MayMakeRoom, pinVars, deferVars
  <2> QED BY <2>2 DEF Store!Next
<1>3. ASSUME NEW k \in Key, Evict(k)
      PROVE  [Store!Next]_Store!storeVars
  <2>1. DOMAIN items' = (DOMAIN items) \ {k} /\ UNCHANGED <<pinVars, deferVars>>
    BY <1>3 DEF Evict, ForgetItem, Without
  <2>2. k \in DOMAIN items /\ ~Store!Pinned(k)
    BY <1>0, <1>3, EvictsUnpinned, CountedIsPinned
  <2>3. ~deferring
    BY <1>3 DEF Evict, TrimInv, MustEvict
  <2>4. Store!Evict(k)
    BY <1>3, <2>1, <2>2, <2>3
       DEF Evict, Store!Evict, Store!MayMakeRoom, pinVars, deferVars
  <2> QED BY <2>4 DEF Store!Next
<1>4. CASE TrimToCapacity
  <2>1. Store!Trim
    BY <1>4, KeyAssumption DEF TrimToCapacity, Store!Trim, pinVars, deferVars
  <2> QED BY <2>1 DEF Store!Next
<1>5. ASSUME \/ \E c \in Capacities : SetCapacity(c)
             \/ \E r \in Reserves : SetReserve(r)
             \/ \E hexes \in SUBSET Hex : Demote(hexes)
             \/ \E g \in 1..MaxGen : TimerFires(g)
      PROVE  [Store!Next]_Store!storeVars
  BY <1>5, <1>s DEF SetCapacity, SetReserve, Demote, TimerFires, deferVars
<1>6. ASSUME NEW o \in Owner, NEW hexes \in SUBSET Hex, Pin(o, hexes)
      PROVE  [Store!Next]_Store!storeVars
  <2>1. Store!Pin(o, hexes)
    BY <1>6 DEF Pin, Store!Pin, deferVars
  <2> QED BY <2>1 DEF Store!Next
<1>7. CASE DeferTrim
  <2>1. Store!Hold
    BY <1>7 DEF DeferTrim, Store!Hold, pinVars
  <2> QED BY <2>1 DEF Store!Next
<1>8. CASE Ready
  <2>1. Store!Release
    BY <1>8 DEF Ready, EndDeferring, Store!Release, pinVars
  <2> QED BY <2>1 DEF Store!Next
<1>9. ASSUME NEW g \in 1..MaxGen, Fallback(g)
      PROVE  [Store!Next]_Store!storeVars
  <2>1. deferring' = FALSE \/ deferring' = deferring
    BY <1>0, <1>9 DEF Fallback, TypeOK
  <2>2. UNCHANGED <<items, pinVars, trim>> /\ LockFree
    BY <1>9 DEF Fallback
  <2>3. CASE deferring' = FALSE
    <3>1. Store!Release
      BY <2>2, <2>3 DEF Store!Release, pinVars
    <3> QED BY <3>1 DEF Store!Next
  <2> QED BY <1>s, <2>1, <2>2, <2>3
<1>10. CASE Restart
  <2>1. DOMAIN items' = Files /\ owners' = [o \in Owner |-> {}] /\ deferring' = FALSE
        /\ trim' = NoTrim
    BY <1>10 DEF Restart
  <2>2. DOMAIN items \subseteq Files /\ Files \subseteq Key
    BY <1>0 DEF FilesInv, FilesAreItems, Files, TypeOK
  <2>3. Store!Restart
    BY <2>1, <2>2 DEF Store!Restart
  <2> QED BY <2>3 DEF Store!Next
<1>11. CASE UNCHANGED vars
  BY <1>11, <1>s DEF vars
<1> QED
  BY <1>1, <1>2, <1>3, <1>4, <1>5, <1>6, <1>7, <1>8, <1>9, <1>10, <1>11 DEF Next

\* The cache keeps its promise, whatever its sizes, pieces and threads.
THEOREM CacheImplementsPinStore == Spec => ImplementsPinStore
<1>1. Init => Store!Init
  BY DEF Init, Store!Init, LockFree
<1>2. TablesInv /\ FilesInv /\ TrimInv /\ [Next]_vars => [Store!Next]_Store!storeVars
  BY StepRefines
<1>3. Spec => Store!Spec
  BY <1>1, <1>2, TablesInvariant, FilesInvariant, TrimInvariant, PTL
     DEF Spec, Store!Spec
<1> QED BY <1>3 DEF ImplementsPinStore

-----------------------------------------------------------------------------
(* The accounting.  SumOver counts bytes, so what storing and forgetting   *)
(* an item do to a sum follows from the cardinalities of unions.           *)

LEMMA BytesFinite ==
    ASSUME NEW S, IsFiniteSet(S), NEW size
    PROVE  IsFiniteSet(Bytes(size, S)) /\ SumOver(size, S) \in Nat
<1>1. IsFiniteSet(1..MaxSize)
  BY FS_Interval, SizeAssumption
<1>2. IsFiniteSet(S \X (1..MaxSize))
  BY <1>1, FS_Product
<1>3. Bytes(size, S) \in SUBSET (S \X (1..MaxSize))
  BY DEF Bytes
<1>4. IsFiniteSet(Bytes(size, S))
  BY <1>2, <1>3, FS_Subset
<1> QED BY <1>4, FS_CardinalityType DEF SumOver

\* Only the sizes of S matter.
LEMMA SumSame ==
    ASSUME NEW S, NEW size, NEW other, \A k \in S : size[k] = other[k]
    PROVE  SumOver(size, S) = SumOver(other, S)
<1>1. Bytes(size, S) = Bytes(other, S)
  BY DEF Bytes
<1> QED BY <1>1 DEF SumOver

LEMMA SumEmpty ==
    ASSUME NEW size
    PROVE  SumOver(size, {}) = 0
<1>1. Bytes(size, {}) = {}
  BY DEF Bytes
<1> QED BY <1>1, FS_EmptySet DEF SumOver

\* The sum over two disjoint sets.
LEMMA SumDisjoint ==
    ASSUME NEW S, NEW T, IsFiniteSet(S), IsFiniteSet(T), S \cap T = {}, NEW size
    PROVE  SumOver(size, S \cup T) = SumOver(size, S) + SumOver(size, T)
<1>1. Bytes(size, S \cup T) = Bytes(size, S) \cup Bytes(size, T)
  BY DEF Bytes
<1>2. Bytes(size, S) \cap Bytes(size, T) = {}
  BY DEF Bytes
<1>3. IsFiniteSet(Bytes(size, S)) /\ IsFiniteSet(Bytes(size, T))
  BY BytesFinite
<1>4. /\ Cardinality(Bytes(size, S)) \in Nat /\ Cardinality(Bytes(size, T)) \in Nat
      /\ Cardinality(Bytes(size, S) \cap Bytes(size, T)) = 0
  BY <1>2, <1>3, FS_CardinalityType, FS_EmptySet
<1>5. Cardinality(Bytes(size, S) \cup Bytes(size, T)) =
        Cardinality(Bytes(size, S)) + Cardinality(Bytes(size, T))
          - Cardinality(Bytes(size, S) \cap Bytes(size, T))
  BY <1>3, FS_Union
<1>6. /\ SumOver(size, S \cup T) = Cardinality(Bytes(size, S) \cup Bytes(size, T))
      /\ SumOver(size, S) = Cardinality(Bytes(size, S))
      /\ SumOver(size, T) = Cardinality(Bytes(size, T))
  BY <1>1 DEF SumOver
<1> HIDE DEF Bytes
<1> QED BY <1>4, <1>5, <1>6

\* A file has as many bytes as its size.
LEMMA SumOne ==
    ASSUME NEW k, NEW size, size[k] \in 0..MaxSize
    PROVE  SumOver(size, {k}) = size[k]
<1>1. Bytes(size, {k}) = {k} \X (1..size[k])
  BY SizeAssumption DEF Bytes
<1>2. IsFiniteSet({k}) /\ Cardinality({k}) = 1
  BY FS_Singleton
<1>3. PICK n \in Nat : n = size[k]
  BY SizeAssumption
<1>4. IsFiniteSet(1..n) /\ Cardinality(1..n) = n
  BY FS_Interval
<1>5. Cardinality({k} \X (1..n)) = Cardinality({k}) * Cardinality(1..n)
  BY <1>2, <1>4, FS_Product
<1>6. Cardinality({k} \X (1..n)) = n
  BY <1>2, <1>4, <1>5
<1> QED BY <1>1, <1>3, <1>6 DEF SumOver

\* What an item adds to a sum it is in, and what the sum is without it.
LEMMA SumSplit ==
    ASSUME NEW S, IsFiniteSet(S), NEW k \in S, NEW size, size[k] \in 0..MaxSize
    PROVE  SumOver(size, S) = SumOver(size, S \ {k}) + size[k]
<1>1. S = (S \ {k}) \cup {k} /\ (S \ {k}) \cap {k} = {}
  OBVIOUS
<1>2. IsFiniteSet(S \ {k}) /\ IsFiniteSet({k})
  BY FS_RemoveElement, FS_Singleton
<1>3. SumOver(size, (S \ {k}) \cup {k}) = SumOver(size, S \ {k}) + SumOver(size, {k})
  BY <1>1, <1>2, SumDisjoint
<1> QED BY <1>1, <1>3, SumOne

PinnedItems == {k \in DOMAIN items : IsPinned(k)}

\* The files, and with them the items, are finitely many.
FewFiles == IsFiniteSet(Files) /\ DOMAIN items \subseteq Files

\* A sum of the items once k has another size, or the first.
LEMMA SumStored ==
    ASSUME NEW was, NEW now, NEW S, NEW T, IsFiniteSet(S), NEW k,
           T = S \cup {k}, \A j \in S \ {k} : now[j] = was[j],
           k \in S => was[k] \in 0..MaxSize, now[k] \in 0..MaxSize
    PROVE  SumOver(now, T) = SumOver(was, S) - (IF k \in S THEN was[k] ELSE 0) + now[k]
<1>1. IsFiniteSet(T) /\ IsFiniteSet(S \ {k}) /\ T \ {k} = S \ {k} /\ k \in T
  BY FS_AddElement, FS_RemoveElement
<1>2. SumOver(now, T) = SumOver(now, S \ {k}) + now[k]
  BY <1>1, SumSplit
<1>3. SumOver(now, S \ {k}) = SumOver(was, S \ {k}) /\ SumOver(was, S \ {k}) \in Nat
  BY <1>1, SumSame, BytesFinite
<1>4. CASE k \in S
  <2>1. SumOver(was, S) = SumOver(was, S \ {k}) + was[k]
    BY <1>4, SumSplit
  <2> QED BY <1>2, <1>3, <1>4, <2>1, SizeAssumption
<1>5. CASE k \notin S
  <2>1. SumOver(was, S \ {k}) = SumOver(was, S)
    <3>1. S \ {k} = S
      BY <1>5
    <3> QED BY <3>1
  <2> QED BY <1>2, <1>3, <1>5, <2>1, SizeAssumption
<1> QED BY <1>4, <1>5

\* A sum of the items without k.
LEMMA SumForgotten ==
    ASSUME NEW was, NEW now, NEW S, NEW T, IsFiniteSet(S), NEW k,
           T = S \ {k}, \A j \in T : now[j] = was[j], k \in S => was[k] \in 0..MaxSize
    PROVE  SumOver(now, T) = SumOver(was, S) - (IF k \in S THEN was[k] ELSE 0)
<1>1. IsFiniteSet(T)
  BY FS_RemoveElement
<1>2. SumOver(now, T) = SumOver(was, T) /\ SumOver(was, T) \in Nat
  BY <1>1, SumSame, BytesFinite
<1>3. CASE k \in S
  <2>1. SumOver(was, S) = SumOver(was, T) + was[k]
    BY <1>3, SumSplit
  <2> QED BY <1>2, <1>3, <2>1, SizeAssumption
<1>4. CASE k \notin S
  <2>1. T = S
    BY <1>4
  <2> QED BY <1>2, <1>4, <2>1, SizeAssumption
<1> QED BY <1>3, <1>4

LEMMA StoreAccounts ==
    ASSUME TypeOK, FewFiles, AccountingExact, NEW k \in Key, NEW size \in 0..MaxSize,
           StoreItem(k, size), UNCHANGED pinVars
    PROVE  AccountingExact'
<1> DEFINE D == DOMAIN items
           P == PinnedItems
           was == IF k \in D THEN items[k] ELSE 0
<1>1. /\ DOMAIN items' = D \cup {k} /\ items'[k] = size
      /\ \A j \in D \ {k} : items'[j] = items[j]
  BY DEF StoreItem
<1>2. \A j : IsPinned(j)' = IsPinned(j)
  BY DEF IsPinned, pinVars
<1>3. IsFiniteSet(D) /\ IsFiniteSet(P) /\ P \subseteq D
  BY FS_Subset DEF FewFiles, PinnedItems
<1>4. k \in D => items[k] \in 0..MaxSize
  BY DEF TypeOK
<1>5. filled' = SumOver(items', DOMAIN items')
  <2>1. filled' = filled - was + size /\ filled = SumOver(items, D)
    BY DEF StoreItem, AccountingExact
  <2>2. SumOver(items', DOMAIN items') = SumOver(items, D) - was + size
    BY <1>1, <1>3, <1>4, SumStored
  <2> QED BY <2>1, <2>2
<1>6. pinned = SumOver(items, P)
  BY DEF AccountingExact, PinnedItems
<1>7. CASE IsPinned(k)
  <2>1. PinnedItems' = P \cup {k} /\ (k \in P <=> k \in D)
    BY <1>1, <1>2, <1>7 DEF PinnedItems
  <2>2. SumOver(items', PinnedItems') = SumOver(items, P) - was + size
    BY <1>1, <1>3, <1>4, <2>1, SumStored
  <2>3. pinned' = pinned - was + size
    BY <1>7 DEF StoreItem
  <2> QED BY <1>5, <1>6, <2>2, <2>3 DEF AccountingExact, PinnedItems
<1>8. CASE ~IsPinned(k)
  <2>1. PinnedItems' = P /\ \A j \in P : items'[j] = items[j]
    BY <1>1, <1>2, <1>8 DEF PinnedItems
  <2>2. SumOver(items', PinnedItems') = SumOver(items, P)
    BY <2>1, SumSame
  <2>3. pinned' = pinned
    BY <1>8 DEF StoreItem
  <2> QED BY <1>5, <1>6, <2>2, <2>3 DEF AccountingExact, PinnedItems
<1> QED BY <1>7, <1>8

LEMMA ForgetAccounts ==
    ASSUME TypeOK, FewFiles, AccountingExact, NEW k, ForgetItem(k), UNCHANGED pinVars
    PROVE  AccountingExact'
<1> DEFINE D == DOMAIN items
           P == PinnedItems
           was == IF k \in D THEN items[k] ELSE 0
<1>1. DOMAIN items' = D \ {k} /\ \A j \in D \ {k} : items'[j] = items[j]
  BY DEF ForgetItem, Without
<1>2. \A j : IsPinned(j)' = IsPinned(j)
  BY DEF IsPinned, pinVars
<1>3. IsFiniteSet(D) /\ IsFiniteSet(P) /\ P \subseteq D
  BY FS_Subset DEF FewFiles, PinnedItems
<1>4. k \in D => items[k] \in 0..MaxSize
  BY DEF TypeOK
<1>5. filled' = SumOver(items', DOMAIN items')
  <2>1. filled' = filled - was /\ filled = SumOver(items, D)
    BY DEF ForgetItem, AccountingExact
  <2>2. SumOver(items', DOMAIN items') = SumOver(items, D) - was
    BY <1>1, <1>3, <1>4, SumForgotten
  <2> QED BY <2>1, <2>2
<1>6. pinned = SumOver(items, P)
  BY DEF AccountingExact, PinnedItems
<1>7. PinnedItems' = P \ {k}
  BY <1>1, <1>2 DEF PinnedItems
<1>8. SumOver(items', PinnedItems') = SumOver(items, P) - (IF k \in P THEN items[k] ELSE 0)
  BY <1>1, <1>3, <1>4, <1>7, SumForgotten
<1>9. pinned' = pinned - (IF k \in P THEN items[k] ELSE 0)
  <2>1. k \in P <=> k \in D /\ IsPinned(k)
    BY DEF PinnedItems
  <2>2. pinned' = IF IsPinned(k) THEN pinned - was ELSE pinned
    BY DEF ForgetItem
  <2>3. pinned \in Int
    BY <1>3, <1>6, BytesFinite
  <2> QED BY <2>1, <2>2, <2>3
<1> QED BY <1>5, <1>6, <1>8, <1>9 DEF AccountingExact, PinnedItems

\* Pinning moves the pieces' bytes into pinned, unpinning out of it.
LEMMA PinAccounts ==
    ASSUME TablesInv, FewFiles, AccountingExact, NEW o \in Owner, NEW hexes \in SUBSET Hex,
           Pin(o, hexes), pinCount' \in [Hex -> Nat]
    PROVE  AccountingExact'
<1> DEFINE added == hexes \ owners[o]
           dropped == owners[o] \ hexes
           newly == UNION {PieceItems(h) : h \in {g \in added : pinCount'[g] = 1}}
           freed == UNION {PieceItems(h) : h \in {g \in dropped : pinCount'[g] = 0}}
           P == PinnedItems
           Q == PinnedItems'
<1>1. \A h \in Hex : pinCount'[h] = pinCount[h] + (IF h \in added THEN 1 ELSE 0)
                                               - (IF h \in dropped THEN 1 ELSE 0)
  BY DEF Pin
<1>2. /\ items' = items /\ filled' = filled
      /\ pinned' = pinned + SumOver(items, newly) - SumOver(items, freed)
  <2>1. {g \in added : pinCount'[g] = 1} = {g \in added :
           [h \in Hex |-> pinCount[h] + (IF h \in added THEN 1 ELSE 0)
                                      - (IF h \in dropped THEN 1 ELSE 0)][g] = 1}
    BY DEF Pin
  <2>2. {g \in dropped : pinCount'[g] = 0} = {g \in dropped :
           [h \in Hex |-> pinCount[h] + (IF h \in added THEN 1 ELSE 0)
                                      - (IF h \in dropped THEN 1 ELSE 0)][g] = 0}
    BY DEF Pin
  <2> QED BY <2>1, <2>2 DEF Pin
<1>3. \A k \in DOMAIN items : k[1] \in Hex /\ pinCount[k[1]] \in Nat
                              /\ pinCount'[k[1]] \in Nat
  BY KeyAssumption DEF TablesInv, TypeOK
<1>4. dirs = DOMAIN items
  BY DEF TablesInv, TablesAgree
<1>5. \A k : k \in newly <=> k \in DOMAIN items /\ k[1] \in added /\ pinCount'[k[1]] = 1
  BY <1>4 DEF PieceItems
<1>6. \A k : k \in freed <=> k \in DOMAIN items /\ k[1] \in dropped /\ pinCount'[k[1]] = 0
  BY <1>4 DEF PieceItems
<1>7. \A k : (k \in P <=> k \in DOMAIN items /\ pinCount[k[1]] > 0)
             /\ (k \in Q <=> k \in DOMAIN items /\ pinCount'[k[1]] > 0)
  BY <1>2 DEF PinnedItems, IsPinned
<1>8. \A h : ~(h \in added /\ h \in dropped)
  OBVIOUS
<1> HIDE DEF added, dropped, newly, freed, P, Q
<1>9. ASSUME NEW k
      PROVE  /\ k \in newly => k \in Q /\ k \notin P
             /\ k \in freed => k \in P /\ k \notin Q
             /\ k \in P /\ k \notin Q => k \in freed
             /\ k \in Q /\ k \notin P => k \in newly
  <2>1. CASE k \notin DOMAIN items
    BY <1>5, <1>6, <1>7, <2>1
  <2>2. CASE k \in DOMAIN items
    <3>1. /\ pinCount[k[1]] \in Nat /\ pinCount'[k[1]] \in Nat
          /\ pinCount'[k[1]] = pinCount[k[1]] + (IF k[1] \in added THEN 1 ELSE 0)
                                              - (IF k[1] \in dropped THEN 1 ELSE 0)
      BY <1>1, <1>3, <2>2
    <3> QED BY <1>5, <1>6, <1>7, <1>8, <2>2, <3>1
  <2> QED BY <2>1, <2>2
<1>10. Q = (P \cap Q) \cup newly /\ (P \cap Q) \cap newly = {}
  BY <1>9
<1>11. P = (P \cap Q) \cup freed /\ (P \cap Q) \cap freed = {}
  BY <1>9
<1>12. /\ IsFiniteSet(P \cap Q) /\ IsFiniteSet(newly) /\ IsFiniteSet(freed)
  <2>1. IsFiniteSet(DOMAIN items)
    BY FS_Subset DEF FewFiles
  <2>2. P \cap Q \subseteq DOMAIN items /\ newly \subseteq DOMAIN items
        /\ freed \subseteq DOMAIN items
    BY <1>5, <1>6, <1>7
  <2> QED BY <2>1, <2>2, FS_Subset
<1>13. SumOver(items, Q) = SumOver(items, P \cap Q) + SumOver(items, newly)
  <2>1. SumOver(items, (P \cap Q) \cup newly)
          = SumOver(items, P \cap Q) + SumOver(items, newly)
    BY <1>10, <1>12, SumDisjoint
  <2> QED BY <1>10, <2>1
<1>14. SumOver(items, P) = SumOver(items, P \cap Q) + SumOver(items, freed)
  <2>1. SumOver(items, (P \cap Q) \cup freed)
          = SumOver(items, P \cap Q) + SumOver(items, freed)
    BY <1>11, <1>12, SumDisjoint
  <2> QED BY <1>11, <2>1
<1>15. /\ SumOver(items, P \cap Q) \in Nat /\ SumOver(items, newly) \in Nat
       /\ SumOver(items, freed) \in Nat
  BY <1>12, BytesFinite
<1>16. pinned = SumOver(items, P) /\ filled = SumOver(items, DOMAIN items)
  BY DEF P, AccountingExact, PinnedItems
<1>17. pinned' = SumOver(items, Q)
  BY <1>2, <1>13, <1>14, <1>15, <1>16
<1> QED BY <1>2, <1>16, <1>17 DEF Q, AccountingExact, PinnedItems

\* A step that adds at most one file keeps them finitely many.
LEMMA FewMore ==
    ASSUME FewFiles, NEW k, \A j \in Key \ {k} : disk'[j] = disk[j]
    PROVE  IsFiniteSet(Files')
<1>1. Files' \in SUBSET (Files \cup {k})
  BY DEF Files
<1>2. IsFiniteSet(Files \cup {k})
  BY FS_AddElement DEF FewFiles
<1> QED BY <1>1, <1>2, FS_Subset

\* Of a step that stores or forgets an item, or neither, the sums are exact.
LEMMA UpdateAccounts ==
    ASSUME TypeOK, FewFiles, AccountingExact, UNCHANGED pinVars,
           \/ \E k \in Key : ForgetItem(k) \/ \E size \in 0..MaxSize : StoreItem(k, size)
           \/ UNCHANGED <<items, filled, pinned>>
    PROVE  AccountingExact'
<1>1. CASE UNCHANGED <<items, filled, pinned>>
  BY <1>1 DEF AccountingExact, IsPinned, pinVars
<1> QED BY <1>1, StoreAccounts, ForgetAccounts

LEMMA AccountsNext ==
    ASSUME TablesInv, TablesInv', FilesInv', FewFiles, AccountingExact, [Next]_vars
    PROVE  FewFiles' /\ AccountingExact'
<1> USE DEF LockFree
<1>0. TypeOK /\ pinCount' \in [Hex -> Nat]
  BY DEF TablesInv, TypeOK
<1>f. ASSUME IsFiniteSet(Files') PROVE FewFiles'
  BY <1>f DEF FewFiles, FilesInv, FilesAreItems, Files, TablesInv, TypeOK
<1>t. ASSUME NEW t \in Thread, handle[t].pc # "closed"
      PROVE  handle[t] \in Handles /\ handle[t].key \in Key /\ handle[t].off \in 0..MaxSize
  BY <1>0, <1>t DEF TypeOK, NoHandle, Handles
<1>d. \A k \in DOMAIN items : k \in Key /\ items[k] \in 0..MaxSize
  BY <1>0 DEF TypeOK
<1>s. ASSUME UNCHANGED disk PROVE FewFiles'
  <2>1. Files' = Files
    BY <1>s DEF Files
  <2> QED BY <1>f, <2>1 DEF FewFiles
<1>1. ASSUME NEW t \in Thread, NEW k \in Key, NEW op \in {"put", "writeAt", "get"},
             OpenFile(t, k, op)
      PROVE  FewFiles' /\ AccountingExact'
  <2>1. \A j \in Key \ {k} : disk'[j] = disk[j]
    BY <1>0, <1>1 DEF OpenFile, TypeOK
  <2> QED BY <1>0, <1>1, <1>f, <2>1, FewMore, UpdateAccounts DEF OpenFile
<1>2. ASSUME NEW t \in Thread, RegisterItem(t)
      PROVE  FewFiles' /\ AccountingExact'
  <2> DEFINE k == handle[t].key
  <2>1. k \in Key /\ UNCHANGED <<disk, pinVars>>
    BY <1>2, <1>t DEF RegisterItem
  <2>2. ForgetItem(k) \/ \E size \in 0..MaxSize : StoreItem(k, size)
    <3>1. disk[k] # NoFile => disk[k] \in 0..MaxSize
      BY <1>0, <2>1 DEF TypeOK
    <3> QED BY <1>2, <1>d, <3>1 DEF RegisterItem
  <2> QED BY <1>0, <1>s, <2>1, <2>2, UpdateAccounts
<1>3. ASSUME NEW t \in Thread, NEW end, NEW ok, Write(t, end, ok)
      PROVE  FewFiles' /\ AccountingExact'
  <2>1. \A j \in Key \ {handle[t].key} : disk'[j] = disk[j]
    BY <1>0, <1>3 DEF Write, TypeOK
  <2> QED BY <1>0, <1>3, <1>f, <2>1, FewMore, UpdateAccounts DEF Write
<1>4. ASSUME NEW t \in Thread, AfterWrite(t)
      PROVE  FewFiles' /\ AccountingExact'
  <2> DEFINE k == handle[t].key
  <2>1. k \in Key /\ handle[t].off \in 0..MaxSize /\ UNCHANGED <<disk, pinVars>>
    BY <1>4, <1>t DEF AfterWrite
  <2>2. ForgetItem(k) \/ \E size \in 0..MaxSize : StoreItem(k, size)
    <3>1. k \in DOMAIN items => Larger(items[k], handle[t].off) \in 0..MaxSize
      BY <1>d, <2>1 DEF Larger
    <3> QED BY <1>4, <3>1 DEF AfterWrite
  <2> QED BY <1>0, <1>s, <2>1, <2>2, UpdateAccounts
<1>5. ASSUME NEW t \in Thread, Read(t)
      PROVE  FewFiles' /\ AccountingExact'
  <2> DEFINE k == handle[t].key
  <2>1. k \in Key /\ UNCHANGED <<disk, pinVars>>
    BY <1>5, <1>t DEF Read
  <2>2. ForgetItem(k) \/ \E size \in 0..MaxSize : StoreItem(k, size)
    BY <1>5, <1>d DEF Read
  <2> QED BY <1>0, <1>s, <2>1, <2>2, UpdateAccounts
<1>6. ASSUME NEW k \in Key, Remove(k) \/ Evict(k)
      PROVE  FewFiles' /\ AccountingExact'
  <2>1. RemoveFile(k) /\ ForgetItem(k) /\ UNCHANGED pinVars
    BY <1>6 DEF Remove, Evict
  <2>2. \A j \in Key \ {k} : disk'[j] = disk[j]
    BY <1>0, <2>1 DEF RemoveFile, TypeOK
  <2> QED BY <1>0, <1>f, <2>1, <2>2, FewMore, UpdateAccounts
<1>7. ASSUME NEW o \in Owner, NEW hexes \in SUBSET Hex, Pin(o, hexes)
      PROVE  FewFiles' /\ AccountingExact'
  <2>1. UNCHANGED disk
    BY <1>7 DEF Pin
  <2> QED BY <1>0, <1>7, <1>s, <2>1, PinAccounts
<1>8. CASE Restart
  <2>1. items' = [k \in Files |-> disk[k]] /\ filled' = SumOver(disk, Files) /\ pinned' = 0
    BY <1>8 DEF Restart
  <2>2. filled' = SumOver(items', DOMAIN items')
    BY <2>1, SumSame
  <2>3. {k \in DOMAIN items' : IsPinned(k)'} = {}
    <3>1. \A k \in DOMAIN items' : k[1] \in Hex
      BY KeyAssumption, <2>1 DEF Files
    <3> QED BY <1>8, <3>1 DEF Restart, IsPinned
  <2>4. AccountingExact'
    BY <2>1, <2>2, <2>3, SumEmpty DEF AccountingExact
  <2>5. UNCHANGED disk
    BY <1>8 DEF Restart
  <2> QED BY <1>s, <2>4, <2>5
<1>9. ASSUME UNCHANGED <<disk, items, filled, pinned, pinVars>>
      PROVE  FewFiles' /\ AccountingExact'
  BY <1>0, <1>9, <1>s, UpdateAccounts
<1>10. ASSUME NEW t \in Thread, Close(t)
       PROVE  FewFiles' /\ AccountingExact'
  BY <1>9, <1>10 DEF Close
<1>11. CASE TrimToCapacity \/ DeferTrim \/ Ready \/ UNCHANGED vars
  BY <1>9, <1>11 DEF TrimToCapacity, DeferTrim, Ready, vars, pinVars
<1>12. ASSUME \/ \E c \in Capacities : SetCapacity(c)
              \/ \E r \in Reserves : SetReserve(r)
              \/ \E hexes \in SUBSET Hex : Demote(hexes)
              \/ \E g \in 1..MaxGen : TimerFires(g) \/ Fallback(g)
       PROVE  FewFiles' /\ AccountingExact'
  BY <1>9, <1>12 DEF SetCapacity, SetReserve, Demote, TimerFires, Fallback
<1> QED BY <1>1, <1>2, <1>3, <1>4, <1>5, <1>6, <1>7, <1>8, <1>10, <1>11, <1>12
        DEF Next, FileStep

LEMMA AccountsInvariant == Spec => [](FewFiles /\ AccountingExact)
<1>1. Init => FewFiles /\ AccountingExact
  <2> SUFFICES ASSUME Init PROVE FewFiles /\ AccountingExact
    OBVIOUS
  <2>1. Files = {} /\ DOMAIN items = {}
    BY DEF Init, Files
  <2>2. {k \in DOMAIN items : IsPinned(k)} = {}
    BY <2>1
  <2> QED BY <2>1, <2>2, SumEmpty, FS_EmptySet DEF Init, FewFiles, AccountingExact
<1>2. /\ TablesInv /\ TablesInv' /\ FilesInv'
      /\ FewFiles /\ AccountingExact /\ [Next]_vars
      => FewFiles' /\ AccountingExact'
  BY AccountsNext
<1> QED BY <1>1, <1>2, TablesInvariant, FilesInvariant, PTL DEF Spec

\* filled and pinned are exact sums of the items' recorded sizes after every
\* update: what the capacity is checked against never drifts, whatever order
\* of opens, writes, removals, evictions, pins and restarts led there.
THEOREM AccountsAreExact == Spec => []AccountingExact
BY AccountsInvariant, PTL

\* The step that ends a trim.
LEMMA TrimEndsBy ==
    ASSUME [Next]_vars, trim # NoTrim, trim' = NoTrim, ~Restart
    PROVE  \E k \in Key : Evict(k)
<1> USE DEF LockFree
<1>1. \A t \in Thread : ~FileStep(t)
  BY DEF FileStep, OpenFile, RegisterItem, Write, AfterWrite, Read, Close
<1>2. /\ \A k \in Key : ~Remove(k)
      /\ ~TrimToCapacity /\ ~DeferTrim /\ ~Ready /\ ~UNCHANGED vars
  BY DEF Remove, TrimToCapacity, DeferTrim, Ready, vars
<1>3. /\ \A c \in Capacities : ~SetCapacity(c)
      /\ \A r \in Reserves : ~SetReserve(r)
      /\ \A o \in Owner, hexes \in SUBSET Hex : ~Pin(o, hexes)
      /\ \A hexes \in SUBSET Hex : ~Demote(hexes)
      /\ \A g \in 1..MaxGen : ~TimerFires(g) /\ ~Fallback(g)
  BY DEF SetCapacity, SetReserve, Pin, Demote, TimerFires, Fallback
<1> QED BY <1>1, <1>2, <1>3 DEF Next

\* Without pins, and with a reserve within the capacity, the loop of a trim
\* only stops once the cache is within its capacity: its early returns, an
\* empty LRU and one that holds just the item written, are no way out.
THEOREM TrimsReachCapacity == Spec => TrimReachesCapacity
<1> DEFINE Reaches == (trim # NoTrim /\ trim' = NoTrim /\ ~Restart /\ pinned' = 0
                          /\ reserve <= capacity) => filled' <= capacity
<1>1. /\ TrimInv /\ TablesInv /\ TablesInv' /\ FewFiles' /\ AccountingExact'
      /\ [Next]_vars
      => [Reaches]_vars
  <2> SUFFICES ASSUME TrimInv, TablesInv, TablesInv', FewFiles', AccountingExact',
                      [Next]_vars, trim # NoTrim, trim' = NoTrim, ~Restart,
                      pinned' = 0, reserve <= capacity
               PROVE  filled' <= capacity
    OBVIOUS
  <2>1. PICK k \in Key : Evict(k)
    BY TrimEndsBy
  <2>2. /\ capacity >= 0 /\ ~deferring
        /\ capacity' = capacity /\ reserve' = reserve /\ ~deferring'
    BY <2>1 DEF Evict, TrimInv, MustEvict, limitVars, deferVars
  <2> DEFINE D == DOMAIN items'
  <2>3. filled' = SumOver(items', D) /\ SumOver(items', {j \in D : IsPinned(j)'}) = 0
    BY DEF AccountingExact
  <2>4. IsFiniteSet(D) /\ SumOver(items', D) \in Nat
    BY FS_Subset, BytesFinite DEF FewFiles
  <2>5. policy' = {j \in D : ~IsPinned(j)'}
    BY DEF TablesInv, TablesAgree, UnpinnedInPolicy
  <2>6. capacity \in Int /\ reserve \in Int
    BY SizeAssumption DEF TablesInv, TypeOK
  <2>7. CASE policy' = {}
    <3>1. {j \in D : IsPinned(j)'} = D
      BY <2>5, <2>7
    <3> QED BY <2>2, <2>3, <3>1
  <2>8. ASSUME NEW p, policy' = {p}, items'[p] <= capacity
        PROVE  filled' <= capacity
    <3>1. p \in D /\ {j \in D : IsPinned(j)'} = D \ {p}
      BY <2>5, <2>8
    <3>2. items'[p] \in 0..MaxSize
      BY <3>1 DEF TablesInv, TypeOK
    <3>3. SumOver(items', D) = SumOver(items', D \ {p}) + items'[p]
      BY <2>4, <3>1, <3>2, SumSplit
    <3>4. SumOver(items', D \ {p}) = 0
      BY <2>3, <3>1
    <3> QED BY <2>3, <2>8, <3>2, <3>3, <3>4, SizeAssumption
  <2>9. CASE ~(filled' > capacity) \/ ~(filled' - pinned' > reserve)
    BY <2>3, <2>4, <2>6, <2>9
  <2>10. \/ ~(filled' > capacity) \/ ~(filled' - pinned' > reserve)
         \/ policy' = {} \/ (policy' = {trim} /\ items'[trim] <= capacity)
    <3>1. PICK p \in {trim} : trim' = IF MustEvict(p)' THEN p ELSE NoTrim
      BY <2>1 DEF Evict, TrimAfter
    <3>2. p = trim /\ ~MustEvict(p)'
      BY <3>1
    <3>3. \/ ~(filled' > capacity') \/ ~(filled' - pinned' > reserve')
          \/ policy' = {} \/ (policy' = {p} /\ items'[p] <= capacity')
      BY <2>2, <3>2 DEF MustEvict
    <3> QED BY <2>2, <3>2, <3>3
  <2> QED BY <2>7, <2>8, <2>9, <2>10
<1> HIDE DEF Reaches
<1>2. Spec => [][Reaches]_vars
  BY <1>1, TablesInvariant, TrimInvariant, AccountsInvariant, PTL DEF Spec
<1> QED BY <1>2 DEF TrimReachesCapacity, Reaches

\* A timer that fired as Ready stopped it, and waited for the mutex while a
\* new deferral began, does not end that one.
THEOREM DeferralHasItsTimer == Spec => OnlyOwnTimerEndsDeferral
<1> DEFINE Own == deferring /\ ~deferring' =>
                    \/ Ready
                    \/ Restart
                    \/ timers[deferGen] = "fired" /\ timers'[deferGen] = "none"
<1>1. TypeOK /\ [Next]_vars => [Own]_vars
  <2> SUFFICES ASSUME TypeOK, [Next]_vars, deferring, ~deferring', ~Ready, ~Restart
               PROVE  timers[deferGen] = "fired" /\ timers'[deferGen] = "none"
    OBVIOUS
  <2>1. \A t \in Thread : ~FileStep(t)
    BY DEF FileStep, OpenFile, RegisterItem, Write, AfterWrite, Read, Close, deferVars
  <2>2. /\ \A k \in Key : ~Remove(k) /\ ~Evict(k)
        /\ ~TrimToCapacity /\ ~DeferTrim /\ ~UNCHANGED vars
    BY DEF Remove, Evict, TrimToCapacity, DeferTrim, vars, deferVars
  <2>3. /\ \A c \in Capacities : ~SetCapacity(c)
        /\ \A r \in Reserves : ~SetReserve(r)
        /\ \A o \in Owner, hexes \in SUBSET Hex : ~Pin(o, hexes)
        /\ \A hexes \in SUBSET Hex : ~Demote(hexes)
        /\ \A g \in 1..MaxGen : ~TimerFires(g)
    BY DEF SetCapacity, SetReserve, Pin, Demote, TimerFires, deferVars
  <2>4. PICK g \in 1..MaxGen : Fallback(g)
    BY <2>1, <2>2, <2>3 DEF Next
  <2>5. g = deferGen
    BY <2>4 DEF Fallback
  <2> QED BY <2>4, <2>5 DEF Fallback, TypeOK
<1> HIDE DEF Own
<1>2. Spec => [][Own]_vars
  BY <1>1, TypeCorrect, PTL DEF Spec
<1> QED BY <1>2 DEF OnlyOwnTimerEndsDeferral, Own
=============================================================================
