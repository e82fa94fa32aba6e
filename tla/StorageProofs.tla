---------------------------- MODULE StorageProofs ----------------------------
(***************************************************************************)
(* What StoragePut's and CacheGovernor's runs check on small instances,    *)
(* proved for every settings, queue, disk and step.                        *)
(*                                                                         *)
(* Four arguments, one after the other:                                    *)
(*   - the limits: arithmetic over Resolve and checkLimits;                *)
(*   - the PUTs: updates makes them exclusive, so from reading the         *)
(*     settings until storing them what a PUT worked out stays what the    *)
(*     stored document gives (PutInv);                                     *)
(*   - admission: the run of a queue, by induction over its length, gives  *)
(*     what a cap admits; beside the commit guard (RowsInv) that settles   *)
(*     what PUTs and Keeps do to the files admitted;                       *)
(*   - the governor: StepInv says of every point of a pass what the fill   *)
(*     may be there: before a step at most the last cap and what was       *)
(*     written since, after one what is pinned and reserved at most.       *)
(***************************************************************************)
EXTENDS StoragePut, CacheGovernor, FiniteSetTheorems, SequenceTheorems,
        WellFoundedInduction, TLAPS

-----------------------------------------------------------------------------
(* The limits: what Resolve and checkLimits promise.                       *)

\* The kinds of the limits: the limit is at least MinBytes, the reserve a
\* quarter of it at most (resolve.go:121-134).
LEMMA LimitKinds ==
    ASSUME NEW s \in StorageSettings, NEW conf \in Bytes, NEW total \in Nat
    PROVE  /\ LimitBytes(s, conf, total) \in Nat
           /\ LimitBytes(s, conf, total) >= MinBytes
<1>1. AutoBytes(total) \in Nat /\ MaxBytes(total) \in Nat
  BY DEF AutoBytes, MaxBytes, Percent
<1>2. s.limitSet \in BOOLEAN /\ s.limit \in Nat \cup {Null} /\ conf \in Nat \cup {Null}
  BY DEF StorageSettings, Bytes
<1>3. WantedLimit(s, conf, total) \in Nat
  BY <1>1, <1>2, BytesAssumption DEF WantedLimit, Or
<1> QED
  BY <1>1, <1>3, BytesAssumption DEF LimitBytes, Greater, Lesser

LEMMA ReserveKinds ==
    ASSUME NEW lim \in Nat
    PROVE  /\ ReserveBytes(lim) \in Nat
           /\ 4 * ReserveBytes(lim) <= lim
           /\ Room(lim) \in Nat
<1>1. Percent(lim, 25) \in Nat /\ 4 * Percent(lim, 25) <= lim
  BY DEF Percent
<1> QED
  BY <1>1, BytesAssumption DEF ReserveBytes, Room, Lesser

\* The caps are bytes that fit the limit less the reserve, kept first
\* (downloadMaxima, resolve.go:139-153).
LEMMA CapsKinds ==
    ASSUME NEW s \in StorageSettings, NEW lim \in Nat
    PROVE  /\ KeptMaxBytes(s, lim) \in Nat
           /\ SmartMaxBytes(s, lim) \in Nat
           /\ KeptMaxBytes(s, lim) + SmartMaxBytes(s, lim) <= Room(lim)
<1>1. Percent(lim, 50) \in Nat /\ Percent(lim, 15) \in Nat
  BY DEF Percent
<1>2. s.kept \in Nat \cup {Null} /\ s.smart \in Nat \cup {Null}
  BY DEF StorageSettings, Bytes
<1>3. Or(s.kept, Percent(lim, 50)) \in Nat /\ Or(s.smart, Percent(lim, 15)) \in Nat
  BY <1>1, <1>2, BytesAssumption DEF Or
<1>4. Room(lim) \in Nat
  BY ReserveKinds
<1>5. KeptMaxBytes(s, lim) \in Nat /\ KeptMaxBytes(s, lim) <= Room(lim)
  BY <1>3, <1>4 DEF KeptMaxBytes, Greater, Lesser
<1> QED
  BY <1>3, <1>4, <1>5 DEF SmartMaxBytes, Greater, Lesser

\* Kept and smart downloads and the streaming reserve share the limit: no
\* settings, however far apart their fields, give away more than it
\* (resolve.go:95-101).
THEOREM CapsShareTheLimit ==
    ASSUME NEW s \in StorageSettings, NEW conf \in Bytes, NEW total \in Nat
    PROVE  LET lim == LimitBytes(s, conf, total)
           IN  KeptMaxBytes(s, lim) + SmartMaxBytes(s, lim) + ReserveBytes(lim) <= lim
<1> DEFINE lim == LimitBytes(s, conf, total)
<1>1. lim \in Nat
  BY LimitKinds
<1> HIDE DEF lim
<1>2. /\ KeptMaxBytes(s, lim) \in Nat /\ SmartMaxBytes(s, lim) \in Nat
      /\ KeptMaxBytes(s, lim) + SmartMaxBytes(s, lim) <= Room(lim)
  BY <1>1, CapsKinds
<1>3. ReserveBytes(lim) \in Nat
  BY <1>1, ReserveKinds
<1>4. KeptMaxBytes(s, lim) + SmartMaxBytes(s, lim) + ReserveBytes(lim) <= lim
  BY <1>1, <1>2, <1>3 DEF Room
<1> QED
  BY <1>4 DEF lim

\* Without explicit caps, kept and smart downloads have exactly 50% and 15%:
\* the defaults always fit (patch.go:183).
THEOREM DefaultCapsGranted ==
    ASSUME NEW s \in StorageSettings, s.kept = Null, s.smart = Null, NEW lim \in Nat
    PROVE  /\ KeptMaxBytes(s, lim) = Percent(lim, 50)
           /\ SmartMaxBytes(s, lim) = Percent(lim, 15)
<1>1. /\ Percent(lim, 50) \in Nat /\ 2 * Percent(lim, 50) <= lim
      /\ Percent(lim, 15) \in Nat /\ 100 * Percent(lim, 15) <= 15 * lim
  BY DEF Percent
<1>2. ReserveBytes(lim) \in Nat /\ 4 * ReserveBytes(lim) <= lim /\ Room(lim) \in Nat
  BY ReserveKinds
<1>3. Room(lim) = lim - ReserveBytes(lim)
  BY DEF Room
<1>4. KeptMaxBytes(s, lim) = Percent(lim, 50)
  BY <1>1, <1>2, <1>3 DEF KeptMaxBytes, Or, Greater, Lesser
<1>5. Percent(lim, 15) <= Room(lim) - Percent(lim, 50)
  <2> DEFINE half == Percent(lim, 50)
             some == Percent(lim, 15)
             res == ReserveBytes(lim)
  <2>1. /\ half \in Nat /\ 2 * half <= lim /\ some \in Nat /\ 100 * some <= 15 * lim
        /\ res \in Nat /\ 4 * res <= lim
    BY <1>1, <1>2
  <2> HIDE DEF half, some, res
  <2>2. 100 * some <= 100 * (lim - res - half)
    BY <2>1
  <2>3. some <= lim - res - half
    BY <2>1, <2>2
  <2> QED
    BY <2>3, <1>3 DEF half, some, res
<1>6. SmartMaxBytes(s, lim) = Percent(lim, 15)
  <2> DEFINE some == Percent(lim, 15)
             left == Room(lim) - Percent(lim, 50)
  <2>1. some \in Nat /\ left \in Int /\ some <= left
    BY <1>1, <1>2, <1>5
  <2>2. SmartMaxBytes(s, lim) = Greater(Lesser(some, left), 0)
    BY <1>4 DEF SmartMaxBytes, Or
  <2> HIDE DEF some, left
  <2>3. Greater(Lesser(some, left), 0) = some
    BY <2>1 DEF Greater, Lesser
  <2> QED
    BY <2>2, <2>3 DEF some
<1> QED
  BY <1>4, <1>6

\* A PUT that is accepted and sends the limit or the kept cap leaves both
\* explicit caps fitting, stored or sent (patch.go:179-182).
THEOREM AcceptedFits ==
    ASSUME NEW p \in StorageSettingsPatch, NEW merged, NEW lim, NEW total,
           checkLimits(p, merged, lim, total) = "",
           p.setLimit \/ p.setKept
    PROVE  CapsFit(merged, lim)
BY DEF checkLimits, CapsFit, StorageSettingsPatch

\* Caps that fit are granted whole: what the settings say is what downloads
\* get.
THEOREM FittingCapsGranted ==
    ASSUME NEW s \in StorageSettings, NEW lim \in Nat, CapsFit(s, lim)
    PROVE  /\ s.kept # Null => KeptMaxBytes(s, lim) = s.kept
           /\ s.smart # Null => SmartMaxBytes(s, lim) = s.smart
<1>1. s.kept \in Nat \cup {Null} /\ s.smart \in Nat \cup {Null}
  BY DEF StorageSettings, Bytes
<1>2. Room(lim) \in Nat /\ KeptMaxBytes(s, lim) \in Nat
  BY ReserveKinds, CapsKinds
<1>3. s.kept # Null => KeptMaxBytes(s, lim) = s.kept
  BY <1>1, <1>2 DEF CapsFit, Unfit, KeptMaxBytes, Or, Greater, Lesser
<1>4. s.smart # Null => SmartMaxBytes(s, lim) = s.smart
  BY <1>1, <1>2 DEF CapsFit, Unfit, SmartMaxBytes, Or, Greater, Lesser
<1> QED
  BY <1>3, <1>4

\* The effective size is a cap the cache can have, and does not depend on
\* how the bytes outside other use are split between the fill and free
\* space: a pass that evicts does not change what it aims at
\* (resolve.go:126-132).
THEOREM EffectiveIgnoresFill ==
    ASSUME NEW lim \in Nat, lim >= MinBytes, NEW total \in Nat,
           NEW free \in Nat, NEW fill \in Nat, NEW evicted \in 0..fill
    PROVE  /\ EffectiveBytes(lim, total, free, fill) \in Nat
           /\ EffectiveBytes(lim, total, free, fill) >= MinBytes
           /\ EffectiveBytes(lim, total, free, fill) <= lim
           /\ EffectiveBytes(lim, total, free + evicted, fill - evicted)
                = EffectiveBytes(lim, total, free, fill)
BY BytesAssumption DEF EffectiveBytes, Greater, Lesser

-----------------------------------------------------------------------------
(* A PUT beside the downloads.                                             *)

Busy == [pc : {"checked", "locked", "approved"}, patch : Patches, merged : StorageSettings,
         broken : BOOLEAN, before : Nat, after : Nat]

\* What a PUT p under way holds is still true of what is stored.
UpToDate(p) ==
    /\ updates = p
    /\ put[p].broken = broken
    /\ put[p].merged = Apply(put[p].patch, readSettings)
    /\ checkLimits(put[p].patch, put[p].merged, Limit(put[p].merged), DiskTotal) = ""

PutInv == \A p \in Putter : put[p].pc # "idle" => UpToDate(p)

IInv == PutTypes /\ PutInv

-----------------------------------------------------------------------------
LEMMA DefaultKinds == DefaultStorageSettings \in StorageSettings
BY DEF DefaultStorageSettings, StorageSettings, Bytes

LEMMA ApplyKinds ==
    ASSUME NEW s \in StorageSettings, NEW p \in StorageSettingsPatch
    PROVE  Apply(p, s) \in StorageSettings
BY DEF Apply, StorageSettings, StorageSettingsPatch, Bytes

LEMMA ReadKinds == PutTypes => readSettings \in StorageSettings
BY DefaultKinds DEF PutTypes, readSettings

LEMMA KeptMaxKinds ==
    ASSUME PutTypes, NEW s \in StorageSettings
    PROVE  KeptMax(s) \in Nat
<1>1. config \in Bytes /\ DiskTotal \in Nat
  BY BytesAssumption, PutAssumption DEF PutTypes
<1>2. Limit(s) \in Nat
  BY <1>1, LimitKinds DEF Limit
<1> QED
  BY <1>2, CapsKinds DEF KeptMax

\* A PUT is idle or has all it worked out.
LEMMA PutKinds ==
    ASSUME PutTypes, NEW p \in Putter
    PROVE  /\ put[p].pc = "idle" => put[p] = Idle
           /\ put[p].pc # "idle" => put[p] \in Busy
<1>1. put[p] = Idle \/ put[p] \in Busy
  BY DEF PutTypes, Busy
<1>2. Idle.pc = "idle"
  BY DEF Idle
<1>3. put[p] \in Busy => put[p].pc # "idle"
  BY DEF Busy
<1> QED
  BY <1>1, <1>2, <1>3

\* The next state of put when p goes from one step to the next.
LEMMA PcKinds ==
    ASSUME PutTypes, NEW p \in Putter, put[p].pc # "idle",
           NEW pc \in {"checked", "locked", "approved"},
           put' = [put EXCEPT ![p].pc = pc]
    PROVE  /\ put' \in [Putter -> {Idle} \cup Busy]
           /\ \A q \in Putter \ {p} : put'[q] = put[q]
           /\ put'[p] = [put[p] EXCEPT !.pc = pc]
<1>1. put \in [Putter -> {Idle} \cup Busy]
  BY DEF PutTypes, Busy
<1>2. put[p] \in Busy
  BY PutKinds
<1>3. [put[p] EXCEPT !.pc = pc] \in Busy
  BY <1>2 DEF Busy
<1>4. put' = [put EXCEPT ![p] = [put[p] EXCEPT !.pc = pc]]
  BY <1>1
<1> HIDE DEF Busy, Idle
<1> QED
  BY <1>1, <1>3, <1>4

\* A step that leaves the store, updates and the PUTs alone.
LEMMA OtherSteps ==
    ASSUME IInv, UNCHANGED <<settings, broken, config, updates, put>>,
           commits' \in Putter \cup Download \cup {Free}
    PROVE  IInv'
BY DEF IInv, PutTypes, PutInv, UpToDate, readSettings, Limit

\* What PutRead works out.
LEMMA ReadStep ==
    ASSUME IInv, NEW p \in Putter, NEW patch \in Patches, PutRead(p, patch)
    PROVE  IInv'
<1> DEFINE merged == Apply(patch, readSettings)
           rec == [pc |-> "checked", patch |-> patch, merged |-> merged, broken |-> broken,
                   before |-> KeptMax(readSettings), after |-> KeptMax(merged)]
<1>1. PutTypes /\ readSettings \in StorageSettings
  BY ReadKinds DEF IInv
<1>2. merged \in StorageSettings
  BY <1>1, ApplyKinds, PutAssumption
<1>3. KeptMax(readSettings) \in Nat /\ KeptMax(merged) \in Nat
  BY <1>1, <1>2, KeptMaxKinds
<1>4. rec \in Busy
  BY <1>1, <1>2, <1>3 DEF Busy, PutTypes
<1>5. put \in [Putter -> {Idle} \cup Busy]
  BY <1>1 DEF PutTypes, Busy
<1>6. /\ put' = [put EXCEPT ![p] = rec] /\ updates' = p
      /\ updates = Free
      /\ checkLimits(patch, merged, Limit(merged), DiskTotal) = ""
      /\ UNCHANGED <<settings, broken, config, commits>>
  BY DEF PutRead
<1>7. rec.patch = patch /\ rec.merged = merged /\ rec.broken = broken
  OBVIOUS
<1> HIDE DEF merged, rec
<1>8. put' \in [Putter -> {Idle} \cup Busy]
  <2> HIDE DEF Busy, Idle
  <2> QED
    BY <1>4, <1>5, <1>6
<1>9. PutTypes'
  BY <1>1, <1>6, <1>8 DEF PutTypes, Busy
<1>10. \A q \in Putter : put[q].pc = "idle"
  BY <1>6, PutAssumption DEF IInv, PutInv, UpToDate
<1>11. readSettings' = readSettings /\ \A s : Limit(s)' = Limit(s)
  BY <1>6 DEF readSettings, Limit
<1>12. put'[p] = rec /\ \A q \in Putter \ {p} : put'[q] = put[q]
  BY <1>5, <1>6
<1>13. UpToDate(p)'
  <2>1. put'[p].patch = patch /\ put'[p].merged = merged /\ put'[p].broken = broken
    BY <1>7, <1>12
  <2> QED
    BY <1>6, <1>11, <2>1 DEF UpToDate, merged, readSettings, Limit
<1>14. PutInv'
  BY <1>10, <1>12, <1>13 DEF PutInv
<1> QED
  BY <1>9, <1>14 DEF IInv

\* PutLock and PutApprove only move on.
LEMMA MoveStep ==
    ASSUME IInv, NEW p \in Putter, put[p].pc # "idle",
           NEW pc \in {"checked", "locked", "approved"},
           put' = [put EXCEPT ![p].pc = pc],
           UNCHANGED <<settings, broken, config, updates>>,
           commits' \in Putter \cup Download \cup {Free}
    PROVE  IInv'
<1>1. PutTypes
  BY DEF IInv
<1>2. /\ put' \in [Putter -> {Idle} \cup Busy]
      /\ \A q \in Putter \ {p} : put'[q] = put[q]
      /\ put'[p] = [put[p] EXCEPT !.pc = pc]
  BY <1>1, PcKinds
<1>3. PutTypes'
  BY <1>1, <1>2 DEF PutTypes, Busy
<1>4. put[p] \in Busy
  BY <1>1, PutKinds
<1>5. /\ put'[p].patch = put[p].patch /\ put'[p].merged = put[p].merged
      /\ put'[p].broken = put[p].broken
  BY <1>2, <1>4 DEF Busy
<1>6. UpToDate(p)'
  BY <1>5 DEF IInv, PutInv, UpToDate, readSettings, Limit
<1>7. \A q \in Putter \ {p} : put'[q].pc # "idle" => UpToDate(q)'
  BY <1>2 DEF IInv, PutInv, UpToDate, readSettings, Limit
<1>8. PutInv'
  BY <1>6, <1>7 DEF PutInv
<1> QED
  BY <1>3, <1>8 DEF IInv

\* A PUT that returns leaves no other behind: it held updates.
LEMMA ReturnStep ==
    ASSUME IInv, NEW p \in Putter, put[p].pc # "idle", PutReturns(p),
           settings' \in StorageSettings, broken' \in BOOLEAN
    PROVE  IInv'
<1>1. PutTypes /\ updates = p
  BY DEF IInv, PutInv, UpToDate
<1>2. \A q \in Putter \ {p} : put[q].pc = "idle"
  BY <1>1 DEF IInv, PutInv, UpToDate
<1>3. put \in [Putter -> {Idle} \cup Busy]
  BY <1>1 DEF PutTypes, Busy
<1>4. put' = [put EXCEPT ![p] = Idle]
  BY DEF PutReturns
<1>5. put' \in [Putter -> {Idle} \cup Busy] /\ put'[p] = Idle
      /\ \A q \in Putter \ {p} : put'[q] = put[q]
  <2> HIDE DEF Busy, Idle
  <2> QED
    BY <1>3, <1>4
<1>6. PutTypes'
  BY <1>1, <1>5 DEF PutTypes, PutReturns, Busy
<1>7. PutInv'
  BY <1>2, <1>5 DEF PutInv, Idle
<1> QED
  BY <1>6, <1>7 DEF IInv

\* What PutStore stores is what was checked.
LEMMA StoreIsMerged ==
    ASSUME IInv, NEW p \in Putter, PutStore(p)
    PROVE  /\ settings' = put[p].merged /\ readSettings' = put[p].merged
           /\ put[p] \in Busy /\ UpToDate(p)
<1>1. put[p].pc # "idle" /\ PutTypes
  BY DEF PutStore, IInv
<1>2. put[p] \in Busy /\ UpToDate(p)
  BY <1>1, PutKinds DEF IInv, PutInv
<1>3. settings' = Apply(put[p].patch, readSettings) /\ broken' = FALSE
  BY <1>2 DEF PutStore, UpToDate, readSettings
<1> QED
  BY <1>2, <1>3 DEF UpToDate, readSettings

LEMMA InvStep == IInv /\ [Next]_vars => IInv'
<1> SUFFICES ASSUME IInv, [Next]_vars PROVE IInv'
  OBVIOUS
<1>1. ASSUME NEW p \in Putter, NEW patch \in Patches, PutRead(p, patch) PROVE IInv'
  BY <1>1, ReadStep
<1>2. ASSUME NEW p \in Putter, PutLock(p) PROVE IInv'
  BY <1>2, MoveStep DEF PutLock
<1>3. ASSUME NEW p \in Putter, PutApprove(p) PROVE IInv'
  BY <1>3, MoveStep DEF PutApprove, IInv, PutTypes
<1>4. ASSUME NEW p \in Putter, PutRefuse(p) PROVE IInv'
  BY <1>4, ReturnStep DEF PutRefuse, IInv, PutTypes
<1>5. ASSUME NEW p \in Putter, PutStore(p) PROVE IInv'
  <2>1. put[p].merged \in StorageSettings
    BY <1>5, StoreIsMerged DEF Busy
  <2> QED
    BY <1>5, <2>1, StoreIsMerged, ReturnStep DEF PutStore
<1>6. ASSUME NEW d \in Download,
             \/ KeepResolves(d) \/ KeepPlans(d) \/ KeepAgain(d) \/ KeepRefuses(d)
             \/ KeepCreate(d) \/ KeepFails(d) \/ Release(d) \/ PassAfter(d)
      PROVE  IInv'
  BY <1>6, OtherSteps DEF KeepResolves, KeepPlans, KeepAgain, KeepRefuses, KeepCreate, KeepFails,
       Release, PassAfter, IInv, PutTypes
<1>7. ASSUME NEW f \in File, Assign(f) \/ Unassign(f) PROVE IInv'
  BY <1>7, OtherSteps DEF Assign, Unassign, IInv, PutTypes
<1>8. CASE Pass
  BY <1>8, OtherSteps DEF Pass, IInv, PutTypes
<1>9. ASSUME NEW c \in Configs, Restart(c) PROVE IInv'
  <2>1. PutTypes'
    BY <1>9 DEF Restart, IInv, PutTypes
  <2>2. \A p \in Putter : put'[p].pc = "idle"
    BY <1>9 DEF Restart, Idle
  <2> QED
    BY <2>1, <2>2 DEF IInv, PutInv
<1>10. CASE UNCHANGED vars
  BY <1>10, OtherSteps DEF vars, downloadVars, IInv, PutTypes
<1> QED
  BY <1>1, <1>2, <1>3, <1>4, <1>5, <1>6, <1>7, <1>8, <1>9, <1>10 DEF Next

LEMMA InvInit == Init => IInv
<1> SUFFICES ASSUME Init PROVE IInv
  OBVIOUS
<1>1. PutTypes
  BY DefaultKinds DEF Init, PutTypes
<1>2. PutInv
  BY DEF Init, PutInv, Idle
<1> QED
  BY <1>1, <1>2 DEF IInv

THEOREM InvHolds == Spec => []IInv
BY InvInit, InvStep, PTL DEF Spec

-----------------------------------------------------------------------------
\* Only PutStore changes the settings.
LEMMA OnlyStores ==
    ASSUME [Next]_vars, settings' # settings
    PROVE  \E p \in Putter : PutStore(p) /\ config' = config
BY DEF Next, vars, PutRead, PutLock, PutApprove, PutRefuse, PutStore, PutReturns,
       KeepResolves, KeepPlans, KeepAgain, KeepRefuses, KeepCreate, KeepFails,
       Release, PassAfter, Assign, Unassign, Pass, Restart,
       downloadVars

\* A PUT stores exactly the settings its checks were made of, however PUTs
\* and restarts interleave (governor.go:460-485).
THEOREM PutsStoreWhatTheyChecked == Spec => PutStoresWhatItChecked
<1>1. IInv /\ [Next]_vars =>
        (settings' # settings =>
           \E p \in Putter : put[p].pc = "approved" /\ settings' = put[p].merged)
  BY OnlyStores, StoreIsMerged DEF PutStore
<1>2. IInv /\ [Next]_vars => [settings' # settings =>
           \E p \in Putter : put[p].pc = "approved" /\ settings' = put[p].merged]_vars
  BY <1>1
<1> QED
  BY <1>2, InvHolds, PTL DEF Spec, PutStoresWhatItChecked

\* A PUT that sends the limit or the kept cap leaves both explicit caps
\* fitting, whatever was stored before (patch.go:193-215).
THEOREM AcceptedCapsFitHolds == Spec => AcceptedCapsFit
<1>1. ASSUME IInv, NEW p \in Putter, PutStore(p),
             put[p].patch.setLimit \/ put[p].patch.setKept
      PROVE  CapsFit(settings', LimitBytes(settings', config, DiskTotal))
  <2>1. /\ settings' = put[p].merged
        /\ checkLimits(put[p].patch, put[p].merged, Limit(put[p].merged), DiskTotal) = ""
        /\ put[p].patch \in StorageSettingsPatch
    BY <1>1, StoreIsMerged, PutAssumption DEF UpToDate, Busy
  <2> QED
    BY <1>1, <2>1, AcceptedFits DEF Limit
<1>2. IInv /\ [Next]_vars =>
        [settings' # settings =>
           \E p \in Putter :
              /\ put[p].pc = "approved"
              /\ put[p].patch.setLimit \/ put[p].patch.setKept =>
                   CapsFit(settings', LimitBytes(settings', config, DiskTotal))]_vars
  BY <1>1, OnlyStores DEF PutStore
<1> QED
  BY <1>2, InvHolds, PTL DEF Spec, AcceptedCapsFit

\* With one config.yaml, caps that fit go on fitting: a smart cap is checked
\* against the limit and the kept cap it is stored with.
LEMMA AcceptedKeepsFit ==
    ASSUME NEW s \in StorageSettings, NEW p \in StorageSettingsPatch,
           config \in Bytes,
           CapsFit(s, Limit(s)),
           checkLimits(p, Apply(p, s), Limit(Apply(p, s)), DiskTotal) = ""
    PROVE  CapsFit(Apply(p, s), Limit(Apply(p, s)))
<1> DEFINE m == Apply(p, s)
<1>1. CASE p.setLimit \/ p.setKept
  BY <1>1, AcceptedFits
<1>2. CASE ~p.setLimit /\ ~p.setKept /\ ~p.setSmart
  <2>1. m = s
    BY <1>2 DEF Apply, StorageSettings, StorageSettingsPatch
  <2> QED
    BY <2>1
<1>3. CASE ~p.setLimit /\ ~p.setKept /\ p.setSmart
  <2>1. m.limitSet = s.limitSet /\ m.limit = s.limit /\ m.kept = s.kept
    BY <1>3 DEF Apply, StorageSettings
  <2>2. Limit(m) = Limit(s)
    BY <2>1 DEF Limit, LimitBytes, WantedLimit
  <2>3. ~Unfit(m.kept, Room(Limit(m)))
    BY <2>1, <2>2 DEF CapsFit
  <2>4. ~Unfit(m.smart, Room(Limit(m)) - KeptMaxBytes(m, Limit(m)))
    BY <1>3, <2>3 DEF checkLimits
  <2> QED
    BY <2>3, <2>4 DEF CapsFit
<1> QED
  BY <1>1, <1>2, <1>3 DEF StorageSettingsPatch

\* While config.yaml stays as it is, caps that fit go on fitting after any
\* PUTs in any order (patch.go:179-182).
THEOREM CapsStayFitHolds == Spec => CapsStayFit
<1>1. ASSUME IInv, [Next]_vars, config' = config, CapsFit(readSettings, Limit(readSettings))
      PROVE  CapsFit(readSettings, Limit(readSettings))'
  <2>1. PutTypes /\ config \in Bytes
    BY <1>1, PutAssumption DEF IInv, PutTypes
  <2>2. ASSUME NEW p \in Putter, PutStore(p)
        PROVE  CapsFit(readSettings, Limit(readSettings))'
    <3>1. readSettings' = Apply(put[p].patch, readSettings)
      BY <1>1, <2>2, StoreIsMerged DEF UpToDate
    <3>2. checkLimits(put[p].patch, readSettings', Limit(readSettings'), DiskTotal) = ""
      BY <1>1, <2>2, StoreIsMerged DEF UpToDate
    <3>3. put[p].patch \in StorageSettingsPatch /\ readSettings \in StorageSettings
      BY <1>1, <2>1, <2>2, StoreIsMerged, ReadKinds, PutAssumption DEF Busy
    <3>4. CapsFit(readSettings', Limit(readSettings'))
      BY <1>1, <2>1, <3>1, <3>2, <3>3, AcceptedKeepsFit
    <3> QED
      BY <1>1, <3>4 DEF Limit
  <2>3. CASE UNCHANGED <<settings, broken>>
    BY <1>1, <2>3 DEF readSettings, Limit
  <2>4. UNCHANGED <<settings, broken>> \/ \E p \in Putter : PutStore(p)
    BY <1>1 DEF Next, vars, PutRead, PutLock, PutApprove, PutRefuse, PutReturns,
           KeepResolves, KeepPlans, KeepAgain, KeepRefuses, KeepCreate, KeepFails,
       Release, PassAfter, Assign, Unassign, Pass, Restart,
       downloadVars
  <2> QED
    BY <2>2, <2>3, <2>4
<1>2. IInv /\ [Next]_vars =>
        [config' = config /\ CapsFit(readSettings, Limit(readSettings)) =>
           CapsFit(readSettings, Limit(readSettings))']_vars
  BY <1>1
<1> QED
  BY <1>2, InvHolds, PTL DEF Spec, CapsStayFit

-----------------------------------------------------------------------------
(* Induction.  The finite sets are well-founded under strict inclusion, so *)
(* the sets 1..n of any set of naturals n have a least one.                *)

LEMMA Least ==
    ASSUME NEW T \in SUBSET Nat, T # {}
    PROVE  \E m \in T : \A n \in T : m <= n
<1> DEFINE I == {1..n : n \in T}
           R == StrictSubsetOrdering(Nat)
<1>1. IsWellFoundedOn(R, FiniteSubsetsOf(Nat))
  BY FS_StrictSubsetOrderingWellFounded
<1>2. \A n \in T : 1..n \in FiniteSubsetsOf(Nat)
  <2> TAKE n \in T
  <2>1. IsFiniteSet(1..n)
    BY FS_Interval, 1 \in Int, n \in Int
  <2> QED BY <2>1 DEF FiniteSubsetsOf
<1>3. I \subseteq FiniteSubsetsOf(Nat) /\ I # {}
  BY <1>2
<1> HIDE DEF R
<1>4. \E X \in I : \A Y \in I : <<Y, X>> \notin R
  <2> HIDE DEF I
  <2> QED BY <1>1, <1>3, WFMin
<1>5. PICK m \in T : \A n \in T : <<1..n, 1..m>> \notin R
  BY <1>4
<1>6. ASSUME NEW n \in T, n < m PROVE FALSE
  <2>1. 1..n \in SUBSET Nat /\ 1..m \in SUBSET Nat /\ 1..n \subseteq 1..m
    BY <1>6
  <2>2. m \in 1..m /\ m \notin 1..n
    BY <1>6
  <2>3. <<1..n, 1..m>> \in R
    BY <2>1, <2>2 DEF R, StrictSubsetOrdering
  <2> QED BY <1>5, <2>3
<1> QED BY <1>6

\* What holds of 0, and of n + 1 when of n, holds of all up to N: G is the
\* set of those it holds of.
LEMMA Climb ==
    ASSUME NEW N \in Nat, NEW G, 0 \in G, \A n \in 0..(N - 1) : n \in G => n + 1 \in G
    PROVE  \A n \in 0..N : n \in G
<1> SUFFICES ASSUME (0..N) \ G # {} PROVE FALSE
  OBVIOUS
<1> DEFINE T == (0..N) \ G
<1>1. PICK m \in T : \A n \in T : m <= n
  <2>1. T \in SUBSET Nat /\ T # {}
    OBVIOUS
  <2> QED BY <2>1, Least
<1>2. m \in 1..N /\ m \notin G
  OBVIOUS
<1>3. m - 1 \in 0..(N - 1) /\ m - 1 \in 0..N
  BY <1>2
<1>4. m - 1 \in G
  BY <1>1, <1>2, <1>3
<1> QED BY <1>2, <1>3, <1>4

\* f is what the recursive definition f[n] = step[f[n - 1], n] gives up to N.
Follows(f, V, base, N, step) ==
    f \in [0..N -> V] /\ f[0] = base /\ \A n \in 1..N : f[n] = step[<<f[n - 1], n>>]

LEMMA RecursionExists ==
    ASSUME NEW V, NEW base \in V, NEW N \in Nat, NEW step \in [V \X (1..N) -> V]
    PROVE  \E f : Follows(f, V, base, N, step)
<1> DEFINE Partial(f, m) ==
               f \in [0..m -> V] /\ f[0] = base /\ \A n \in 1..m : f[n] = step[<<f[n - 1], n>>]
           G == {m \in 0..N : \E f : Partial(f, m)}
<1>1. 0 \in G
  <2> DEFINE f == [n \in 0..0 |-> base]
  <2>1. Partial(f, 0)
    OBVIOUS
  <2> HIDE DEF Partial, f
  <2> QED BY <2>1
<1>2. ASSUME NEW m \in 0..(N - 1), m \in G
      PROVE  m + 1 \in G
  <2>1. PICK f : Partial(f, m)
    BY <1>2
  <2> DEFINE next == step[<<f[m], m + 1>>]
             g == [n \in 0..(m + 1) |-> IF n = m + 1 THEN next ELSE f[n]]
  <2>2. f[m] \in V /\ m + 1 \in 1..N
    BY <2>1
  <2>3. next \in V
    BY <2>2
  <2> HIDE DEF next
  <2>4. g \in [0..(m + 1) -> V] /\ g[0] = base
    BY <2>1, <2>3
  <2>5. ASSUME NEW n \in 1..(m + 1)
        PROVE  g[n] = step[<<g[n - 1], n>>]
    <3>1. g[n - 1] = f[n - 1] /\ (m + 1) - 1 = m
      BY <2>5
    <3>2. CASE n = m + 1
      <4>1. n - 1 = m /\ g[n] = next
        BY <3>1, <3>2
      <4>2. next = step[<<f[n - 1], n>>]
        BY <3>2, <4>1 DEF next
      <4> QED BY <3>1, <4>1, <4>2
    <3>3. CASE n \in 1..m
      BY <2>1, <3>1, <3>3
    <3> QED BY <3>2, <3>3
  <2>6. Partial(g, m + 1)
    BY <2>4, <2>5
  <2> HIDE DEF Partial, g
  <2> QED BY <2>2, <2>6
<1>3. N \in G
  <2> HIDE DEF G
  <2>1. \A m \in 0..N : m \in G
    BY <1>1, <1>2, Climb
  <2> QED BY <2>1
<1> QED BY <1>3 DEF Follows

-----------------------------------------------------------------------------
(* Admission.  A run has what is admitted after each candidate.            *)

Tally == [files : SUBSET File, bytes : Nat,
          admitted : SUBSET (Download \X File), overCap : SUBSET (Download \X File)]

Runs(a, queue, max, free) ==
    /\ a \in [0..Len(queue) -> Tally]
    /\ a[0] = A!NothingAdmitted
    /\ \A n \in 1..Len(queue) : a[n] = A!AdmitNext(a[n - 1], queue[n], max, free)

LEMMA AdmitKinds ==
    ASSUME NEW a \in Tally, NEW c \in Candidate, NEW max \in Nat, NEW free
    PROVE  A!AdmitNext(a, c, max, free) \in Tally
<1>1. a.bytes + c.size \in Nat /\ <<c.download, c.file>> \in Download \X File
  BY DEF Tally, Candidate
<1>2. /\ a.admitted \cup {<<c.download, c.file>>} \in SUBSET (Download \X File)
      /\ a.overCap \cup {<<c.download, c.file>>} \in SUBSET (Download \X File)
      /\ a.files \cup {c.file} \in SUBSET File
  BY <1>1 DEF Tally, Candidate
<1> QED BY <1>1, <1>2 DEF A!AdmitNext, Tally

\* What a candidate changes of the files and bytes.
LEMMA AdmitFields ==
    ASSUME NEW a \in Tally, NEW c \in Candidate, NEW max \in Nat, NEW free
    PROVE  LET b == A!AdmitNext(a, c, max, free) IN
           /\ c.file \in a.files \cup free => b.files = a.files /\ b.bytes = a.bytes
           /\ c.file \notin a.files \cup free /\ a.bytes + c.size <= max =>
                b.files = a.files \cup {c.file} /\ b.bytes = a.bytes + c.size
           /\ c.file \notin a.files \cup free /\ ~(a.bytes + c.size <= max) =>
                b.files = a.files /\ b.bytes = a.bytes
BY DEF A!AdmitNext, Tally

LEMMA RunExists ==
    ASSUME NEW queue \in Seq(Candidate), NEW max \in Nat, NEW free
    PROVE  \E a : Runs(a, queue, max, free)
<1> DEFINE N == Len(queue)
           step == [v \in Tally \X (1..N) |-> A!AdmitNext(v[1], queue[v[2]], max, free)]
<1>1. N \in Nat /\ \A n \in 1..N : queue[n] \in Candidate
  OBVIOUS
<1> HIDE DEF N
<1>2. \A v \in Tally \X (1..N) : A!AdmitNext(v[1], queue[v[2]], max, free) \in Tally
  BY <1>1, AdmitKinds
<1>3. step \in [Tally \X (1..N) -> Tally]
  BY <1>2
<1>4. \A v \in Tally, n \in 1..N : step[<<v, n>>] = A!AdmitNext(v, queue[n], max, free)
  OBVIOUS
<1>5. A!NothingAdmitted \in Tally
  BY DEF A!NothingAdmitted, Tally
<1> DEFINE base == A!NothingAdmitted
<1> HIDE DEF step, base
<1>6. PICK f : Follows(f, Tally, base, N, step)
  <2>1. base \in Tally
    BY <1>5 DEF base
  <2> QED BY <1>1, <1>3, <2>1, RecursionExists
<1>7. \A n \in 1..N : f[n] = A!AdmitNext(f[n - 1], queue[n], max, free)
  <2> TAKE n \in 1..N
  <2>1. n - 1 \in 0..N
    BY <1>1
  <2> QED BY <1>4, <1>6, <2>1 DEF Follows
<1> QED BY <1>6, <1>7 DEF Follows, Runs, N, base

\* Runs of two queues that begin alike are alike as far.
LEMMA RunsAgree ==
    ASSUME NEW q1 \in Seq(Candidate), NEW q2 \in Seq(Candidate), NEW max \in Nat, NEW free,
           NEW a, NEW b, Runs(a, q1, max, free), Runs(b, q2, max, free), NEW m \in Nat,
           m <= Len(q1), m <= Len(q2), \A n \in 1..m : q1[n] = q2[n]
    PROVE  \A n \in 0..m : a[n] = b[n]
<1> DEFINE G == {n \in 0..m : a[n] = b[n]}
<1>1. 0 \in G
  BY DEF Runs
<1>2. ASSUME NEW n \in 0..(m - 1), n \in G
      PROVE  n + 1 \in G
  <2>1. n + 1 \in 1..m /\ n + 1 \in 1..Len(q1) /\ n + 1 \in 1..Len(q2) /\ (n + 1) - 1 = n
    OBVIOUS
  <2>2. a[n + 1] = b[n + 1]
    BY <1>2, <2>1 DEF Runs
  <2> QED BY <2>1, <2>2
<1>3. \A n \in 0..m : n \in G
  <2> HIDE DEF G
  <2> QED BY <1>1, <1>2, Climb
<1> QED BY <1>3

\* AdmitQueue is what a run ends with.
LEMMA QueueRuns ==
    ASSUME NEW queue \in Seq(Candidate), NEW max \in Nat, NEW free, NEW a, Runs(a, queue, max,
           free)
    PROVE  A!AdmitQueue(queue, max, free) = a[Len(queue)]
<1> DEFINE N == Len(queue)
           Grown(f, n) == IF n = 0 THEN A!NothingAdmitted
                          ELSE A!AdmitNext(f[n - 1], queue[n], max, free)
           after == CHOOSE f : f = [n \in 0..N |-> Grown(f, n)]
<1>1. N \in Nat
  OBVIOUS
<1>2. A!AdmitQueue(queue, max, free) = after[N]
  BY DEF A!AdmitQueue
<1>3. a = [n \in 0..N |-> Grown(a, n)]
  BY DEF Runs
<1>4. after = [n \in 0..N |-> Grown(after, n)]
  <2> HIDE DEF Grown
  <2> QED BY <1>3
<1> HIDE DEF N, after
<1> DEFINE G == {n \in 0..N : after[n] = a[n]}
<1>5. 0 \in G
  BY <1>1, <1>3, <1>4
<1>6. ASSUME NEW n \in 0..(N - 1), n \in G
      PROVE  n + 1 \in G
  <2>1. n + 1 \in 0..N /\ (n + 1) - 1 = n /\ n + 1 # 0
    BY <1>1
  <2>2. after[n + 1] = Grown(after, n + 1) /\ a[n + 1] = Grown(a, n + 1)
    BY <1>3, <1>4, <2>1
  <2> QED BY <1>6, <2>1, <2>2
<1>7. N \in G
  <2> HIDE DEF G
  <2>1. \A n \in 0..N : n \in G
    BY <1>1, <1>5, <1>6, Climb
  <2> QED BY <1>1, <2>1
<1> QED BY <1>2, <1>7 DEF N

\* What is admitted stays under the cap and never shrinks along a run.
LEMMA RunGrows ==
    ASSUME NEW queue \in Seq(Candidate), NEW max \in Nat, NEW free, NEW a, Runs(a, queue, max,
           free),
           NEW n \in 0..Len(queue)
    PROVE  a[n] \in Tally /\ a[n].bytes <= max /\ a[n].bytes <= a[Len(queue)].bytes
<1> DEFINE N == Len(queue)
<1>1. N \in Nat /\ \A k \in 1..N : queue[k] \in Candidate
  OBVIOUS
<1>2. \A k \in 0..N : a[k] \in Tally
  BY DEF Runs
<1>3. ASSUME NEW k \in 0..(N - 1)
      PROVE  /\ k \in 0..N /\ k + 1 \in 0..N /\ a[k].bytes \in Nat /\ a[k + 1].bytes \in Nat
             /\ a[k].bytes <= a[k + 1].bytes
             /\ a[k + 1].bytes = a[k].bytes \/ a[k + 1].bytes <= max
  <2>1. k \in 0..N /\ k + 1 \in 1..N /\ (k + 1) - 1 = k
    BY <1>1
  <2>2. a[k + 1] = A!AdmitNext(a[k], queue[k + 1], max, free)
    BY <2>1 DEF Runs
  <2>3. a[k] \in Tally /\ queue[k + 1] \in Candidate
    BY <1>1, <1>2, <2>1
  <2>4. \/ a[k + 1].bytes = a[k].bytes
        \/ a[k + 1].bytes = a[k].bytes + queue[k + 1].size /\ a[k].bytes + queue[k + 1].size <= max
    BY <2>2, <2>3, AdmitFields
  <2>5. a[k].bytes \in Nat /\ queue[k + 1].size \in Nat
    BY <2>3 DEF Tally, Candidate
  <2> QED BY <2>1, <2>4, <2>5
<1> HIDE DEF N
<1> DEFINE G == {k \in 0..N : a[k].bytes <= max /\ \A j \in 0..k : a[j].bytes <= a[k].bytes}
<1>4. a[0].bytes = 0
  BY DEF Runs, A!NothingAdmitted
<1>5. 0 \in G
  BY <1>1, <1>4
<1>6. ASSUME NEW k \in 0..(N - 1), k \in G
      PROVE  k + 1 \in G
  <2>1. a[k + 1].bytes <= max
    BY <1>3, <1>6
  <2>2. ASSUME NEW j \in 0..(k + 1) PROVE a[j].bytes <= a[k + 1].bytes
    <3>1. CASE j = k + 1
      BY <1>3, <3>1
    <3>2. CASE j \in 0..k
      <4>1. j \in 0..N /\ a[j].bytes \in Nat
        BY <1>1, <1>2, <3>2 DEF Tally
      <4> QED BY <1>3, <1>6, <3>2, <4>1
    <3> QED BY <1>1, <3>1, <3>2
  <2> QED BY <1>3, <2>1, <2>2
<1>7. \A k \in 0..N : k \in G
  <2> HIDE DEF G
  <2> QED BY <1>1, <1>5, <1>6, Climb
<1>8. n \in G /\ N \in G /\ n \in 0..N
  BY <1>1, <1>7 DEF N
<1> QED BY <1>2, <1>8 DEF N

\* A lower cap that holds all that is admitted admits the same.
LEMMA LowerCapSpares ==
    ASSUME NEW queue \in Seq(Candidate), NEW max \in Nat, NEW free, NEW low \in Nat,
           NEW a, NEW b, Runs(a, queue, max, free), Runs(b, queue, low, free),
           low <= max, a[Len(queue)].bytes <= low
    PROVE  \A n \in 0..Len(queue) : a[n] = b[n]
<1> DEFINE N == Len(queue)
           G == {n \in 0..N : a[n] = b[n]}
<1>1. N \in Nat /\ \A k \in 1..N : queue[k] \in Candidate
  OBVIOUS
<1>2. \A k \in 0..N : a[k] \in Tally /\ a[k].bytes <= a[N].bytes
  BY RunGrows
<1>3. 0 \in G
  BY <1>1 DEF Runs
<1>4. ASSUME NEW n \in 0..(N - 1), n \in G
      PROVE  n + 1 \in G
  <2>1. n \in 0..N /\ n + 1 \in 0..N /\ n + 1 \in 1..N /\ (n + 1) - 1 = n
    BY <1>1
  <2>2. /\ a[n + 1] = A!AdmitNext(a[n], queue[n + 1], max, free)
        /\ b[n + 1] = A!AdmitNext(a[n], queue[n + 1], low, free)
    BY <1>4, <2>1 DEF Runs
  <2>3. /\ a[n] \in Tally /\ a[n + 1] \in Tally /\ queue[n + 1] \in Candidate
        /\ a[n].bytes \in Nat /\ queue[n + 1].size \in Nat
    BY <1>1, <1>2, <2>1 DEF Tally, Candidate
  <2>4. a[n + 1].bytes <= low
    <3>1. a[n + 1].bytes <= a[N].bytes /\ a[N].bytes <= low /\ a[N].bytes \in Nat /\ a[n + 1].bytes \in Nat
      BY <1>1, <1>2, <2>1 DEF Tally
    <3> QED BY <3>1
  <2>5. queue[n + 1].file \notin a[n].files \cup free =>
          (a[n].bytes + queue[n + 1].size <= max <=> a[n].bytes + queue[n + 1].size <= low)
    <3>1. queue[n + 1].file \notin a[n].files \cup free /\ a[n].bytes + queue[n + 1].size <= max =>
             a[n + 1].bytes = a[n].bytes + queue[n + 1].size
      BY <2>2, <2>3, AdmitFields
    <3> QED BY <2>3, <2>4, <3>1
  <2>6. a[n + 1] = b[n + 1]
    BY <2>2, <2>5 DEF A!AdmitNext
  <2> QED BY <2>1, <2>6
<1>5. \A n \in 0..N : n \in G
  <2> HIDE DEF G
  <2>1. N \in Nat
    OBVIOUS
  <2> HIDE DEF N
  <2> QED BY <1>3, <1>4, <2>1, Climb
<1> QED BY <1>5

\* What is admitted of a queue is within its cap.
LEMMA QueueFits ==
    ASSUME NEW queue \in Seq(Candidate), NEW max \in Nat, NEW free
    PROVE  A!AdmitQueue(queue, max, free).bytes \in 0..max
<1>1. PICK a : Runs(a, queue, max, free)
  BY RunExists
<1>2. Len(queue) \in 0..Len(queue)
  OBVIOUS
<1>3. a[Len(queue)] \in Tally /\ a[Len(queue)].bytes <= max
  BY <1>1, <1>2, RunGrows
<1> QED BY <1>1, <1>3, QueueRuns DEF Tally

\* However many files wait in whatever order, what is admitted of kept and
\* smart downloads leaves the streaming reserve of the limit free, whatever
\* caps are stored (planner.go:326-330).
THEOREM AdmittedLeavesTheReserve ==
    ASSUME NEW s \in StorageSettings, NEW disk \in Nat,
           NEW keptQueue \in Seq(Candidate), NEW smartQueue \in Seq(Candidate)
    PROVE  LET adm == A!admit(keptQueue, smartQueue, KeptMaxBytes(s, disk), SmartMaxBytes(s, disk))
           IN  adm.committedKept + adm.committedSmart <= Room(disk)
<1> DEFINE k == A!AdmitQueue(keptQueue, KeptMaxBytes(s, disk), {})
           m == A!AdmitQueue(smartQueue, SmartMaxBytes(s, disk), k.files)
<1>1. /\ KeptMaxBytes(s, disk) \in Nat /\ SmartMaxBytes(s, disk) \in Nat /\ Room(disk) \in Nat
      /\ KeptMaxBytes(s, disk) + SmartMaxBytes(s, disk) <= Room(disk)
  BY CapsKinds, ReserveKinds
<1>2. k.bytes \in 0..KeptMaxBytes(s, disk) /\ m.bytes \in 0..SmartMaxBytes(s, disk)
  BY <1>1, QueueFits
<1>3. LET adm == A!admit(keptQueue, smartQueue, KeptMaxBytes(s, disk), SmartMaxBytes(s, disk))
      IN  adm.committedKept = k.bytes /\ adm.committedSmart = m.bytes
  BY DEF A!admit
<1> HIDE DEF k, m
<1> QED BY <1>1, <1>2, <1>3

\* The files and bytes of a Keep that fits: those of d are admitted one by
\* one behind what was admitted before.
LEMMA BytesOfOne ==
    ASSUME NEW f \in File, NEW files, IsFiniteSet(UNION {{g} \X (1..Size[g]) : g \in files}),
           f \notin files
    PROVE  /\ IsFiniteSet(UNION {{g} \X (1..Size[g]) : g \in files \cup {f}})
           /\ Bytesof(files \cup {f}) = Bytesof(files) + Size[f]
           /\ Bytesof(files) \in Nat
<1> DEFINE B == UNION {{g} \X (1..Size[g]) : g \in files}
           one == {f} \X (1..Size[f])
           number == [i \in 1..Size[f] |-> <<f, i>>]
<1>1. Size[f] \in Nat
  BY PutAssumption
<1>2. IsFiniteSet(1..Size[f]) /\ Cardinality(1..Size[f]) = Size[f]
  BY <1>1, FS_Interval, 1 \in Int, Size[f] \in Int
<1>3. number \in Bijection(1..Size[f], one)
  BY DEF Bijection, Injection, Surjection, IsInjective
<1>4. IsFiniteSet(one) /\ Cardinality(one) = Size[f]
  BY <1>2, <1>3, FS_Bijection DEF ExistsBijection
<1>5. B \cap one = {}
  OBVIOUS
<1>6. UNION {{g} \X (1..Size[g]) : g \in files \cup {f}} = B \cup one
  OBVIOUS
<1> HIDE DEF B, one
<1>7. /\ IsFiniteSet(B \cup one)
      /\ Cardinality(B \cup one) = Cardinality(B) + Cardinality(one) - Cardinality(B \cap one)
      /\ Cardinality(B) \in Nat
  BY <1>4, FS_Union, FS_CardinalityType DEF B
<1>8. Cardinality(B \cap one) = 0
  BY <1>5, FS_EmptySet
<1>9. Bytesof(files) = Cardinality(B) /\ Bytesof(files \cup {f}) = Cardinality(B \cup one)
  BY <1>6 DEF Bytesof, B
<1>10. IsFiniteSet(UNION {{g} \X (1..Size[g]) : g \in files \cup {f}})
  BY <1>6, <1>7
<1> QED BY <1>1, <1>4, <1>7, <1>8, <1>9, <1>10

LEMMA FewerBytes ==
    ASSUME NEW more, NEW fewer \in SUBSET more,
           IsFiniteSet(UNION {{g} \X (1..Size[g]) : g \in more})
    PROVE  Bytesof(fewer) <= Bytesof(more)
<1>1. (UNION {{g} \X (1..Size[g]) : g \in fewer}) \in SUBSET (UNION {{g} \X (1..Size[g]) : g \in more})
  OBVIOUS
<1> QED BY <1>1, FS_Subset DEF Bytesof

\* The files up to the kth.
FirstOf(files, k) == {files[i] : i \in 1..k}

LEMMA CandidateKinds ==
    ASSUME NEW d \in Download, NEW files \in Seq(File)
    PROVE  /\ Candidates(d, files) \in Seq(Candidate) /\ Len(Candidates(d, files)) = Len(files)
           /\ \A i \in 1..Len(files) :
                /\ Candidates(d, files)[i].file = files[i]
                /\ Candidates(d, files)[i].size = Size[files[i]]
<1>1. Len(files) \in Nat /\ \A i \in 1..Len(files) : files[i] \in File
  OBVIOUS
<1>2. Candidates(d, files) = [i \in 1..Len(files) |-> [download |-> d, file |-> files[i], size |-> Size[files[i]]]]
  BY DEF Candidates
<1>3. \A i \in 1..Len(files) :
        [download |-> d, file |-> files[i], size |-> Size[files[i]]] \in Candidate
  BY <1>1, PutAssumption DEF Candidate
<1>4. Candidates(d, files) \in [1..Len(files) -> Candidate]
  BY <1>2, <1>3
<1>5. Candidates(d, files) \in Seq(Candidate)
  BY <1>1, <1>4, SeqDef
<1> QED BY <1>1, <1>2, <1>4, <1>5

\* When what d still lacks fits beside what is admitted, all of d is
\* admitted behind it, and nothing else changes.
LEMMA KeepFits ==
    ASSUME NEW d \in Download, NEW files \in Seq(File), NEW queue \in Seq(Candidate), NEW max \in Nat,
           Bytesof(FirstOf(files, Len(files)) \ A!AdmitQueue(queue, max, {}).files)
             <= Greater(0, max - A!AdmitQueue(queue, max, {}).bytes)
    PROVE  A!AdmitQueue(queue \o Candidates(d, files), max, {}).files
             = A!AdmitQueue(queue, max, {}).files \cup FirstOf(files, Len(files))
<1> DEFINE more == queue \o Candidates(d, files)
           m == Len(queue)
           K == Len(files)
<1>1. /\ files \in Seq(File) /\ K \in Nat /\ m \in Nat
      /\ \A k \in 1..K : files[k] \in File /\ Size[files[k]] \in Nat
  <2>1. \A k \in 1..K : files[k] \in File
    OBVIOUS
  <2> QED BY <2>1, PutAssumption
<1>2. /\ more \in Seq(Candidate) /\ Len(more) = m + K
      /\ \A n \in 1..m : more[n] = queue[n]
      /\ \A k \in 1..K : more[m + k] = Candidates(d, files)[k]
  <2>1. Candidates(d, files) \in Seq(Candidate) /\ Len(Candidates(d, files)) = K
    BY <1>1, CandidateKinds
  <2> DEFINE tail == Candidates(d, files)
  <2> HIDE DEF tail
  <2>2. tail \in Seq(Candidate) /\ Len(tail) = K
    BY <2>1 DEF tail
  <2>3. /\ queue \o tail \in Seq(Candidate) /\ Len(queue \o tail) = m + K
        /\ \A n \in 1..(m + K) : (queue \o tail)[n] = IF n <= m THEN queue[n] ELSE tail[n - m]
    <3>1. /\ queue \o tail \in Seq(Candidate) /\ Len(queue \o tail) = Len(queue) + Len(tail)
          /\ \A i \in 1..Len(queue) + Len(tail) :
               (queue \o tail)[i] = IF i <= Len(queue) THEN queue[i] ELSE tail[i - Len(queue)]
      BY <2>2, ConcatProperties, Zenon
    <3> QED BY <2>2, <3>1
  <2>4. \A n \in 1..m : (queue \o tail)[n] = queue[n]
    BY <1>1, <2>3
  <2>5. \A k \in 1..K : (queue \o tail)[m + k] = tail[k]
    <3> TAKE k \in 1..K
    <3>1. m + k \in 1..(m + K) /\ ~(m + k <= m) /\ (m + k) - m = k
      BY <1>1
    <3> QED BY <2>3, <3>1
  <2> QED BY <2>3, <2>4, <2>5 DEF tail
<1>3. \A k \in 1..K : /\ more[m + k] \in Candidate /\ more[m + k].file = files[k]
                      /\ more[m + k].size = Size[files[k]]
  <2> TAKE k \in 1..K
  <2>1. m + k \in 1..Len(more)
    BY <1>1, <1>2
  <2>2. more[m + k] \in Candidate
    BY <1>2, <2>1, ElementOfSeq
  <2> QED BY <1>1, <1>2, <2>2, CandidateKinds
<1> HIDE DEF more
<1> DEFINE none == {}
<1> HIDE DEF none
<1>4. PICK a : Runs(a, queue, max, none)
  BY RunExists
<1>5. PICK b : Runs(b, more, max, none)
  BY <1>2, RunExists
<1>6. A!AdmitQueue(queue, max, none) = a[m] /\ A!AdmitQueue(more, max, none) = b[m + K]
  <2>1. A!AdmitQueue(queue, max, none) = a[m]
    BY <1>4, QueueRuns
  <2>2. more \in Seq(Candidate) /\ Len(more) = m + K
    BY <1>2
  <2>3. A!AdmitQueue(more, max, none) = b[Len(more)]
    BY <1>5, <2>2, QueueRuns
  <2> QED BY <2>1, <2>2, <2>3
<1>7. b[m] = a[m] /\ a[m] \in Tally /\ a[m].bytes <= max
  <2>1. b[m] = a[m]
    <3>1. m <= Len(queue) /\ m <= Len(more) /\ more \in Seq(Candidate) /\ m \in Nat
      BY <1>1, <1>2
    <3>2. \A n \in 1..m : queue[n] = more[n]
      BY <1>2
    <3> HIDE DEF m
    <3>3. \A n \in 0..m : a[n] = b[n]
      BY <1>4, <1>5, <3>1, <3>2, RunsAgree
    <3>4. m \in 0..m
      BY <3>1
    <3> QED BY <3>3, <3>4
  <2>2. m \in 0..m
    BY <1>1
  <2> QED BY <1>4, <2>1, <2>2, RunGrows
<1> HIDE DEF m, K
<1> DEFINE held == a[m].files
           lacks(k) == FirstOf(files, k) \ held
           Blocks(k) == UNION {{g} \X (1..Size[g]) : g \in lacks(k)}
           G == {k \in 0..K : /\ b[m + k].files = held \cup FirstOf(files, k)
                              /\ b[m + k].bytes = a[m].bytes + Bytesof(lacks(k))
                              /\ IsFiniteSet(Blocks(k))}
<1>8. held \subseteq File /\ a[m].bytes \in Nat
  BY <1>7 DEF Tally
<1>9. FirstOf(files, 0) = {} /\ \A k \in 0..(K - 1) : FirstOf(files, k + 1) = FirstOf(files, k) \cup {files[k + 1]}
  <2>1. FirstOf(files, 0) = {}
    BY DEF FirstOf
  <2>2. ASSUME NEW k \in 0..(K - 1)
        PROVE  FirstOf(files, k + 1) = FirstOf(files, k) \cup {files[k + 1]}
    <3>1. 1..(k + 1) = (1..k) \cup {k + 1}
      BY <1>1
    <3> QED BY <3>1 DEF FirstOf
  <2> QED BY <2>1, <2>2
<1>10. Bytesof({}) = 0 /\ IsFiniteSet(UNION {{g} \X (1..Size[g]) : g \in {}})
  <2>1. UNION {{g} \X (1..Size[g]) : g \in {}} = {}
    OBVIOUS
  <2> QED BY <2>1, FS_EmptySet DEF Bytesof
<1>11. \A k \in 0..K : m + k \in Nat /\ m + k \in 0..Len(more) /\ b[m + k] \in Tally
  <2> TAKE k \in 0..K
  <2>1. m + k \in Nat /\ m + k \in 0..Len(more)
    BY <1>1, <1>2
  <2> QED BY <1>2, <1>5, <2>1, RunGrows
\* The whole of what is lacking has bytes as well, whatever their number.
<1>12. \A k \in 0..K : IsFiniteSet(Blocks(k)) /\ Bytesof(lacks(k)) \in Nat
  <2> DEFINE F == {k \in 0..K : IsFiniteSet(Blocks(k))}
  <2>1. 0 \in F
    <3>1. \A g : g \notin lacks(0)
      BY <1>9
    <3>2. \A x : x \notin Blocks(0)
      BY <3>1
    <3> HIDE DEF Blocks
    <3>3. Blocks(0) = {}
      BY <3>2
    <3>4. IsFiniteSet(Blocks(0))
      BY <3>3, FS_EmptySet, Zenon
    <3> QED BY <1>1, <3>4
  <2>2. ASSUME NEW k \in 0..(K - 1), k \in F
        PROVE  k + 1 \in F
    <3>1. k + 1 \in 1..K /\ k + 1 \in 0..K /\ files[k + 1] \in File
      BY <1>1
    <3>2. CASE files[k + 1] \in held \cup FirstOf(files, k)
      <4>1. lacks(k + 1) = lacks(k)
        BY <1>9, <3>2
      <4> QED BY <2>2, <3>1, <4>1
    <3>3. CASE files[k + 1] \notin held \cup FirstOf(files, k)
      <4>1. lacks(k + 1) = lacks(k) \cup {files[k + 1]} /\ files[k + 1] \notin lacks(k)
        BY <1>9, <3>3
      <4> HIDE DEF lacks
      <4>2. IsFiniteSet(Blocks(k + 1))
        BY <2>2, <3>1, <4>1, BytesOfOne
      <4> QED BY <3>1, <4>2
    <3> QED BY <3>2, <3>3
  <2>3. \A k \in 0..K : k \in F
    <3> HIDE DEF F
    <3> QED BY <1>1, <2>1, <2>2, Climb
  <2>4. \A k \in 0..K : IsFiniteSet(Blocks(k))
    BY <2>3
  <2> QED BY <2>4, FS_CardinalityType DEF Bytesof
<1>13. Bytesof(lacks(K)) <= max - a[m].bytes
  <2>1. Bytesof(lacks(K)) <= Greater(0, max - a[m].bytes)
    BY <1>6 DEF K, m, none
  <2> QED BY <1>7, <1>8, <2>1 DEF Greater
<1>14. 0 \in G
  <2> HIDE DEF lacks, Blocks
  <2>1. Bytesof(lacks(0)) = 0
    <3>1. lacks(0) = {}
      BY <1>9 DEF lacks
    <3> QED BY <1>10, <3>1, Zenon
  <2>2. m + 0 = m /\ 0 \in 0..K
    BY <1>1
  <2>3. b[m + 0].files = held \cup FirstOf(files, 0)
    BY <1>7, <1>9, <2>2
  <2>4. b[m + 0].bytes = a[m].bytes + Bytesof(lacks(0))
    <3>1. b[m + 0].bytes = a[m].bytes
      BY <1>7, <2>2, Zenon
    <3>2. a[m].bytes = a[m].bytes + 0
      BY <1>8
    <3> QED BY <2>1, <3>1, <3>2, Zenon
  <2>5. IsFiniteSet(Blocks(0))
    BY <1>12, <2>2, Zenon
  <2> QED BY <2>2, <2>3, <2>4, <2>5
<1>15. ASSUME NEW k \in 0..(K - 1), k \in G
       PROVE  k + 1 \in G
  <2> DEFINE f == files[k + 1]
  <2>1. k + 1 \in 1..K /\ k + 1 \in 0..K /\ k \in 0..K /\ (m + (k + 1)) - 1 = m + k
    BY <1>1
  <2>2. f \in File /\ Size[f] \in Nat
    BY <1>1, <2>1
  <2>3. b[m + (k + 1)] = A!AdmitNext(b[m + k], more[m + (k + 1)], max, none)
    <3>1. m + (k + 1) \in 1..Len(more)
      BY <1>1, <1>2, <2>1
    <3> QED BY <1>5, <2>1, <3>1 DEF Runs
  <2>4. /\ more[m + (k + 1)] \in Candidate /\ more[m + (k + 1)].file = f
        /\ more[m + (k + 1)].size = Size[f]
    BY <1>3, <2>1
  <2>5. b[m + k] \in Tally /\ b[m + k].bytes \in Nat
    BY <1>11, <2>1 DEF Tally
  <2>6. /\ b[m + k].files = held \cup FirstOf(files, k)
        /\ b[m + k].bytes = a[m].bytes + Bytesof(lacks(k))
    BY <1>15
  <2>7. FirstOf(files, k + 1) = FirstOf(files, k) \cup {f}
    BY <1>9
  <2>8. IsFiniteSet(Blocks(k)) /\ IsFiniteSet(Blocks(k + 1)) /\ IsFiniteSet(Blocks(K))
        /\ Bytesof(lacks(k)) \in Nat /\ Bytesof(lacks(k + 1)) \in Nat /\ Bytesof(lacks(K)) \in Nat
    <3> HIDE DEF lacks, Blocks
    <3>1. K \in 0..K
      BY <1>1
    <3> QED BY <1>12, <2>1, <3>1
  <2> HIDE DEF f
  <2>9. CASE f \in held \cup FirstOf(files, k)
    <3>1. lacks(k + 1) = lacks(k) /\ held \cup FirstOf(files, k + 1) = held \cup FirstOf(files, k)
      BY <2>7, <2>9
    <3>2. b[m + (k + 1)].files = b[m + k].files /\ b[m + (k + 1)].bytes = b[m + k].bytes
      BY <2>3, <2>4, <2>5, <2>6, <2>9, AdmitFields
    <3> QED BY <2>1, <2>6, <2>8, <3>1, <3>2
  <2>10. CASE f \notin held \cup FirstOf(files, k)
    <3>1. lacks(k + 1) = lacks(k) \cup {f} /\ f \notin lacks(k)
      BY <2>7, <2>10
    <3>2. lacks(k + 1) \subseteq lacks(K)
      <4>1. FirstOf(files, k + 1) \subseteq FirstOf(files, K)
        BY <1>1, <2>1 DEF FirstOf
      <4> QED BY <4>1
    <3> HIDE DEF lacks
    <3>3. Bytesof(lacks(k + 1)) = Bytesof(lacks(k)) + Size[f]
      BY <2>2, <2>8, <3>1, BytesOfOne
    <3>4. Bytesof(lacks(k + 1)) <= Bytesof(lacks(K))
      BY <2>8, <3>2, FewerBytes
    <3>5. b[m + k].bytes + Size[f] <= max
      <4> DEFINE x == Bytesof(lacks(k))
                 y == Bytesof(lacks(k + 1))
                 z == Bytesof(lacks(K))
      <4>1. /\ x \in Nat /\ y \in Nat /\ z \in Nat /\ y = x + Size[f] /\ y <= z
            /\ z <= max - a[m].bytes /\ b[m + k].bytes = a[m].bytes + x
        BY <1>13, <2>6, <2>8, <3>3, <3>4
      <4> HIDE DEF x, y, z
      <4> QED BY <1>8, <2>2, <4>1
    <3>6. /\ b[m + (k + 1)].files = b[m + k].files \cup {f}
          /\ b[m + (k + 1)].bytes = b[m + k].bytes + Size[f]
      BY <2>3, <2>4, <2>5, <2>6, <2>10, <3>5, AdmitFields DEF none
    <3>7. b[m + (k + 1)].files = held \cup FirstOf(files, k + 1)
      BY <2>6, <2>7, <3>6
    <3>8. b[m + (k + 1)].bytes = a[m].bytes + Bytesof(lacks(k + 1))
      BY <1>8, <2>2, <2>6, <2>8, <3>3, <3>6
    <3> QED BY <2>1, <2>8, <3>7, <3>8
  <2> QED BY <2>9, <2>10
<1>16. K \in G
  <2> HIDE DEF G
  <2>1. \A k \in 0..K : k \in G
    BY <1>1, <1>14, <1>15, Climb
  <2> QED BY <1>1, <2>1
<1>17. b[m + K].files = held \cup FirstOf(files, K)
  BY <1>16
<1> QED BY <1>6, <1>17 DEF K, m, more, none

\* A candidate takes nothing from the files admitted before it.
LEMMA AdmitGrows ==
    ASSUME NEW a \in Tally, NEW c \in Candidate, NEW max \in Nat, NEW free
    PROVE  a.files \subseteq A!AdmitNext(a, c, max, free).files
<1> DEFINE b == A!AdmitNext(a, c, max, free)
<1>1. a.bytes \in Nat /\ c.size \in Nat
  BY DEF Tally, Candidate
<1>2. b.files = a.files \/ b.files = a.files \cup {c.file}
  BY <1>1, AdmitFields
<1> HIDE DEF b
<1>3. a.files \subseteq b.files
  BY <1>2
<1> QED BY <1>3 DEF b

\* What joins behind a queue displaces none of it.
LEMMA QueueGrows ==
    ASSUME NEW queue \in Seq(Candidate), NEW more \in Seq(Candidate), NEW max \in Nat
    PROVE  A!AdmitQueue(queue, max, {}).files \subseteq A!AdmitQueue(queue \o more, max, {}).files
<1> DEFINE m == Len(queue)
           K == Len(more)
           both == queue \o more
           none == {}
<1>1. m \in Nat /\ K \in Nat
  OBVIOUS
<1>2. /\ both \in Seq(Candidate) /\ Len(both) = m + K
      /\ \A n \in 1..m : queue[n] = both[n]
  <2>1. /\ queue \o more \in Seq(Candidate) /\ Len(queue \o more) = Len(queue) + Len(more)
        /\ \A i \in 1..Len(queue) + Len(more) :
             (queue \o more)[i] = IF i <= Len(queue) THEN queue[i] ELSE more[i - Len(queue)]
    BY ConcatProperties, Zenon
  <2>2. \A n \in 1..m : n \in 1..(m + K) /\ n <= m
    BY <1>1
  <2> QED BY <2>1, <2>2
<1> HIDE DEF both, none
<1>3. PICK a : Runs(a, queue, max, none)
  BY RunExists
<1>4. PICK b : Runs(b, both, max, none)
  BY <1>2, RunExists
<1>5. A!AdmitQueue(queue, max, none) = a[m]
  BY <1>3, QueueRuns
<1>6. A!AdmitQueue(both, max, none) = b[m + K]
  <2>1. A!AdmitQueue(both, max, none) = b[Len(both)]
    BY <1>2, <1>4, QueueRuns
  <2> QED BY <1>2, <2>1
<1>7. b[m] = a[m]
  <2>1. m <= Len(queue) /\ m <= Len(both)
    BY <1>1, <1>2
  <2> HIDE DEF m, K
  <2>2. \A n \in 0..m : a[n] = b[n]
    BY <1>1, <1>2, <1>3, <1>4, <2>1, RunsAgree
  <2>3. m \in 0..m
    BY <1>1
  <2> QED BY <2>2, <2>3
<1>8. \A n \in 1..(m + K) : both[n] \in Candidate
  <2> TAKE n \in 1..(m + K)
  <2>1. n \in 1..Len(both)
    BY <1>2
  <2> QED BY <1>2, <2>1, ElementOfSeq
<1>9. \A n \in 0..(m + K) : b[n] \in Tally
  <2> TAKE n \in 0..(m + K)
  <2>1. n \in 0..Len(both)
    BY <1>2
  <2> QED BY <1>2, <1>4, <2>1, RunGrows
<1>10. \A n \in 1..(m + K) : b[n] = A!AdmitNext(b[n - 1], both[n], max, none)
  BY <1>2, <1>4 DEF Runs
<1> HIDE DEF m, K
<1> DEFINE G == {k \in 0..K : b[m].files \subseteq b[m + k].files}
<1>11. 0 \in G
  <2>1. m + 0 = m /\ 0 \in 0..K
    BY <1>1
  <2> QED BY <2>1
<1>12. ASSUME NEW k \in 0..(K - 1), k \in G
       PROVE  k + 1 \in G
  <2>1. /\ k + 1 \in 0..K /\ m + (k + 1) \in 1..(m + K) /\ m + k \in 0..(m + K)
        /\ (m + (k + 1)) - 1 = m + k
    BY <1>1
  <2>2. b[m + (k + 1)] = A!AdmitNext(b[m + k], both[m + (k + 1)], max, none)
    BY <1>10, <2>1
  <2>3. b[m + k].files \subseteq b[m + (k + 1)].files
    BY <1>8, <1>9, <2>1, <2>2, AdmitGrows
  <2> QED BY <1>12, <2>1, <2>3
<1>13. K \in G
  <2> HIDE DEF G
  <2>1. \A k \in 0..K : k \in G
    BY <1>1, <1>11, <1>12, Climb
  <2> QED BY <1>1, <2>1
<1> QED BY <1>5, <1>6, <1>7, <1>13 DEF none, both

-----------------------------------------------------------------------------
(* The caps that bind the rows.                                            *)

\* Among is a recursive function: it has the values its definition asks for,
\* and they are sequences of the same kind.
LEMMA AmongKinds ==
    ASSUME NEW T, NEW seq \in Seq(T), NEW S
    PROVE  Among(seq, S) \in Seq(T)
<1> DEFINE N == Len(seq)
           V == Seq(T)
           Rest(f, i) == IF i = 0 THEN <<>>
                         ELSE IF seq[i] \in S THEN Append(f[i - 1], seq[i]) ELSE f[i - 1]
           rest == CHOOSE f : f = [i \in 0..N |-> Rest(f, i)]
           base == <<>>
           step == [v \in V \X (1..N) |->
                      IF seq[v[2]] \in S THEN Append(v[1], seq[v[2]]) ELSE v[1]]
<1>1. N \in Nat /\ \A i \in 1..N : seq[i] \in T
  OBVIOUS
<1>2. Among(seq, S) = rest[N]
  BY DEF Among
<1>3. base \in V
  OBVIOUS
<1>4. \A v \in V, i \in 1..N : step[<<v, i>>] = IF seq[i] \in S THEN Append(v, seq[i]) ELSE v
  OBVIOUS
<1>5. \A v \in V, i \in 1..N : Append(v, seq[i]) \in V
  BY <1>1
<1> HIDE DEF V
<1>6. step \in [V \X (1..N) -> V]
  BY <1>5
<1> HIDE DEF N, base, step
<1>7. PICK f : Follows(f, V, base, N, step)
  BY <1>1, <1>3, <1>6, RecursionExists
<1>8. f = [i \in 0..N |-> Rest(f, i)]
  <2>1. f \in [0..N -> V] /\ f[0] = <<>>
    BY <1>7 DEF Follows, base
  <2>2. ASSUME NEW i \in 1..N PROVE f[i] = Rest(f, i)
    <3>1. i - 1 \in 0..N /\ i # 0
      BY <1>1
    <3>2. f[i] = step[<<f[i - 1], i>>] /\ f[i - 1] \in V
      BY <1>7, <2>1, <3>1 DEF Follows
    <3> QED BY <1>4, <3>1, <3>2
  <2>3. f[0] = Rest(f, 0)
    BY <2>1
  <2>4. \A i \in 0..N : f[i] = Rest(f, i)
    <3> HIDE DEF Rest
    <3> QED BY <1>1, <2>2, <2>3
  <2> HIDE DEF Rest
  <2> QED BY <2>1, <2>4
<1>9. rest = [i \in 0..N |-> Rest(rest, i)]
  <2> HIDE DEF Rest
  <2> QED BY <1>8
<1> HIDE DEF rest
<1> DEFINE G == {i \in 0..N : rest[i] \in V}
<1>10. 0 \in G
  BY <1>1, <1>3, <1>9 DEF base
<1>11. ASSUME NEW i \in 0..(N - 1), i \in G
       PROVE  i + 1 \in G
  <2>1. i + 1 \in 0..N /\ i + 1 \in 1..N /\ (i + 1) - 1 = i /\ i + 1 # 0
    BY <1>1
  <2>2. rest[i + 1] = Rest(rest, i + 1)
    BY <1>9, <2>1
  <2>3. rest[i + 1] = rest[i] \/ rest[i + 1] = Append(rest[i], seq[i + 1])
    BY <2>1, <2>2
  <2>4. rest[i] \in V /\ seq[i + 1] \in T
    BY <1>1, <1>11, <2>1
  <2>5. rest[i + 1] \in V
    BY <1>5, <2>1, <2>3, <2>4
  <2> QED BY <2>1, <2>5
<1>12. N \in G
  <2> HIDE DEF G
  <2>1. \A i \in 0..N : i \in G
    BY <1>1, <1>10, <1>11, Climb
  <2> QED BY <1>1, <2>1
<1> QED BY <1>2, <1>12 DEF V

\* A PUT works with the caps of the settings it read, holds the commit guard
\* from its look at the usage on, and is approved only while the usage allows
\* the change.
Committed(p) ==
    /\ put[p].pc # "idle" =>
         put[p].before = KeptMax(readSettings) /\ put[p].after = KeptMax(put[p].merged)
    /\ put[p].pc \in {"locked", "approved"} => commits = p
    /\ put[p].pc = "approved" => ~Lowers(put[p])

\* A Keep that has read the plan holds the commit guard; and unless an
\* assignment overtook it, what it resolved is what its download covers, and
\* still has the room the plan had.
Accepted(d) ==
    /\ keep[d].pc = "planned" => commits = d /\ d \notin kept
    /\ keep[d].pc # "idle" /\ ~keep[d].overtaken => keep[d].files = Covered(d)
    /\ keep[d].pc = "planned" /\ ~keep[d].overtaken => HasRoom(keep[d].files)

Waiting == [pc : {"resolved", "planned"}, files : Seq(File), overtaken : BOOLEAN]

DownloadTypes ==
    /\ assigned \subseteq File /\ kept \subseteq Download
    /\ keep \in [Download -> {Idle} \cup Waiting]
    /\ rows \in Seq(Candidate) /\ usage \in Nat

RowsInv ==
    /\ DownloadTypes
    /\ \A p \in Putter : Committed(p)
    /\ \A d \in Download : Accepted(d)

LEMMA CoveredKinds ==
    ASSUME NEW d \in Download
    PROVE  Covered(d) \in Seq(File)
<1>1. Covers[d] \in Seq(File)
  BY PutAssumption
<1> QED BY <1>1, AmongKinds DEF Covered

\* A row for each download of an order.
LEMMA JoiningKinds ==
    ASSUME NEW f \in File, NEW into \in SUBSET Download, NEW n \in Nat,
           NEW order \in [1..n -> into]
    PROVE  [i \in DOMAIN order |-> [download |-> order[i], file |-> f, size |-> Size[f]]]
             \in Seq(Candidate)
<1>1. DOMAIN order = 1..n /\ Size[f] \in Nat
  BY PutAssumption
<1>2. \A i \in 1..n : [download |-> order[i], file |-> f, size |-> Size[f]] \in Candidate
  BY <1>1 DEF Candidate
<1>3. [i \in 1..n |-> [download |-> order[i], file |-> f, size |-> Size[f]]] \in [1..n -> Candidate]
  BY <1>2
<1>4. [i \in 1..n |-> [download |-> order[i], file |-> f, size |-> Size[f]]] \in Seq(Candidate)
  BY <1>3, SeqDef
<1> QED BY <1>1, <1>4

\* Rows only change by candidates joining or leaving.
LEMMA RowsStep ==
    ASSUME DownloadTypes, [Next]_vars
    PROVE  rows' \in Seq(Candidate)
<1>0. rows \in Seq(Candidate) /\ kept \subseteq Download
  BY DEF DownloadTypes
<1>1. ASSUME NEW d \in Download, KeepCreate(d) PROVE rows' \in Seq(Candidate)
  <2>1. Candidates(d, Covered(d)) \in Seq(Candidate)
    BY CandidateKinds, CoveredKinds
  <2> HIDE DEF Candidate
  <2> QED BY <1>0, <1>1, <2>1, ConcatProperties DEF KeepCreate
<1>2. ASSUME NEW f \in File, Assign(f) PROVE rows' \in Seq(Candidate)
  <2> DEFINE into == {d \in kept : f \in Members(Covers[d])}
             joining(order) ==
               [i \in DOMAIN order |-> [download |-> order[i], file |-> f, size |-> Size[f]]]
  <2>1. PICK at \in 0..Len(rows), order \in [1..Cardinality(into) -> into] :
          rows' = SubSeq(rows, 1, at) \o joining(order) \o SubSeq(rows, at + 1, Len(rows))
    BY <1>2 DEF Assign
  <2>2. joining(order) \in Seq(Candidate)
    <3>1. into \in SUBSET Download
      BY <1>0
    <3>2. Cardinality(into) \in Nat
      BY <3>1, PutAssumption, FS_Subset, FS_CardinalityType
    <3> HIDE DEF into
    <3> QED BY <3>1, <3>2, JoiningKinds
  <2> HIDE DEF joining, into
  <2>3. SubSeq(rows, 1, at) \in Seq(Candidate) /\ SubSeq(rows, at + 1, Len(rows)) \in Seq(Candidate)
    <3>1. Len(rows) \in Nat /\ at \in Nat /\ at <= Len(rows) /\ \A i \in 1..Len(rows) : rows[i] \in Candidate
      BY <1>0
    <3> HIDE DEF Candidate
    <3>2. SubSeq(rows, 1, at) \in Seq(Candidate)
      BY <1>0, <3>1, SubSeqProperties
    <3>3. SubSeq(rows, at + 1, Len(rows)) \in Seq(Candidate)
      BY <1>0, <3>1, SubSeqProperties
    <3> QED BY <3>2, <3>3
  <2> HIDE DEF Candidate
  <2>4. SubSeq(rows, 1, at) \o joining(order) \in Seq(Candidate)
    BY <2>2, <2>3, ConcatProperties, Zenon
  <2>5. (SubSeq(rows, 1, at) \o joining(order)) \o SubSeq(rows, at + 1, Len(rows)) \in Seq(Candidate)
    BY <2>3, <2>4, ConcatProperties, Zenon
  <2> QED BY <2>1, <2>5
<1>3. ASSUME NEW d \in Download, Release(d) PROVE rows' \in Seq(Candidate)
  BY <1>0, <1>3, AmongKinds DEF Release
<1>4. ASSUME NEW f \in File, Unassign(f) PROVE rows' \in Seq(Candidate)
  BY <1>0, <1>4, AmongKinds DEF Unassign
<1>5. \/ rows' = rows
      \/ \E d \in Download : KeepCreate(d) \/ Release(d)
      \/ \E f \in File : Assign(f) \/ Unassign(f)
  BY DEF Next, vars, downloadVars, PutRead, PutLock, PutApprove, PutRefuse, PutStore, PutReturns,
         KeepResolves, KeepPlans, KeepAgain, KeepRefuses, KeepFails, PassAfter, Pass, Restart
<1> QED BY <1>0, <1>1, <1>2, <1>3, <1>4, <1>5

\* A Keep is idle or has all it worked out.
LEMMA KeepKinds ==
    ASSUME DownloadTypes, NEW d \in Download
    PROVE  /\ keep[d].pc = "idle" <=> keep[d] = Idle
           /\ keep[d].pc # "idle" => keep[d] \in Waiting
<1>1. keep[d] = Idle \/ keep[d] \in Waiting
  BY DEF DownloadTypes
<1>2. Idle.pc = "idle"
  BY DEF Idle
<1>3. keep[d] \in Waiting => keep[d].pc # "idle"
  BY DEF Waiting
<1> QED BY <1>1, <1>2, <1>3

\* A step of one Keep.
LEMMA OneKeep ==
    ASSUME DownloadTypes, NEW d \in Download, NEW k \in {Idle} \cup Waiting,
           keep' = [keep EXCEPT ![d] = k]
    PROVE  /\ keep' \in [Download -> {Idle} \cup Waiting]
           /\ keep'[d] = k /\ \A e \in Download \ {d} : keep'[e] = keep[e]
<1> HIDE DEF Idle, Waiting
<1> QED BY DEF DownloadTypes

\* What a Keep becomes by reading the plan.
LEMMA PlansKinds ==
    ASSUME DownloadTypes, NEW d \in Download, KeepPlans(d)
    PROVE  LET k == [keep[d] EXCEPT !.pc = "planned"] IN
           /\ keep' = [keep EXCEPT ![d] = k]
           /\ k \in Waiting /\ k.files = keep[d].files /\ k.overtaken = keep[d].overtaken
<1> DEFINE k == [keep[d] EXCEPT !.pc = "planned"]
<1>1. keep[d] \in Waiting
  BY KeepKinds DEF KeepPlans
<1>2. k \in Waiting /\ k.files = keep[d].files /\ k.overtaken = keep[d].overtaken
  BY <1>1 DEF Waiting
<1>3. keep' = [keep EXCEPT ![d] = k]
  BY DEF KeepPlans, DownloadTypes
<1> QED BY <1>2, <1>3

\* What an assignment makes of the Keeps.
LEMMA OvertakesKinds ==
    ASSUME DownloadTypes, Overtakes
    PROVE  /\ keep' \in [Download -> {Idle} \cup Waiting]
           /\ \A d \in Download :
                /\ keep'[d].pc = keep[d].pc
                /\ keep'[d].pc # "idle" => keep'[d].overtaken = TRUE
<1> DEFINE after(d) == IF keep[d] = Idle THEN Idle ELSE [keep[d] EXCEPT !.overtaken = TRUE]
<1>1. ASSUME NEW d \in Download
      PROVE  /\ after(d) \in {Idle} \cup Waiting /\ after(d).pc = keep[d].pc
             /\ after(d).pc # "idle" => after(d).overtaken = TRUE
  <2>1. CASE keep[d] = Idle
    BY <2>1 DEF Idle
  <2>2. CASE keep[d] # Idle
    <3>1. keep[d] \in Waiting
      BY <2>2, KeepKinds
    <3>2. [keep[d] EXCEPT !.overtaken = TRUE] \in Waiting
      BY <3>1 DEF Waiting
    <3>3. [keep[d] EXCEPT !.overtaken = TRUE].overtaken = TRUE
          /\ [keep[d] EXCEPT !.overtaken = TRUE].pc = keep[d].pc
      BY <3>1 DEF Waiting
    <3> HIDE DEF Idle, Waiting
    <3> QED BY <2>2, <3>2, <3>3
  <2> QED BY <2>1, <2>2
<1>2. keep' = [d \in Download |-> after(d)]
  BY DEF Overtakes
<1> HIDE DEF after, Idle, Waiting
<1> QED BY <1>1, <1>2

LEMMA TypesStep ==
    ASSUME IInv, DownloadTypes, [Next]_vars
    PROVE  DownloadTypes'
<1>1. rows' \in Seq(Candidate)
  BY RowsStep
<1>2. assigned' \subseteq File /\ kept' \subseteq Download
  BY PutAssumption DEF DownloadTypes, Next, vars, downloadVars, PutRead, PutLock, PutApprove, PutRefuse,
     PutStore, PutReturns, KeepResolves, KeepPlans, KeepAgain, KeepRefuses, KeepCreate, KeepFails,
     Release, PassAfter, Assign, Unassign, Pass, Restart
<1>3. usage' \in Nat
  <2>1. KeptMax(readSettings) \in Nat
    BY ReadKinds, KeptMaxKinds DEF IInv
  <2>2. Admitted(rows, readSettings).bytes \in 0..KeptMax(readSettings)
    BY <2>1, QueueFits DEF Admitted, DownloadTypes
  <2>3. Admitted(rows, readSettings).bytes \in Nat
    BY <2>1, <2>2
  <2>4. usage' \in {usage, 0, Admitted(rows, readSettings).bytes}
    BY DEF Next, vars, downloadVars, PutRead, PutLock, PutApprove, PutRefuse,
       PutStore, PutReturns, KeepResolves, KeepPlans, KeepAgain, KeepRefuses, KeepCreate, KeepFails,
       Release, PassAfter, Assign, Unassign, Pass, Restart
  <2> QED BY <2>3, <2>4 DEF DownloadTypes
<1>4. keep' \in [Download -> {Idle} \cup Waiting]
  <2>1. ASSUME NEW d \in Download, KeepResolves(d) PROVE keep' \in [Download -> {Idle} \cup Waiting]
    <3>1. [pc |-> "resolved", files |-> Covered(d), overtaken |-> FALSE] \in Waiting
      BY CoveredKinds DEF Waiting
    <3> QED BY <2>1, <3>1, OneKeep DEF KeepResolves
  <2>2. ASSUME NEW d \in Download, KeepPlans(d) PROVE keep' \in [Download -> {Idle} \cup Waiting]
    BY <2>2, PlansKinds, OneKeep
  <2>3. ASSUME NEW d \in Download, KeepAgain(d) \/ KeepRefuses(d) \/ KeepCreate(d) \/ KeepFails(d)
        PROVE  keep' \in [Download -> {Idle} \cup Waiting]
    <3>1. keep' = [keep EXCEPT ![d] = Idle] /\ Idle \in {Idle} \cup Waiting
      BY <2>3 DEF KeepAgain, KeepRefuses, KeepCreate, KeepFails
    <3> QED BY <3>1, OneKeep
  <2>4. ASSUME NEW f \in File, Assign(f) \/ Unassign(f) PROVE keep' \in [Download -> {Idle} \cup Waiting]
    BY <2>4, OvertakesKinds DEF Assign, Unassign
  <2>5. ASSUME NEW c \in Configs, Restart(c) PROVE keep' \in [Download -> {Idle} \cup Waiting]
    BY <2>5 DEF Restart
  <2>6. CASE keep' = keep
    BY <2>6 DEF DownloadTypes
  <2>7. \/ keep' = keep
        \/ \E d \in Download : \/ KeepResolves(d) \/ KeepPlans(d) \/ KeepAgain(d) \/ KeepRefuses(d)
                               \/ KeepCreate(d) \/ KeepFails(d)
        \/ \E f \in File : Assign(f) \/ Unassign(f)
        \/ \E c \in Configs : Restart(c)
    BY DEF Next, vars, downloadVars, PutRead, PutLock, PutApprove, PutRefuse,
       PutStore, PutReturns, Release, PassAfter, Pass
  <2> QED BY <2>1, <2>2, <2>3, <2>4, <2>5, <2>6, <2>7
<1> QED BY <1>1, <1>2, <1>3, <1>4 DEF DownloadTypes

\* A step that leaves the PUTs and the settings alone, and the guard and the
\* usage to a PUT that holds it.
LEMMA KeepsCommitted ==
    ASSUME \A p \in Putter : Committed(p), UNCHANGED <<settings, broken, config, put>>,
           \A p \in Putter : commits = p => UNCHANGED <<commits, usage>>
    PROVE  \A p \in Putter : Committed(p)'
<1> TAKE p \in Putter
<1>1. readSettings' = readSettings /\ \A s : KeptMax(s)' = KeptMax(s)
  BY DEF readSettings, KeptMax, Limit
<1> QED BY <1>1 DEF Committed, Lowers

\* A step after which every PUT but p is idle.
LEMMA OthersIdle ==
    ASSUME IInv, NEW p \in Putter, updates = Free \/ updates = p,
           \A q \in Putter \ {p} : put'[q] = put[q]
    PROVE  \A q \in Putter \ {p} : Committed(q)'
<1>1. \A q \in Putter \ {p} : put'[q].pc = "idle"
  BY PutAssumption DEF IInv, PutInv, UpToDate
<1> QED BY <1>1 DEF Committed

LEMMA CommittedStep ==
    ASSUME IInv, \A p \in Putter : Committed(p), \A d \in Download : Accepted(d), [Next]_vars
    PROVE  \A p \in Putter : Committed(p)'
<1>1. PutTypes /\ put \in [Putter -> {Idle} \cup Busy]
  BY DEF IInv, PutTypes, Busy
<1>2. ASSUME NEW p \in Putter, NEW patch \in Patches, PutRead(p, patch)
      PROVE  \A q \in Putter : Committed(q)'
  <2> DEFINE merged == Apply(patch, readSettings)
             rec == [pc |-> "checked", patch |-> patch, merged |-> merged, broken |-> broken,
                     before |-> KeptMax(readSettings), after |-> KeptMax(merged)]
  <2>1. /\ put' = [put EXCEPT ![p] = rec] /\ updates = Free
        /\ UNCHANGED <<settings, broken, config>>
    BY <1>2 DEF PutRead
  <2>2. /\ rec.pc = "checked" /\ rec.before = KeptMax(readSettings)
        /\ rec.after = KeptMax(rec.merged)
    OBVIOUS
  <2> HIDE DEF rec
  <2>3. put'[p] = rec /\ \A q \in Putter \ {p} : put'[q] = put[q]
    <3> HIDE DEF Busy, Idle
    <3> QED BY <1>1, <2>1
  <2>4. readSettings' = readSettings /\ \A s : KeptMax(s)' = KeptMax(s)
    BY <2>1 DEF readSettings, KeptMax, Limit
  <2>5. Committed(p)'
    BY <2>2, <2>3, <2>4 DEF Committed
  <2> QED BY <2>1, <2>3, <2>5, OthersIdle
<1>3. ASSUME NEW p \in Putter, NEW pc \in {"locked", "approved"}, put[p].pc # "idle",
             put' = [put EXCEPT ![p].pc = pc], commits' = p,
             UNCHANGED <<settings, broken, config, usage>>, pc = "approved" => ~Lowers(put[p])
      PROVE  \A q \in Putter : Committed(q)'
  <2>1. /\ \A q \in Putter \ {p} : put'[q] = put[q]
        /\ put'[p] = [put[p] EXCEPT !.pc = pc]
    BY <1>1, <1>3, PcKinds
  <2>2. put[p] \in Busy
    BY <1>1, <1>3, PutKinds
  <2>3. /\ put'[p].pc = pc /\ put'[p].before = put[p].before /\ put'[p].after = put[p].after
        /\ put'[p].merged = put[p].merged
    BY <2>1, <2>2 DEF Busy
  <2>4. readSettings' = readSettings /\ \A s : KeptMax(s)' = KeptMax(s)
    BY <1>3 DEF readSettings, KeptMax, Limit
  <2>5. Committed(p)'
    BY <1>3, <2>3, <2>4 DEF Committed, Lowers
  <2>6. updates = p
    BY <1>3 DEF IInv, PutInv, UpToDate
  <2> QED BY <2>1, <2>5, <2>6, OthersIdle
<1>4. ASSUME NEW p \in Putter, PutLock(p) PROVE \A q \in Putter : Committed(q)'
  BY <1>3, <1>4 DEF PutLock, downloadVars
<1>5. ASSUME NEW p \in Putter, PutApprove(p) PROVE \A q \in Putter : Committed(q)'
  <2>1. commits = p
    BY <1>5 DEF PutApprove, Committed
  <2> QED BY <1>3, <1>5, <2>1 DEF PutApprove, downloadVars
<1>6. ASSUME NEW p \in Putter, put[p].pc # "idle", PutReturns(p)
      PROVE  \A q \in Putter : Committed(q)'
  <2>1. put' = [put EXCEPT ![p] = Idle]
    BY <1>6 DEF PutReturns
  <2>2. put'[p] = Idle /\ \A q \in Putter \ {p} : put'[q] = put[q]
    <3> HIDE DEF Busy, Idle
    <3> QED BY <1>1, <2>1
  <2>3. updates = p
    BY <1>6 DEF IInv, PutInv, UpToDate
  <2>4. Committed(p)'
    BY <2>2 DEF Committed, Idle
  <2> QED BY <2>2, <2>3, <2>4, OthersIdle
<1>7. ASSUME NEW d \in Download,
             \/ KeepResolves(d) \/ KeepPlans(d) \/ KeepAgain(d) \/ KeepRefuses(d)
             \/ KeepCreate(d) \/ KeepFails(d) \/ Release(d) \/ PassAfter(d)
      PROVE  \A q \in Putter : Committed(q)'
  <2>1. \A q \in Putter : commits = q => UNCHANGED <<commits, usage>>
    <3>1. keep[d].pc = "planned" => commits = d
      BY <1>7 DEF Accepted
    <3> QED BY <1>7, <3>1, PutAssumption
            DEF KeepResolves, KeepPlans, KeepAgain, KeepRefuses, KeepCreate, KeepFails, Release,
                PassAfter
  <2>2. UNCHANGED <<settings, broken, config, put>>
    BY <1>7 DEF KeepResolves, KeepPlans, KeepAgain, KeepRefuses, KeepCreate, KeepFails, Release,
                PassAfter
  <2> QED BY <2>1, <2>2, KeepsCommitted
<1>8. ASSUME NEW f \in File, Assign(f) \/ Unassign(f)
      PROVE  \A q \in Putter : Committed(q)'
  BY <1>8, KeepsCommitted DEF Assign, Unassign
<1>9. ASSUME Pass PROVE \A q \in Putter : Committed(q)'
  <2>1. \A q \in Putter : commits # q
    BY <1>9, PutAssumption DEF Pass
  <2> QED BY <1>9, <2>1, KeepsCommitted DEF Pass
<1>10. ASSUME NEW c \in Configs, Restart(c) PROVE \A q \in Putter : Committed(q)'
  BY <1>10 DEF Restart, Committed, Idle
<1>11. CASE UNCHANGED vars
  BY <1>11, KeepsCommitted DEF vars, downloadVars
<1> QED
  BY <1>2, <1>4, <1>5, <1>6, <1>7, <1>8, <1>9, <1>10, <1>11 DEF Next, PutRefuse, PutStore

\* What a Keep has worked out stays true while it, the assignments and, once
\* it has read the plan, all it read stay as they are.
LEMMA StillAccepted ==
    ASSUME NEW d \in Download, Accepted(d), keep'[d] = keep[d], assigned' = assigned,
           keep[d].pc = "planned" => UNCHANGED <<settings, broken, config, kept, rows, commits>>
    PROVE  Accepted(d)'
<1>1. Covered(d)' = Covered(d)
  BY DEF Covered
<1>2. CASE keep[d].pc = "planned"
  <2>1. readSettings' = readSettings /\ \A s : KeptMax(s)' = KeptMax(s)
    BY <1>2 DEF readSettings, KeptMax, Limit
  <2>2. HasRoom(keep[d].files)' <=> HasRoom(keep[d].files)
    BY <1>2, <2>1 DEF HasRoom, Admitted
  <2> QED BY <1>1, <1>2, <2>2 DEF Accepted
<1>3. CASE keep[d].pc # "planned"
  BY <1>1, <1>3 DEF Accepted
<1> QED BY <1>2, <1>3

LEMMA IdleAccepted ==
    ASSUME NEW d \in Download, keep'[d] = Idle
    PROVE  Accepted(d)'
BY DEF Accepted, Idle

LEMMA AcceptedStep ==
    ASSUME IInv, RowsInv, [Next]_vars
    PROVE  \A d \in Download : Accepted(d)'
<1>1. /\ DownloadTypes /\ \A d \in Download : Accepted(d)
      /\ Free \notin Download /\ Putter \cap Download = {}
  BY PutAssumption DEF RowsInv
<1>2. \A d \in Download : keep[d].pc = "planned" => commits = d
  BY <1>1 DEF Accepted
<1>3. ASSUME UNCHANGED <<assigned, keep>>,
             \A d \in Download : keep[d].pc # "planned"
      PROVE  \A d \in Download : Accepted(d)'
  BY <1>1, <1>3, StillAccepted
<1>4. ASSUME NEW p \in Putter, NEW patch \in Patches, PutRead(p, patch)
      PROVE  \A d \in Download : Accepted(d)'
  BY <1>1, <1>4, StillAccepted DEF PutRead, downloadVars
<1>5. ASSUME NEW p \in Putter, PutLock(p) \/ PutApprove(p) \/ PutRefuse(p) \/ PutStore(p)
      PROVE  \A d \in Download : Accepted(d)'
  <2>1. commits \in {Free, p}
    BY <1>5 DEF PutLock, PutApprove, PutRefuse, PutStore, RowsInv, Committed
  <2>2. \A d \in Download : keep[d].pc # "planned"
    BY <1>1, <1>2, <2>1
  <2>3. UNCHANGED <<assigned, keep>>
    BY <1>5 DEF PutLock, PutApprove, PutRefuse, PutStore, PutReturns, downloadVars
  <2> QED BY <1>3, <2>2, <2>3
<1>6. ASSUME NEW d \in Download, NEW k \in {Idle} \cup Waiting,
             keep' = [keep EXCEPT ![d] = k], assigned' = assigned, Accepted(d)',
             \A e \in Download \ {d} : keep[e].pc = "planned" =>
                UNCHANGED <<settings, broken, config, kept, rows, commits>>
      PROVE  \A e \in Download : Accepted(e)'
  <2>1. \A e \in Download \ {d} : keep'[e] = keep[e]
    BY <1>1, <1>6, OneKeep
  <2>2. ASSUME NEW e \in Download \ {d} PROVE Accepted(e)'
    BY <1>1, <1>6, <2>1, <2>2, StillAccepted
  <2> QED BY <1>6, <2>2
<1>7. ASSUME NEW d \in Download, KeepResolves(d) PROVE \A e \in Download : Accepted(e)'
  <2> DEFINE k == [pc |-> "resolved", files |-> Covered(d), overtaken |-> FALSE]
  <2>1. k \in Waiting
    BY CoveredKinds DEF Waiting
  <2>2. keep' = [keep EXCEPT ![d] = k]
        /\ UNCHANGED <<settings, broken, config, assigned, kept, rows, commits>>
    BY <1>7 DEF KeepResolves
  <2>3. k.pc = "resolved" /\ k.files = Covered(d)
    OBVIOUS
  <2> HIDE DEF k
  <2>4. keep'[d] = k
    BY <1>1, <2>1, <2>2, OneKeep
  <2>5. Covered(d)' = Covered(d)
    BY <2>2 DEF Covered
  <2>6. Accepted(d)'
    BY <2>3, <2>4, <2>5 DEF Accepted
  <2> QED BY <1>6, <2>1, <2>2, <2>6
<1>8. ASSUME NEW d \in Download, KeepPlans(d) PROVE \A e \in Download : Accepted(e)'
  <2> DEFINE k == [keep[d] EXCEPT !.pc = "planned"]
  <2>1. /\ keep' = [keep EXCEPT ![d] = k]
        /\ k \in Waiting /\ k.files = keep[d].files /\ k.overtaken = keep[d].overtaken
    BY <1>1, <1>8, PlansKinds
  <2>2. /\ commits = Free /\ commits' = d /\ d \notin kept /\ keep[d].pc = "resolved"
        /\ HasRoom(keep[d].files)
        /\ UNCHANGED <<settings, broken, config, assigned, kept, rows>>
    BY <1>8 DEF KeepPlans
  <2> HIDE DEF k
  <2>3. keep'[d] = k
    BY <1>1, <2>1, OneKeep
  <2>4. ~k.overtaken => k.files = Covered(d)
    BY <1>1, <2>1, <2>2 DEF Accepted
  <2>5. Covered(d)' = Covered(d)
    BY <2>2 DEF Covered
  <2>6. HasRoom(keep[d].files)'
    <3>1. readSettings' = readSettings /\ \A s : KeptMax(s)' = KeptMax(s)
      BY <2>2 DEF readSettings, KeptMax, Limit
    <3>2. keep'[d].files = keep[d].files
      BY <2>1, <2>3
    <3> QED BY <2>1, <2>2, <3>1, <3>2 DEF HasRoom, Admitted
  <2>7. Accepted(d)'
    BY <2>1, <2>2, <2>3, <2>4, <2>5, <2>6 DEF Accepted
  <2>8. \A e \in Download \ {d} : keep[e].pc # "planned"
    BY <1>1, <1>2, <2>2
  <2> QED BY <1>6, <2>1, <2>2, <2>7, <2>8
<1>9. ASSUME NEW d \in Download, keep' = [keep EXCEPT ![d] = Idle], assigned' = assigned,
             \A e \in Download \ {d} : keep[e].pc = "planned" =>
                UNCHANGED <<settings, broken, config, kept, rows, commits>>
      PROVE  \A e \in Download : Accepted(e)'
  <2>1. keep'[d] = Idle
    BY <1>1, <1>9, OneKeep
  <2>2. Accepted(d)'
    BY <2>1, IdleAccepted
  <2> QED BY <1>6, <1>9, <2>2
<1>10. ASSUME NEW d \in Download, KeepAgain(d) \/ KeepCreate(d) \/ KeepFails(d)
       PROVE  \A e \in Download : Accepted(e)'
  <2>1. commits \in {Free, d}
    BY <1>2, <1>10 DEF KeepAgain, KeepCreate, KeepFails
  <2>2. \A e \in Download \ {d} : keep[e].pc # "planned"
    BY <1>1, <1>2, <2>1
  <2> QED BY <1>9, <1>10, <2>2 DEF KeepAgain, KeepCreate, KeepFails
<1>11. ASSUME NEW d \in Download, KeepRefuses(d) PROVE \A e \in Download : Accepted(e)'
  BY <1>9, <1>11 DEF KeepRefuses
<1>12. ASSUME NEW d \in Download, Release(d) \/ PassAfter(d) PROVE \A e \in Download : Accepted(e)'
  <2>1. \A e \in Download : keep[e].pc # "planned"
    BY <1>1, <1>2, <1>12 DEF Release, PassAfter
  <2>2. UNCHANGED <<assigned, keep>>
    BY <1>12 DEF Release, PassAfter
  <2> QED BY <1>3, <2>1, <2>2
<1>13. ASSUME NEW f \in File, Assign(f) \/ Unassign(f) PROVE \A d \in Download : Accepted(d)'
  <2>1. /\ \A d \in Download : /\ keep'[d].pc = keep[d].pc
                               /\ keep'[d].pc # "idle" => keep'[d].overtaken = TRUE
        /\ UNCHANGED <<kept, commits>>
    BY <1>1, <1>13, OvertakesKinds DEF Assign, Unassign
  <2> QED BY <1>1, <2>1 DEF Accepted
<1>14. CASE Pass
  BY <1>1, <1>14, StillAccepted DEF Pass
<1>15. ASSUME NEW c \in Configs, Restart(c) PROVE \A d \in Download : Accepted(d)'
  BY <1>15, IdleAccepted DEF Restart
<1>16. CASE UNCHANGED vars
  BY <1>1, <1>16, StillAccepted DEF vars, downloadVars
<1> QED
  BY <1>4, <1>5, <1>7, <1>8, <1>10, <1>11, <1>12, <1>13, <1>14, <1>15, <1>16 DEF Next

LEMMA RowsInvHolds == Spec => [](IInv /\ RowsInv)
<1>1. Init => RowsInv
  <2> SUFFICES ASSUME Init PROVE RowsInv
    OBVIOUS
  <2>1. DownloadTypes
    BY DEF Init, DownloadTypes
  <2>2. \A p \in Putter : Committed(p)
    BY DEF Init, Committed, Idle
  <2>3. \A d \in Download : Accepted(d)
    BY DEF Init, Accepted, Idle
  <2> QED BY <2>1, <2>2, <2>3 DEF RowsInv
<1>2. IInv /\ RowsInv /\ [Next]_vars => RowsInv'
  BY TypesStep, CommittedStep, AcceptedStep DEF RowsInv
<1> QED
  BY <1>1, <1>2, InvHolds, PTL DEF Spec

\* The type invariant of StoragePut.
THEOREM PutTypeOK == Spec => []TypeOK
<1>1. IInv /\ RowsInv => TypeOK
  BY DEF IInv, RowsInv, DownloadTypes, TypeOK, Waiting
<1> QED
  BY <1>1, RowsInvHolds, PTL

\* A PUT that does not raise the kept cap leaves every admitted kept file
\* admitted, when the last pass had seen the rows as they are
\* (governor.go:160-187).
THEOREM PutsSpareTheAdmitted == Spec => PutSparesAdmitted
<1>1. ASSUME IInv, RowsInv, [Next]_vars, settings' # settings,
             usage = Admitted(rows, readSettings).bytes,
             KeptMax(readSettings)' <= KeptMax(readSettings)
      PROVE  (Admitted(rows, readSettings).files)' = Admitted(rows, readSettings).files
  <2>1. PICK p \in Putter : PutStore(p) /\ config' = config
    BY <1>1, OnlyStores
  <2>2. readSettings' = put[p].merged /\ rows' = rows /\ put[p] \in Busy /\ put[p].pc = "approved"
    BY <1>1, <2>1, StoreIsMerged DEF PutStore, PutReturns, downloadVars
  <2> DEFINE max == KeptMax(readSettings)
             low == KeptMax(put[p].merged)
  <2>3. max \in Nat /\ low \in Nat /\ rows \in Seq(Candidate)
    BY <1>1, <2>2, ReadKinds, KeptMaxKinds DEF IInv, RowsInv, DownloadTypes, Busy
  <2>4. KeptMax(readSettings)' = low
    BY <2>1, <2>2 DEF KeptMax, Limit
  <2>5. low < max => usage <= low
    <3>1. put[p].before = max /\ put[p].after = low /\ ~Lowers(put[p])
      BY <1>1, <2>2 DEF RowsInv, Committed
    <3>2. usage \in Int
      BY <1>1 DEF RowsInv, DownloadTypes
    <3> QED BY <2>3, <3>1, <3>2 DEF Lowers
  <2>6. A!AdmitQueue(rows, low, {}).files = A!AdmitQueue(rows, max, {}).files
    <3> HIDE DEF max, low
    <3>1. CASE low = max
      BY <3>1
    <3>2. CASE low < max
      <4>1. PICK a : Runs(a, rows, max, {})
        BY <2>3, RunExists
      <4>2. PICK b : Runs(b, rows, low, {})
        BY <2>3, RunExists
      <4>3. A!AdmitQueue(rows, max, {}) = a[Len(rows)] /\ A!AdmitQueue(rows, low, {}) = b[Len(rows)]
        BY <2>3, <4>1, <4>2, QueueRuns
      <4>4. usage = a[Len(rows)].bytes
        BY <1>1, <4>3 DEF Admitted, max
      <4>5. \A n \in 0..Len(rows) : a[n] = b[n]
        <5> DEFINE none == {}
        <5>1. Runs(a, rows, max, none) /\ Runs(b, rows, low, none)
          BY <4>1, <4>2
        <5>2. low <= max /\ a[Len(rows)].bytes <= low
          BY <2>3, <2>5, <3>2, <4>4
        <5> HIDE DEF none
        <5> QED BY <2>3, <5>1, <5>2, LowerCapSpares
      <4>6. Len(rows) \in 0..Len(rows)
        BY <2>3
      <4> QED BY <4>3, <4>5, <4>6
    <3> QED BY <1>1, <2>3, <2>4, <3>1, <3>2 DEF max
  <2> QED BY <2>2, <2>4, <2>6 DEF Admitted
<1>2. IInv /\ RowsInv /\ [Next]_vars =>
        [ /\ settings' # settings
          /\ usage = Admitted(rows, readSettings).bytes
          /\ KeptMax(readSettings)' <= KeptMax(readSettings)
          => (Admitted(rows, readSettings).files)' = Admitted(rows, readSettings).files]_vars
  BY <1>1
<1> QED
  BY <1>2, RowsInvHolds, PTL DEF Spec, PutSparesAdmitted

\* A Keep that is accepted displaces no file of another download, whatever
\* was assigned while it ran; and unless an assignment overtook it, all its
\* files are admitted: what it lacks beside the admitted files is what the
\* 409's maths counted (service.go:65-128, 335-345).
THEOREM KeepsAreAdmitted == Spec => KeepIsAdmitted
<1>1. ASSUME IInv, RowsInv, [Next]_vars, NEW d \in Download, d \in kept' \ kept
      PROVE  LET before == Admitted(rows, readSettings).files
                 after == (Admitted(rows, readSettings).files)'
             IN  /\ before \subseteq after
                 /\ ~keep[d].overtaken => after = before \cup Members(Covered(d))
  <2>1. KeepCreate(d)
    BY <1>1 DEF Next, vars, downloadVars, PutRead, PutLock, PutApprove, PutRefuse, PutStore,
       PutReturns, KeepResolves, KeepPlans, KeepAgain, KeepRefuses, KeepCreate, KeepFails,
       Release, PassAfter, Assign, Unassign, Pass, Restart
  <2>2. /\ keep[d].pc = "planned" /\ rows' = rows \o Candidates(d, Covered(d))
        /\ UNCHANGED <<settings, broken, config>>
    BY <2>1 DEF KeepCreate
  <2> DEFINE max == KeptMax(readSettings)
             more == Candidates(d, Covered(d))
  <2>3. max \in Nat /\ rows \in Seq(Candidate) /\ Covered(d) \in Seq(File) /\ more \in Seq(Candidate)
    BY <1>1, ReadKinds, KeptMaxKinds, CoveredKinds, CandidateKinds DEF IInv, RowsInv, DownloadTypes
  <2>4. readSettings' = readSettings /\ KeptMax(readSettings)' = max
    BY <2>2 DEF readSettings, KeptMax, Limit
  <2>5. /\ Admitted(rows, readSettings).files = A!AdmitQueue(rows, max, {}).files
        /\ (Admitted(rows, readSettings).files)' = A!AdmitQueue(rows \o more, max, {}).files
    BY <2>2, <2>4 DEF Admitted
  <2>6. A!AdmitQueue(rows, max, {}).files \subseteq A!AdmitQueue(rows \o more, max, {}).files
    <3> HIDE DEF max, more
    <3> QED BY <2>3, QueueGrows
  <2>7. ASSUME ~keep[d].overtaken
        PROVE  A!AdmitQueue(rows \o more, max, {}).files
                 = A!AdmitQueue(rows, max, {}).files \cup Members(Covered(d))
    <3>1. HasRoom(Covered(d))
      <4>1. Accepted(d) /\ keep[d].pc # "idle"
        BY <1>1, <2>2 DEF RowsInv
      <4> QED BY <2>2, <2>7, <4>1 DEF Accepted
    <3>2. Members(Covered(d)) = FirstOf(Covered(d), Len(Covered(d)))
      BY DEF Members, FirstOf
    <3>3. Bytesof(FirstOf(Covered(d), Len(Covered(d))) \ A!AdmitQueue(rows, max, {}).files)
            <= Greater(0, max - A!AdmitQueue(rows, max, {}).bytes)
      BY <3>1, <3>2 DEF HasRoom, Admitted
    <3> HIDE DEF max
    <3> DEFINE files == Covered(d)
    <3> HIDE DEF files
    <3>4. /\ files \in Seq(File)
          /\ Bytesof(FirstOf(files, Len(files)) \ A!AdmitQueue(rows, max, {}).files)
               <= Greater(0, max - A!AdmitQueue(rows, max, {}).bytes)
      BY <2>3, <3>3 DEF files
    <3>5. A!AdmitQueue(rows \o Candidates(d, files), max, {}).files
            = A!AdmitQueue(rows, max, {}).files \cup FirstOf(files, Len(files))
      BY <2>3, <3>4, KeepFits
    <3> QED BY <3>2, <3>5 DEF files
  <2> QED BY <2>5, <2>6, <2>7
<1>2. IInv /\ RowsInv /\ [Next]_vars =>
        [\A d \in Download : d \in kept' \ kept =>
           LET before == Admitted(rows, readSettings).files
               after == (Admitted(rows, readSettings).files)'
           IN  /\ before \subseteq after
               /\ ~keep[d].overtaken => after = before \cup Members(Covered(d))]_vars
  BY <1>1
<1> QED
  BY <1>2, RowsInvHolds, PTL DEF Spec, KeepIsAdmitted

-----------------------------------------------------------------------------
(* The governor's passes.                                                  *)

Read == [pc : {"read"}, limit : Limits, free : Nat]
Step == [pc : {"step", "trim", "look", "last", "lastTrim"}, target : Nat, lowest : Nat, c : Nat]

\* What a trim cannot take.
Held == pinned + reserve
AtMost(n, a, b) == n <= a \/ n <= b

CapInv ==
    /\ capacity >= MinBytes
    /\ Stepping => MinBytes <= gov.target /\ gov.target <= gov.lowest /\ gov.lowest <= gov.c
    /\ gov.pc \in {"trim", "look", "last"} => capacity = gov.c
    /\ gov.pc = "lastTrim" => capacity = gov.target

StepInv ==
    /\ gov.pc = "step" => filled <= gov.c + grown
    /\ gov.pc = "trim" => filled <= gov.c + TrimStepBytes + grown
    /\ Stepping /\ ~released => AtMost(gov.lowest, gov.target, Held)
    /\ gov.pc \in {"look", "last", "lastTrim"} /\ ~released /\ ~deferring =>
         AtMost(filled, capacity, Held)
    /\ gov.pc = "last" /\ ~released /\ ~deferring => AtMost(gov.c, gov.target, Held)

GovernorInv == GovernorTypeOK /\ CapInv /\ StepInv

-----------------------------------------------------------------------------
LEMMA GovKinds ==
    ASSUME GovernorTypeOK
    PROVE  /\ gov.pc = "idle" \/ gov.pc = "read" \/ Stepping
           /\ gov.pc = "idle" => gov = NoPass
           /\ gov.pc = "read" => gov \in Read
           /\ Stepping => gov \in Step
<1>1. gov = NoPass \/ gov \in Read \/ gov \in Step
  BY DEF GovernorTypeOK, Read, Step
<1>2. NoPass.pc = "idle"
  BY DEF NoPass
<1> QED
  BY <1>1, <1>2 DEF Read, Step, Stepping

\* A trim leaves what is pinned, the reserve and the capacity.
LEMMA TrimKinds ==
    ASSUME GovernorTypeOK, NEW f \in Nat, NEW pin \in 0..f
    PROVE  /\ Trimmed(f, pin) \in Nat
           /\ pin <= Trimmed(f, pin) /\ Trimmed(f, pin) <= f
           /\ Trimmed(f, pin) < f => capacity <= Trimmed(f, pin)
           /\ deferring => Trimmed(f, pin) = f
           /\ ~deferring => AtMost(Trimmed(f, pin), capacity, pin + reserve)
           /\ AtMost(f, capacity, pin + reserve) => Trimmed(f, pin) = f
BY DEF GovernorTypeOK, Trimmed, AtMost, Greater, Lesser

\* The arithmetic of a bound that grows with what is written, and of a trim.
LEMMA Carried ==
    ASSUME NEW old \in Nat, NEW new \in Nat, NEW g \in Nat, NEW gnew \in Nat,
           NEW bound \in Nat, new + g <= old + gnew
    PROVE  old <= bound + g => new <= bound + gnew
OBVIOUS

LEMMA Taken ==
    ASSUME NEW old \in Nat, NEW new \in Nat, NEW g \in Nat, NEW step \in Nat,
           NEW c \in Nat, NEW target \in Nat,
           old <= c + step + g, c <= new, target <= c
    PROVE  new >= target /\ old - new <= step + g
OBVIOUS

LEMMA StepKinds ==
    ASSUME GovernorTypeOK, Stepping, NEW c \in Nat,
           NEW pc \in {"step", "trim", "look", "last", "lastTrim"},
           gov' = [gov EXCEPT !.c = c, !.pc = pc]
    PROVE  /\ gov' \in Step
           /\ gov'.pc = pc /\ gov'.c = c
           /\ gov'.target = gov.target /\ gov'.lowest = gov.lowest
<1>1. gov \in Step
  BY GovKinds
<1> QED
  BY <1>1 DEF Step

LEMMA MoveKinds ==
    ASSUME GovernorTypeOK, Stepping,
           NEW pc \in {"step", "trim", "look", "last", "lastTrim"},
           gov' = [gov EXCEPT !.pc = pc]
    PROVE  /\ gov' \in Step
           /\ gov'.pc = pc /\ gov'.c = gov.c
           /\ gov'.target = gov.target /\ gov'.lowest = gov.lowest
<1>1. gov \in Step
  BY GovKinds
<1> QED
  BY <1>1 DEF Step

LEMMA StepFields ==
    ASSUME GovernorTypeOK, Stepping
    PROVE  gov.target \in Nat /\ gov.lowest \in Nat /\ gov.c \in Nat
<1>1. gov \in Step
  BY GovKinds
<1> QED
  BY <1>1 DEF Step

-----------------------------------------------------------------------------
(* One lemma per kind of step.                                             *)

\* A pass that ends, or has not looked at the cache, holds nothing StepInv
\* speaks of.
LEMMA RestSteps ==
    ASSUME GovernorTypeOK', capacity' >= MinBytes, ~Stepping'
    PROVE  GovernorInv'
BY DEF GovernorInv, CapInv, StepInv, Stepping

LEMMA ReadsStep ==
    ASSUME GovernorInv, PassReads
    PROVE  GovernorInv'
<1>1. DiskFree \in Nat
  BY BytesAssumption, GovernorAssumption DEF GovernorInv, GovernorTypeOK, DiskFree
<1>2. known' \in Limits /\ changes' \in 0..MaxChanges
  BY BytesAssumption, GovernorAssumption DEF PassReads, GovernorInv, GovernorTypeOK, Change
<1>3. gov' \in Read /\ gov'.pc = "read"
  BY <1>1, <1>2 DEF PassReads, Read
<1>4. GovernorTypeOK'
  BY <1>2, <1>3 DEF GovernorInv, GovernorTypeOK, PassReads, cacheVars, Read
<1> QED
  BY <1>3, <1>4, RestSteps DEF GovernorInv, CapInv, PassReads, cacheVars, Stepping

LEMMA ResolvesStep ==
    ASSUME GovernorInv, PassResolves
    PROVE  GovernorInv'
<1> DEFINE target == EffectiveBytes(gov.limit, DiskTotal, gov.free, filled)
           res == Lesser(ReserveBytes(gov.limit), target)
           lowest == Greater(target, Lesser(filled, pinned + res))
           next == [pc |-> "step", target |-> target, lowest |-> lowest, c |-> filled]
<1>1. GovernorTypeOK /\ gov \in Read
  BY GovKinds DEF GovernorInv, PassResolves
<1>2. gov.limit \in Nat /\ gov.limit >= MinBytes /\ gov.free \in Nat
  BY <1>1, BytesAssumption, GovernorAssumption DEF Read
<1>3. filled \in Nat /\ pinned \in Nat /\ pinned <= filled /\ DiskTotal \in Nat
  BY <1>1, BytesAssumption, GovernorAssumption DEF GovernorTypeOK
<1>4. target \in Nat /\ target >= MinBytes
  <2>1. 0 \in 0..filled
    BY <1>3
  <2> QED
    BY <1>2, <1>3, <2>1, EffectiveIgnoresFill
<1>5. res \in Nat
  BY <1>2, <1>4, ReserveKinds DEF Lesser
<1>6. /\ reserve' = res
      /\ \/ filled <= lowest /\ capacity' = target /\ gov' = NoPass
         \/ ~(filled <= lowest) /\ capacity' = capacity /\ gov' = next
      /\ grown' = 0 /\ released' = FALSE
      /\ UNCHANGED <<limit, known, other, filled, pinned, deferring, changes>>
  BY DEF PassResolves
<1> HIDE DEF target, res
<1>7. lowest \in Nat /\ target <= lowest /\ AtMost(lowest, target, pinned + res)
  BY <1>3, <1>4, <1>5 DEF Greater, Lesser, AtMost
<1> HIDE DEF lowest
<1>8. CASE filled <= lowest
  <2>1. gov' = NoPass /\ capacity' = target
    BY <1>6, <1>8
  <2>2. GovernorTypeOK'
    BY <1>1, <1>4, <1>5, <1>6, <2>1 DEF GovernorTypeOK
  <2> QED
    BY <1>4, <2>1, <2>2, RestSteps DEF Stepping, NoPass
<1>9. CASE ~(filled <= lowest)
  <2>1. gov' = next /\ capacity' = capacity
    BY <1>6, <1>9
  <2>2. gov' \in Step
    BY <1>3, <1>4, <1>7, <2>1 DEF Step
  <2>3. /\ gov'.pc = "step" /\ gov'.target = target /\ gov'.lowest = lowest
        /\ gov'.c = filled
    BY <2>1
  <2>4. GovernorTypeOK'
    BY <1>1, <1>5, <1>6, <2>1, <2>2 DEF GovernorTypeOK, Step
  <2>5. CapInv'
    BY <1>3, <1>4, <1>7, <1>9, <2>1, <2>3 DEF CapInv, GovernorInv, Stepping
  <2>6. StepInv'
    BY <1>3, <1>6, <1>7, <2>3 DEF StepInv, Stepping, Held, AtMost
  <2> QED
    BY <2>4, <2>5, <2>6 DEF GovernorInv
<1> QED
  BY <1>8, <1>9

LEMMA DownStep ==
    ASSUME GovernorInv, StepDown
    PROVE  GovernorInv'
<1> DEFINE c == Greater(gov.lowest, gov.c - TrimStepBytes)
<1>1. GovernorTypeOK /\ Stepping /\ gov.pc = "step"
  BY DEF GovernorInv, StepDown, Stepping
<1>2. /\ gov.target \in Nat /\ gov.lowest \in Nat /\ gov.c \in Nat
      /\ filled \in Nat /\ grown \in Nat
  BY <1>1, StepFields, GovernorAssumption DEF GovernorTypeOK
<1>3. /\ c \in Nat /\ gov.lowest <= c /\ gov.c <= c + TrimStepBytes
      /\ MinBytes <= gov.target /\ gov.target <= gov.lowest /\ gov.lowest <= gov.c
  BY <1>1, <1>2, GovernorAssumption DEF Greater, GovernorInv, CapInv
<1>4. /\ gov' = [gov EXCEPT !.c = c, !.pc = "trim"] /\ capacity' = c
      /\ UNCHANGED <<limit, known, other, filled, pinned, reserve, deferring,
                     grown, released, changes>>
  BY DEF StepDown
<1> HIDE DEF c
<1>5. /\ gov' \in Step /\ gov'.pc = "trim" /\ gov'.c = c
      /\ gov'.target = gov.target /\ gov'.lowest = gov.lowest
  BY <1>1, <1>3, <1>4, StepKinds
<1>6. GovernorTypeOK'
  BY <1>1, <1>3, <1>4, <1>5 DEF GovernorTypeOK, Step
<1>7. CapInv'
  BY <1>2, <1>3, <1>4, <1>5, BytesAssumption DEF CapInv, Stepping
<1>8. filled <= gov.c + grown
  BY <1>1 DEF GovernorInv, StepInv
<1>9. filled <= c + TrimStepBytes + grown
  BY <1>2, <1>3, <1>8, GovernorAssumption
<1>10. StepInv'
  BY <1>1, <1>4, <1>5, <1>9 DEF GovernorInv, StepInv, Stepping, Held, AtMost
<1> QED
  BY <1>6, <1>7, <1>10 DEF GovernorInv

LEMMA TrimsStep ==
    ASSUME GovernorInv, GovernorTrims
    PROVE  GovernorInv'
<1>1. GovernorTypeOK /\ Stepping /\ gov.pc \in {"trim", "lastTrim"}
  BY DEF GovernorInv, GovernorTrims, Stepping
<1>2. filled \in Nat /\ pinned \in 0..filled /\ filled <= DiskTotal - other
  BY <1>1, BytesAssumption, GovernorAssumption DEF GovernorTypeOK
<1>3. /\ filled' = Trimmed(filled, pinned)
      /\ filled' \in Nat /\ pinned <= filled' /\ filled' <= filled
      /\ ~deferring => AtMost(filled', capacity, Held)
  BY <1>1, <1>2, TrimKinds DEF GovernorTrims, Held
<1>4. UNCHANGED <<limit, known, other, pinned, capacity, reserve, deferring,
                  grown, released, changes>>
  BY DEF GovernorTrims
<1>5. filled' \in 0..DiskTotal - other /\ pinned \in 0..filled'
  BY <1>1, <1>2, <1>3, BytesAssumption, GovernorAssumption DEF GovernorTypeOK
<1>6. CASE gov.pc = "trim"
  <2>1. /\ gov' \in Step /\ gov'.pc = "look" /\ gov'.c = gov.c
        /\ gov'.target = gov.target /\ gov'.lowest = gov.lowest
    BY <1>1, <1>6, MoveKinds DEF GovernorTrims
  <2>2. GovernorTypeOK'
    BY <1>1, <1>4, <1>5, <2>1 DEF GovernorTypeOK, Step
  <2>3. CapInv'
    BY <1>1, <1>4, <1>6, <2>1 DEF GovernorInv, CapInv, Stepping
  <2>4. StepInv'
    BY <1>1, <1>3, <1>4, <1>6, <2>1 DEF GovernorInv, StepInv, Stepping, Held, AtMost
  <2> QED
    BY <2>2, <2>3, <2>4 DEF GovernorInv
<1>7. CASE gov.pc = "lastTrim"
  <2>1. gov' = NoPass
    BY <1>7 DEF GovernorTrims
  <2>2. GovernorTypeOK'
    BY <1>1, <1>4, <1>5, <2>1 DEF GovernorTypeOK
  <2> QED
    BY <1>4, <2>1, <2>2, RestSteps DEF GovernorInv, CapInv, Stepping, NoPass
<1> QED
  BY <1>1, <1>6, <1>7

LEMMA LooksStep ==
    ASSUME GovernorInv, Looks
    PROVE  GovernorInv'
<1> DEFINE pc == IF gov.c = gov.lowest \/ filled > gov.c THEN "last" ELSE "step"
<1>1. GovernorTypeOK /\ Stepping /\ gov.pc = "look"
  BY DEF GovernorInv, Looks, Stepping
<1>2. UNCHANGED <<limit, known, other, cacheVars, grown, released, changes>>
  BY DEF Looks
<1>3. /\ gov' \in Step /\ gov'.pc = pc /\ gov'.c = gov.c
      /\ gov'.target = gov.target /\ gov'.lowest = gov.lowest
  BY <1>1, MoveKinds DEF Looks
<1>4. /\ gov.target \in Nat /\ gov.lowest \in Nat /\ gov.c \in Nat
      /\ filled \in Nat /\ grown \in Nat /\ pinned \in Nat /\ reserve \in Nat
      /\ capacity = gov.c
  BY <1>1, StepFields, GovernorAssumption DEF GovernorTypeOK, GovernorInv, CapInv
<1>5. GovernorTypeOK'
  BY <1>1, <1>2, <1>3 DEF GovernorTypeOK, cacheVars, Step
<1>6. CapInv'
  BY <1>1, <1>2, <1>3 DEF GovernorInv, CapInv, cacheVars, Stepping
<1>7. ~released => AtMost(gov.lowest, gov.target, Held)
  BY <1>1 DEF GovernorInv, StepInv
<1>8. ~released /\ ~deferring => AtMost(filled, gov.c, Held)
  BY <1>1, <1>4 DEF GovernorInv, StepInv
<1>9. Held \in Nat /\ Held' = Held
  BY <1>2, <1>4 DEF Held, cacheVars
<1>10. CASE pc = "last"
  <2>1. gov.c = gov.lowest \/ filled > gov.c
    BY <1>10
  <2>2. ~released /\ ~deferring => AtMost(gov.c, gov.target, Held)
    BY <1>4, <1>7, <1>8, <1>9, <2>1 DEF AtMost
  <2> HIDE DEF pc
  <2> QED
    BY <1>2, <1>3, <1>4, <1>5, <1>6, <1>7, <1>8, <1>9, <1>10, <2>2
       DEF GovernorInv, StepInv, cacheVars, Stepping, AtMost
<1>11. CASE pc = "step"
  <2>1. filled <= gov.c
    BY <1>4, <1>11
  <2>2. filled <= gov.c + grown
    BY <1>4, <2>1
  <2> HIDE DEF pc
  <2> QED
    BY <1>2, <1>3, <1>4, <1>5, <1>6, <1>7, <1>9, <1>11, <2>2
       DEF GovernorInv, StepInv, cacheVars, Stepping, AtMost
<1> QED
  BY <1>10, <1>11

LEMMA TargetStep ==
    ASSUME GovernorInv, GoesToTarget
    PROVE  GovernorInv'
<1>1. GovernorTypeOK /\ Stepping /\ gov.pc = "last"
  BY DEF GovernorInv, GoesToTarget, Stepping
<1>2. /\ gov.target \in Nat /\ gov.lowest \in Nat /\ gov.c \in Nat
      /\ filled \in Nat /\ pinned \in Nat /\ reserve \in Nat
      /\ capacity = gov.c /\ MinBytes <= gov.target
  BY <1>1, StepFields, GovernorAssumption DEF GovernorTypeOK, GovernorInv, CapInv
<1>3. capacity' = gov.target
      /\ UNCHANGED <<limit, known, other, filled, pinned, reserve, deferring,
                     grown, released, changes>>
  BY DEF GoesToTarget
<1>4. CASE capacity = gov.target
  <2>1. gov' = NoPass
    BY <1>4 DEF GoesToTarget
  <2>2. GovernorTypeOK'
    BY <1>1, <1>2, <1>3, <2>1 DEF GovernorTypeOK
  <2> QED
    BY <1>2, <1>3, <2>1, <2>2, RestSteps DEF Stepping, NoPass
<1>5. CASE capacity # gov.target
  <2>1. /\ gov' \in Step /\ gov'.pc = "lastTrim" /\ gov'.c = gov.c
        /\ gov'.target = gov.target /\ gov'.lowest = gov.lowest
    BY <1>1, <1>5, MoveKinds DEF GoesToTarget
  <2>2. GovernorTypeOK'
    BY <1>1, <1>2, <1>3, <2>1 DEF GovernorTypeOK, Step
  <2>3. CapInv'
    BY <1>1, <1>2, <1>3, <2>1 DEF GovernorInv, CapInv, Stepping
  <2>4. ~released /\ ~deferring => AtMost(filled, gov.target, Held)
    <3>1. ~released /\ ~deferring =>
            AtMost(filled, gov.c, Held) /\ AtMost(gov.c, gov.target, Held)
      BY <1>1, <1>2 DEF GovernorInv, StepInv
    <3> QED
      BY <1>2, <3>1 DEF AtMost, Held
  <2>5. ~released => AtMost(gov.lowest, gov.target, Held)
    BY <1>1 DEF GovernorInv, StepInv
  <2>6. Held' = Held
    BY <1>3 DEF Held
  <2>7. StepInv'
    BY <1>3, <2>1, <2>4, <2>5, <2>6 DEF StepInv, Stepping, AtMost
  <2> QED
    BY <2>2, <2>3, <2>7 DEF GovernorInv
<1> QED
  BY <1>4, <1>5

\* A write trims as it goes, and what it adds is in grown.
LEMMA WritesStep ==
    ASSUME GovernorInv, NEW pin \in {pinned, pinned + 1}, Writes(pin), changes' \in 0..MaxChanges
    PROVE  GovernorInv'
<1> DEFINE f == filled + 1
<1>1. GovernorTypeOK
  BY DEF GovernorInv
<1>2. /\ filled \in Nat /\ pinned \in Nat /\ reserve \in Nat /\ grown \in Nat /\ capacity \in Nat
      /\ f \in Nat /\ pin \in 0..f /\ f <= DiskTotal - other /\ other \in Nat
      /\ DiskTotal \in Nat /\ TrimStepBytes \in Nat
  BY <1>1, BytesAssumption, GovernorAssumption DEF GovernorTypeOK, Writes, DiskFree
<1>3. /\ pinned' = pin /\ filled' = Trimmed(f, pin)
      /\ grown' = IF Stepping THEN grown + Greater(filled' - filled, 0) ELSE grown
      /\ UNCHANGED <<limit, known, other, capacity, reserve, deferring, gov, released>>
  BY DEF Writes
<1>4. /\ filled' \in Nat /\ pin <= filled' /\ filled' <= f
      /\ ~deferring => AtMost(filled', capacity, pin + reserve)
  BY <1>1, <1>2, <1>3, TrimKinds
<1>5. grown' \in Nat /\ (Stepping => filled' + grown <= filled + grown')
  BY <1>2, <1>3, <1>4 DEF Greater
<1>6. filled' \in 0..DiskTotal - other /\ pinned' \in 0..filled'
  BY <1>2, <1>3, <1>4
<1>7. GovernorTypeOK'
  BY <1>1, <1>3, <1>5, <1>6 DEF GovernorTypeOK
<1>8. CapInv'
  BY <1>3 DEF GovernorInv, CapInv, Stepping
<1>9. Held \in Nat /\ Held' \in Nat /\ Held <= Held' /\ Held' = pin + reserve
  BY <1>2, <1>3 DEF Held
<1>10. ASSUME Stepping PROVE StepInv'
  <2>1. gov.target \in Nat /\ gov.lowest \in Nat /\ gov.c \in Nat
    BY <1>1, <1>10, StepFields
  <2>2. filled' + grown <= filled + grown'
    BY <1>5, <1>10
  <2>3. /\ gov.pc = "step" => filled <= gov.c + grown
        /\ gov.pc = "trim" => filled <= gov.c + TrimStepBytes + grown
    BY DEF GovernorInv, StepInv
  <2>4. filled \in Nat /\ filled' \in Nat /\ grown \in Nat /\ grown' \in Nat
    BY <1>2, <1>4, <1>5
  <2>5. gov.pc = "step" => filled' <= gov.c + grown'
    <3>1. filled <= gov.c + grown => filled' <= gov.c + grown'
      BY <2>1, <2>2, <2>4, Carried, Zenon
    <3> QED
      BY <2>3, <3>1
  <2>6. gov.pc = "trim" => filled' <= gov.c + TrimStepBytes + grown'
    <3>1. gov.c + TrimStepBytes \in Nat
      BY <1>2, <2>1
    <3>2. filled <= gov.c + TrimStepBytes + grown =>
            filled' <= gov.c + TrimStepBytes + grown'
      BY <2>2, <2>4, <3>1, Carried, Zenon
    <3> QED
      BY <2>3, <3>2
  <2>7. ~released => AtMost(gov.lowest, gov.target, Held')
    BY <1>9, <1>10, <2>1 DEF GovernorInv, StepInv, AtMost
  <2>8. gov.pc = "last" /\ ~released /\ ~deferring => AtMost(gov.c, gov.target, Held')
    BY <1>9, <2>1 DEF GovernorInv, StepInv, AtMost
  <2>9. ~deferring => AtMost(filled', capacity, Held')
    BY <1>4, <1>9
  <2> QED
    BY <1>3, <2>5, <2>6, <2>7, <2>8, <2>9 DEF StepInv, Stepping, AtMost
<1>11. ASSUME ~Stepping PROVE StepInv'
  BY <1>3, <1>11 DEF StepInv, Stepping
<1> QED
  BY <1>7, <1>8, <1>10, <1>11 DEF GovernorInv

\* Pins and removals: only fewer pins let a trim take more.
LEMMA PinsStep ==
    ASSUME GovernorInv, NEW f \in 0..filled, NEW pin \in 0..f, Pins(pin, f)
    PROVE  GovernorInv'
<1>1. GovernorTypeOK
  BY DEF GovernorInv
<1>2. /\ filled \in Nat /\ pinned \in Nat /\ reserve \in Nat /\ grown \in Nat /\ capacity \in Nat
      /\ f \in Nat /\ pin \in Nat /\ f <= filled /\ filled <= DiskTotal - other /\ other \in Nat
      /\ DiskTotal \in Nat /\ TrimStepBytes \in Nat
  BY <1>1, BytesAssumption, GovernorAssumption DEF GovernorTypeOK
<1>3. /\ pinned' = pin /\ filled' = f /\ changes' \in 0..MaxChanges
      /\ released' = (released \/ (Stepping /\ pin < pinned))
      /\ UNCHANGED <<limit, known, other, capacity, reserve, deferring, gov, grown>>
  BY <1>1, BytesAssumption, GovernorAssumption DEF Pins, Change, GovernorTypeOK
<1>4. filled' \in 0..DiskTotal - other /\ pinned' \in 0..filled' /\ released' \in BOOLEAN
  BY <1>1, <1>2, <1>3 DEF GovernorTypeOK
<1>5. GovernorTypeOK'
  BY <1>1, <1>3, <1>4 DEF GovernorTypeOK
<1>6. CapInv'
  BY <1>3 DEF GovernorInv, CapInv, Stepping
<1>7. ASSUME Stepping PROVE StepInv'
  <2>1. gov.target \in Nat /\ gov.lowest \in Nat /\ gov.c \in Nat
    BY <1>1, <1>7, StepFields
  <2>2. ~released' => ~released /\ pinned <= pin
    <3>1. ~released' => ~released /\ ~(pin < pinned)
      BY <1>3, <1>7, Zenon
    <3> QED
      BY <1>2, <3>1
  <2>3. Held \in Nat /\ Held' \in Nat /\ (~released' => Held <= Held')
    BY <1>2, <1>3, <2>2 DEF Held
  <2>4. gov.pc = "step" => filled' <= gov.c + grown
    BY <1>2, <1>3, <2>1 DEF GovernorInv, StepInv
  <2>5. gov.pc = "trim" => filled' <= gov.c + TrimStepBytes + grown
    BY <1>2, <1>3, <2>1 DEF GovernorInv, StepInv
  <2>6. ~released' => AtMost(gov.lowest, gov.target, Held')
    BY <1>7, <2>1, <2>2, <2>3 DEF GovernorInv, StepInv, AtMost
  <2>7. gov.pc = "last" /\ ~released' /\ ~deferring => AtMost(gov.c, gov.target, Held')
    BY <2>1, <2>2, <2>3 DEF GovernorInv, StepInv, AtMost
  <2>8. gov.pc \in {"look", "last", "lastTrim"} /\ ~released' /\ ~deferring =>
          AtMost(filled', capacity, Held')
    BY <1>2, <1>3, <2>2, <2>3 DEF GovernorInv, StepInv, AtMost
  <2> QED
    BY <1>3, <2>4, <2>5, <2>6, <2>7, <2>8 DEF StepInv, Stepping, AtMost
<1>8. ASSUME ~Stepping PROVE StepInv'
  BY <1>3, <1>8 DEF StepInv, Stepping
<1> QED
  BY <1>5, <1>6, <1>7, <1>8 DEF GovernorInv

LEMMA DeferStep ==
    ASSUME GovernorInv, EndDeferring
    PROVE  GovernorInv'
<1>1. GovernorTypeOK'
  BY DEF GovernorInv, GovernorTypeOK, EndDeferring
<1>2. CapInv'
  BY DEF GovernorInv, CapInv, EndDeferring, Stepping
<1>3. StepInv'
  BY DEF GovernorInv, StepInv, EndDeferring, Stepping, Held, AtMost
<1> QED
  BY <1>1, <1>2, <1>3 DEF GovernorInv

LEMMA WorldStep ==
    ASSUME GovernorInv, NEW l \in Limits, NEW o \in Nat, World(l, o)
    PROVE  GovernorInv'
<1>1. GovernorTypeOK'
  BY GovernorAssumption DEF GovernorInv, GovernorTypeOK, World, Change, cacheVars
<1>2. CapInv'
  BY DEF GovernorInv, CapInv, World, cacheVars, Stepping
<1>3. StepInv'
  BY DEF GovernorInv, StepInv, World, cacheVars, Stepping, Held, AtMost
<1> QED
  BY <1>1, <1>2, <1>3 DEF GovernorInv

LEMMA RestartStep ==
    ASSUME GovernorInv, GovernorRestart
    PROVE  GovernorInv'
<1>1. GovernorTypeOK
  BY DEF GovernorInv
<1>2. limit \in Nat /\ limit >= MinBytes
  BY <1>1, GovernorAssumption DEF GovernorTypeOK
<1>3. changes' \in 0..MaxChanges /\ 0 \in 0..filled
  BY <1>1, GovernorAssumption DEF GovernorTypeOK, GovernorRestart, Change
<1>4. GovernorTypeOK'
  BY <1>1, <1>2, <1>3 DEF GovernorTypeOK, GovernorRestart
<1> QED
  BY <1>2, <1>4, RestSteps DEF GovernorRestart, Stepping, NoPass

LEMMA StutterStep ==
    ASSUME GovernorInv, UNCHANGED governorVars
    PROVE  GovernorInv'
BY DEF GovernorInv, GovernorTypeOK, CapInv, StepInv, governorVars, cacheVars, Stepping, Held,
   AtMost

LEMMA GovernorInvInit == GovernorInit => GovernorInv
<1> SUFFICES ASSUME GovernorInit PROVE GovernorInv
  OBVIOUS
<1>1. limit \in Nat /\ limit >= MinBytes /\ other \in Nat /\ 0 \in 0..filled /\ 0 \in 0..MaxChanges
  BY GovernorAssumption DEF GovernorInit
<1>2. GovernorTypeOK
  BY <1>1 DEF GovernorInit, GovernorTypeOK
<1>3. CapInv /\ StepInv
  BY <1>1 DEF GovernorInit, CapInv, StepInv, Stepping, NoPass
<1> QED
  BY <1>2, <1>3 DEF GovernorInv

LEMMA GovernorInvStep == GovernorInv /\ [GovernorNext]_governorVars => GovernorInv'
<1> SUFFICES ASSUME GovernorInv, [GovernorNext]_governorVars PROVE GovernorInv'
  OBVIOUS
<1>1. /\ filled \in Nat /\ pinned \in Nat /\ pinned <= filled /\ changes \in 0..MaxChanges
      /\ other \in Nat
  BY GovernorAssumption DEF GovernorInv, GovernorTypeOK
<1>2. CASE Steps
  BY <1>2, ReadsStep, ResolvesStep, DownStep, TrimsStep, LooksStep, TargetStep DEF Steps
<1>3. CASE StreamWrites
  BY <1>1, <1>3, WritesStep DEF StreamWrites
<1>4. CASE DownloadWrites
  <2>1. changes' \in 0..MaxChanges
    BY <1>1, <1>4, GovernorAssumption DEF DownloadWrites, Change
  <2> QED
    BY <1>4, <2>1, WritesStep DEF DownloadWrites
<1>5. CASE EndDeferring
  BY <1>5, DeferStep
<1>6. CASE GovernorRestart
  BY <1>6, RestartStep
<1>7. ASSUME NEW pin \in 0..DiskTotal, pin <= filled, Pins(pin, filled) PROVE GovernorInv'
  BY <1>1, <1>7, PinsStep
<1>8. ASSUME NEW pin \in 0..DiskTotal, filled > 0, pin <= filled - 1, Pins(pin, filled - 1)
      PROVE  GovernorInv'
  BY <1>1, <1>8, PinsStep
<1>9. ASSUME NEW l \in Limits, World(l, other) PROVE GovernorInv'
  BY <1>1, <1>9, WorldStep
<1>10. ASSUME NEW o \in Others, World(limit, o) PROVE GovernorInv'
  <2>1. limit \in Limits /\ o \in Nat
    BY GovernorAssumption DEF GovernorInv, GovernorTypeOK
  <2> QED
    BY <1>10, <2>1, WorldStep
<1>11. CASE UNCHANGED governorVars
  BY <1>11, StutterStep
<1> QED
  BY <1>2, <1>3, <1>4, <1>5, <1>6, <1>7, <1>8, <1>9, <1>10, <1>11 DEF GovernorNext

THEOREM GovernorInvHolds == GovernorSpec => []GovernorInv
BY GovernorInvInit, GovernorInvStep, PTL DEF GovernorSpec

\* The type invariant of CacheGovernor.
THEOREM GovernorTypeCorrect == GovernorSpec => []GovernorTypeOK
<1>1. GovernorInv => GovernorTypeOK
  BY DEF GovernorInv
<1> QED
  BY <1>1, GovernorInvHolds, PTL

\* The cache is never capped below MinBytes, whatever the disk and the
\* settings do, and not by a step of a pass either (governor.go:349-364).
THEOREM NeverBelowMin == GovernorSpec => []CapAtLeastMin
<1>1. GovernorInv => CapAtLeastMin
  BY DEF GovernorInv, CapInv, CapAtLeastMin
<1> QED
  BY <1>1, GovernorInvHolds, PTL

-----------------------------------------------------------------------------
\* Of the steps that move the pass on, only a trim lowers the fill.
LEMMA OnlyTrims ==
    ASSUME GovernorInv, [GovernorNext]_governorVars, gov' # gov, filled' < filled
    PROVE  GovernorTrims
<1>1. filled \in Nat
  BY GovernorAssumption DEF GovernorInv, GovernorTypeOK
<1>2. filled' # filled
  BY <1>1
<1> QED
  BY <1>2 DEF GovernorNext, Steps, governorVars, cacheVars, PassReads, PassResolves, StepDown,
     Looks,
       GoesToTarget, StreamWrites, DownloadWrites, Writes, Pins, EndDeferring, World, GovernorRestart

\* What a trim of the governor leaves.
LEMMA TrimLeaves ==
    ASSUME GovernorInv, GovernorTrims, filled' < filled
    PROVE  /\ filled' >= gov.target
           /\ released \/ filled - filled' <= TrimStepBytes + grown
<1>1. GovernorTypeOK /\ Stepping /\ gov.pc \in {"trim", "lastTrim"}
  BY DEF GovernorInv, GovernorTrims, Stepping
<1>2. /\ filled \in Nat /\ pinned \in 0..filled /\ capacity \in Nat /\ grown \in Nat
      /\ TrimStepBytes \in Nat
  BY <1>1, GovernorAssumption DEF GovernorTypeOK
<1>3. gov.target \in Nat /\ gov.lowest \in Nat /\ gov.c \in Nat
  BY <1>1, StepFields
<1>4. filled' = Trimmed(filled, pinned)
  BY DEF GovernorTrims
<1>5. /\ filled' \in Nat /\ capacity <= filled'
      /\ ~deferring /\ ~AtMost(filled, capacity, Held)
  <2>1. /\ Trimmed(filled, pinned) \in Nat
        /\ Trimmed(filled, pinned) < filled => capacity <= Trimmed(filled, pinned)
        /\ deferring => Trimmed(filled, pinned) = filled
        /\ AtMost(filled, capacity, Held) => Trimmed(filled, pinned) = filled
    BY <1>1, <1>2, TrimKinds DEF Held
  <2>2. filled' < filled /\ filled' # filled
    BY <1>2, <1>4, <2>1
  <2> QED
    BY <1>4, <2>1, <2>2
<1>6. CASE gov.pc = "trim"
  <2>1. capacity = gov.c /\ gov.target <= gov.c /\ filled <= gov.c + TrimStepBytes + grown
    BY <1>1, <1>3, <1>6 DEF GovernorInv, CapInv, StepInv
  <2> QED
    BY <1>2, <1>3, <1>5, <2>1, Taken
<1>7. CASE gov.pc = "lastTrim"
  <2>1. capacity = gov.target
    BY <1>7 DEF GovernorInv, CapInv
  <2>2. released
    BY <1>1, <1>5, <1>7 DEF GovernorInv, StepInv, GovernorTypeOK
  <2> QED
    BY <1>3, <1>5, <2>1, <2>2
<1> QED
  BY <1>1, <1>6, <1>7

\* No trim of the governor evicts bytes its target has room for, however
\* the cache changes between the pass's calls (governor.go:349-364).
THEOREM NeverOverTrimsHolds == GovernorSpec => NeverOverTrims
<1>1. GovernorInv /\ [GovernorNext]_governorVars => [gov' # gov /\ filled' < filled => filled' >= gov.target]_governorVars
  BY OnlyTrims, TrimLeaves
<1> QED
  BY <1>1, GovernorInvHolds, PTL DEF GovernorSpec, NeverOverTrims

\* Unless the pass had pins or the deferral released under it, no trim of
\* the governor evicts more than a step and what was written meanwhile
\* (governor.go:349-364).
THEOREM TrimsAreStepsHolds == GovernorSpec => TrimsAreSteps
<1>1. GovernorInv /\ [GovernorNext]_governorVars =>
        [gov' # gov /\ filled' < filled => released \/ filled - filled' <= TrimStepBytes + grown]_governorVars
  BY OnlyTrims, TrimLeaves
<1> QED
  BY <1>1, GovernorInvHolds, PTL DEF GovernorSpec, TrimsAreSteps
=============================================================================
