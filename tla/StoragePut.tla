----------------------------- MODULE StoragePut -----------------------------
(***************************************************************************)
(* PUT /settings/storage (Governor.UpdateStorage) beside the downloads     *)
(* that the caps it sets bind: Keeps, releases and passes of               *)
(* downloads.Service.  Two mutexes order them: Governor.updates, one PUT   *)
(* at a time, and Service.passMu, which a PUT holds from reading the       *)
(* usage until its settings are stored (LockCommits).  The usage is the    *)
(* snapshot of the last pass.                                              *)
(***************************************************************************)
EXTENDS StorageLimits, FiniteSets, Sequences

CONSTANTS
    Putter,      \* the goroutines serving PUTs
    Patches,     \* the bodies they are sent
    Configs,     \* config.yaml's limit at each start, or Null
    Download,
    File,
    Size,        \* the size of each file
    Covers,      \* the files a download may cover, in episode order
    Late,        \* the files assigned and unassigned while Keeps run
    Failing,     \* whether a pass may fail after the rows were written
    Free         \* a mutex nobody holds

A == INSTANCE Admission

ASSUME PutAssumption ==
    /\ Patches \subseteq StorageSettingsPatch
    /\ Configs \subseteq Bytes /\ Configs # {}
    /\ Size \in [File -> Nat] /\ Failing \in BOOLEAN
    /\ Covers \in [Download -> Seq(File)] /\ Late \subseteq File
    /\ IsFiniteSet(Download) /\ Putter \cap Download = {} /\ Free \notin Putter \cup Download

VARIABLES
    settings,   \* the stored document
    broken,     \* whether it does not decode
    config,     \* this process's configBytes
    updates,    \* holder of Governor.updates
    put,        \* what each PUT has worked out
    assigned,   \* the files that are some item's
    kept,       \* the active kept downloads
    keep,       \* what the Keep of each download has worked out, and whether an
                \* assignment overtook it, which no code keeps
    commits,    \* holder of passMu: a PUT, or the download kept or released
    rows,       \* the kept downloads' files, in the order they joined
    usage       \* committed_kept_bytes of the snapshot; 0 without one

downloadVars == <<assigned, kept, keep, rows, usage>>
vars == <<settings, broken, config, updates, put, commits, downloadVars>>

-----------------------------------------------------------------------------
Idle == [pc |-> "idle"]
\* A document that does not decode reads as the defaults.
readSettings == IF broken THEN DefaultStorageSettings ELSE settings
Limit(s) == LimitBytes(s, config, DiskTotal)
KeptMax(s) == KeptMaxBytes(s, Limit(s))
Admitted(q, s) == A!AdmitQueue(q, KeptMax(s), {})
Candidates(d, files) ==
    [i \in 1..Len(files) |-> [download |-> d, file |-> files[i], size |-> Size[files[i]]]]
Bytesof(files) == Cardinality(UNION {{f} \X (1..Size[f]) : f \in files})
Members(seq) == {seq[i] : i \in 1..Len(seq)}

\* The elements of seq that are in S, in their order.
Among(seq, S) ==
    LET picked[i \in 0..Len(seq)] ==
          IF i = 0 THEN <<>>
          ELSE IF seq[i] \in S THEN Append(picked[i - 1], seq[i]) ELSE picked[i - 1]
    IN  picked[Len(seq)]

\* The files d covers now.
Covered(d) == Among(Covers[d], assigned)

Init ==
    /\ settings = DefaultStorageSettings /\ broken \in BOOLEAN /\ config \in Configs
    /\ updates = Free /\ put = [p \in Putter |-> Idle]
    /\ assigned = File \ Late /\ kept = {} /\ keep = [d \in Download |-> Idle]
    /\ commits = Free /\ rows = <<>> /\ usage = 0

-----------------------------------------------------------------------------
(* UpdateStorage.                                                          *)

\* As if PUTs were not serialised.
BugPutRead(p, patch) ==
    /\ put[p] = Idle
    /\ LET merged == Apply(patch, readSettings)
       IN  /\ checkLimits(patch, merged, Limit(merged), DiskTotal) = ""
           /\ put' = [put EXCEPT ![p] =
                [pc |-> "checked", patch |-> patch, merged |-> merged, broken |-> broken,
                 before |-> KeptMax(readSettings), after |-> KeptMax(merged)]]
    /\ updates' = p
    /\ UNCHANGED <<settings, broken, config, commits, downloadVars>>

\* Under updates: the settings are read, the patch applied and checked.  A
\* refusal changes nothing.
PutRead(p, patch) ==
    /\ put[p] = Idle /\ updates = Free
    /\ LET merged == Apply(patch, readSettings)
       IN  /\ checkLimits(patch, merged, Limit(merged), DiskTotal) = ""
           /\ put' = [put EXCEPT ![p] =
                [pc |-> "checked", patch |-> patch, merged |-> merged, broken |-> broken,
                 before |-> KeptMax(readSettings), after |-> KeptMax(merged)]]
    /\ updates' = p
    /\ UNCHANGED <<settings, broken, config, commits, downloadVars>>

\* As if the downloads had no commit guard.
BugPutLock(p) ==
    /\ put[p].pc = "checked"
    /\ put' = [put EXCEPT ![p].pc = "locked"]
    /\ UNCHANGED <<settings, broken, config, updates, commits, downloadVars>>

PutLock(p) ==
    /\ put[p].pc = "checked" /\ commits = Free
    /\ commits' = p
    /\ put' = [put EXCEPT ![p].pc = "locked"]
    /\ UNCHANGED <<settings, broken, config, updates, downloadVars>>

Lowers(r) == r.after < usage /\ r.after < r.before

\* The usage allows the change.
PutApprove(p) ==
    /\ put[p].pc = "locked" /\ ~Lowers(put[p])
    /\ put' = [put EXCEPT ![p].pc = "approved"]
    /\ UNCHANGED <<settings, broken, config, updates, commits, downloadVars>>

\* As if one return left passMu locked.
BugPutReturns(p) ==
    /\ put' = [put EXCEPT ![p] = Idle]
    /\ updates' = Free
    /\ UNCHANGED <<config, commits, downloadVars>>

\* Both deferred unlocks.
PutReturns(p) ==
    /\ put' = [put EXCEPT ![p] = Idle]
    /\ updates' = Free /\ commits' = Free
    /\ UNCHANGED <<config, downloadVars>>

\* The usage forbids it, or the database fails.
PutRefuse(p) ==
    /\ \/ put[p].pc = "locked" /\ Lowers(put[p])
       \/ put[p].pc = "approved"
    /\ PutReturns(p)
    /\ UNCHANGED <<settings, broken>>

\* The patch merges into the stored document, or into the defaults over one
\* that does not decode.
PutStore(p) ==
    /\ put[p].pc = "approved"
    /\ settings' = Apply(put[p].patch,
                         IF put[p].broken THEN DefaultStorageSettings ELSE settings)
    /\ broken' = FALSE
    /\ PutReturns(p)

-----------------------------------------------------------------------------
(* A Keep: the target is resolved before passMu is taken, the plan read     *)
(* under it, and the download written after both.  Assignments take no     *)
(* mutex: one may land between any two of these steps.                     *)

\* The target and the files it covers, read without passMu.
KeepResolves(d) ==
    /\ keep[d] = Idle
    /\ keep' = [keep EXCEPT ![d] = [pc |-> "resolved", files |-> Covered(d), overtaken |-> FALSE]]
    /\ UNCHANGED <<settings, broken, config, updates, put, assigned, kept, commits, rows, usage>>

\* The 409's maths: the files of the resolved target that no kept download of
\* the plan has, against what the cap has left.
HasRoom(files) ==
    LET adm == Admitted(rows, readSettings)
        needed == Bytesof(Members(files) \ adm.files)
    IN  needed <= Greater(0, KeptMax(readSettings) - adm.bytes)

\* As if the plan were read before passMu is taken.
BugKeepPlans(d) ==
    /\ keep[d].pc = "resolved"
    /\ d \notin kept /\ HasRoom(keep[d].files)
    /\ keep' = [keep EXCEPT ![d].pc = "planned"]
    /\ UNCHANGED <<settings, broken, config, updates, put, assigned, kept, commits, rows, usage>>

\* Under passMu: the plan is read and has room for what the target covered
\* when it was resolved.
KeepPlans(d) ==
    /\ keep[d].pc = "resolved" /\ commits = Free
    /\ d \notin kept /\ HasRoom(keep[d].files)
    /\ commits' = d
    /\ keep' = [keep EXCEPT ![d].pc = "planned"]
    /\ UNCHANGED <<settings, broken, config, updates, put, assigned, kept, rows, usage>>

\* The target is kept already: Keep answers it, after a pass.
KeepAgain(d) ==
    /\ keep[d].pc = "resolved" /\ commits = Free /\ d \in kept
    /\ commits' = d
    /\ keep' = [keep EXCEPT ![d] = Idle]
    /\ UNCHANGED <<settings, broken, config, updates, put, assigned, kept, rows, usage>>

\* 404, 422 or 409, or a read fails.
KeepRefuses(d) ==
    /\ keep[d].pc = "resolved"
    /\ keep' = [keep EXCEPT ![d] = Idle]
    /\ UNCHANGED <<settings, broken, config, updates, put, assigned, kept, commits, rows, usage>>

\* The download is written, created now, and covers what is assigned by now;
\* a pass follows.
KeepCreate(d) ==
    /\ keep[d].pc = "planned"
    /\ kept' = kept \cup {d}
    /\ rows' = rows \o Candidates(d, Covered(d))
    /\ keep' = [keep EXCEPT ![d] = Idle]
    /\ UNCHANGED <<settings, broken, config, updates, put, assigned, commits, usage>>

\* The write fails.
KeepFails(d) ==
    /\ keep[d].pc = "planned"
    /\ commits' = Free
    /\ keep' = [keep EXCEPT ![d] = Idle]
    /\ UNCHANGED <<settings, broken, config, updates, put, assigned, kept, rows, usage>>

-----------------------------------------------------------------------------
(* Releases, passes and assignments.                                       *)

\* A DELETE, or a release that is due and written as a Keep or a pass begins.
Release(d) ==
    /\ commits = Free /\ d \in kept
    /\ commits' = d
    /\ kept' = kept \ {d}
    /\ rows' = Among(rows, {r \in Members(rows) : r.download # d})
    /\ UNCHANGED <<settings, broken, config, updates, put, assigned, keep, usage>>

\* The pass a Keep or a release ends with, its error one of plan's reads.
PassAfter(d) ==
    /\ commits = d /\ keep[d].pc # "planned"
    /\ commits' = Free
    /\ \/ Failing /\ usage' = usage
       \/ usage' = Admitted(rows, readSettings).bytes
    /\ UNCHANGED <<settings, broken, config, updates, put, assigned, kept, keep, rows>>

\* The manager's own pass, every minute and on Wake.
Pass ==
    /\ commits = Free
    /\ usage' = Admitted(rows, readSettings).bytes
    /\ UNCHANGED <<settings, broken, config, updates, put, assigned, kept, keep, commits, rows>>

\* An assignment overtakes the Keeps under way.
Overtakes == keep' = [d \in Download |->
                        IF keep[d] = Idle THEN Idle ELSE [keep[d] EXCEPT !.overtaken = TRUE]]

\* An apply or an override assigns a file, and it joins the kept downloads that
\* cover it.  Its time is that of its transaction's start, so it may join
\* ahead of rows that joined meanwhile.
Assign(f) ==
    /\ f \in Late \ assigned
    /\ assigned' = assigned \cup {f}
    /\ LET into == {d \in kept : f \in Members(Covers[d])}
       IN  \E at \in 0..Len(rows), order \in [1..Cardinality(into) -> into] :
             /\ Members(order) = into
             /\ rows' = SubSeq(rows, 1, at)
                          \o [i \in DOMAIN order |->
                                [download |-> order[i], file |-> f, size |-> Size[f]]]
                          \o SubSeq(rows, at + 1, Len(rows))
    /\ Overtakes
    /\ UNCHANGED <<settings, broken, config, updates, put, kept, commits, usage>>

\* A file stops being its items' and leaves every download.
Unassign(f) ==
    /\ f \in Late \cap assigned
    /\ assigned' = assigned \ {f}
    /\ rows' = Among(rows, {r \in Members(rows) : r.file # f})
    /\ Overtakes
    /\ UNCHANGED <<settings, broken, config, updates, put, kept, commits, usage>>

\* The process ends anywhere and starts again: the database stays, the
\* snapshot does not, and config.yaml may have changed.
Restart(c) ==
    /\ config' = c
    /\ updates' = Free /\ put' = [p \in Putter |-> Idle]
    /\ commits' = Free /\ keep' = [d \in Download |-> Idle] /\ usage' = 0
    /\ UNCHANGED <<settings, broken, assigned, kept, rows>>

Next ==
    \/ \E p \in Putter :
          \/ \E patch \in Patches : PutRead(p, patch)
          \/ PutLock(p) \/ PutApprove(p) \/ PutRefuse(p) \/ PutStore(p)
    \/ \E d \in Download :
          \/ KeepResolves(d) \/ KeepPlans(d) \/ KeepAgain(d) \/ KeepRefuses(d)
          \/ KeepCreate(d) \/ KeepFails(d) \/ Release(d) \/ PassAfter(d)
    \/ \E f \in File : Assign(f) \/ Unassign(f)
    \/ Pass
    \/ \E c \in Configs : Restart(c)

Spec == Init /\ [][Next]_vars

\* A handler that holds a mutex goes on, and Go hands a mutex to the
\* goroutine that has waited longest, so no PUT waits for passMu forever.
FairSpec ==
    /\ Spec
    /\ \A p \in Putter : SF_vars(PutLock(p)) /\ WF_vars(PutApprove(p) \/ PutRefuse(p) \/ PutStore(p))
    /\ \A d \in Download : WF_vars(KeepCreate(d) \/ KeepFails(d)) /\ WF_vars(PassAfter(d))

-----------------------------------------------------------------------------
PutTypes ==
    /\ settings \in StorageSettings /\ broken \in BOOLEAN /\ config \in Configs
    /\ updates \in Putter \cup {Free} /\ commits \in Putter \cup Download \cup {Free}
    /\ put \in [Putter -> {Idle} \cup
          [pc : {"checked", "locked", "approved"}, patch : Patches, merged : StorageSettings,
           broken : BOOLEAN, before : Nat, after : Nat]]

Candidate == [download : Download, file : File, size : Nat]

TypeOK ==
    /\ PutTypes
    /\ assigned \subseteq File /\ kept \subseteq Download
    /\ keep \in [Download -> {Idle} \cup
          [pc : {"resolved", "planned"}, files : Seq(File), overtaken : BOOLEAN]]
    /\ rows \in Seq(Candidate) /\ usage \in Nat

\* A PUT stores exactly the settings its checks were made of: no other PUT
\* comes between (governor.go:143-144, "each one is checked against the settings
\* it's merged into").
PutStoresWhatItChecked ==
    [][settings' # settings =>
         \E p \in Putter : put[p].pc = "approved" /\ settings' = put[p].merged]_vars

\* Whatever was stored before and whatever config.yaml became since, a PUT
\* that sends the limit or the kept cap leaves both explicit caps fitting.
AcceptedCapsFit ==
    [][settings' # settings =>
         \E p \in Putter :
            /\ put[p].pc = "approved"
            /\ put[p].patch.setLimit \/ put[p].patch.setKept =>
                 CapsFit(settings', LimitBytes(settings', config, DiskTotal))]_vars

\* While config.yaml stays as it is, explicit caps that fit the limit go on
\* fitting it after any PUTs in any order, those that send one cap alone
\* included, so no later PUT is refused for what an earlier one stored
\* (patch.go:181-182).
CapsStayFit ==
    [][config' = config /\ CapsFit(readSettings, Limit(readSettings)) =>
         CapsFit(readSettings, Limit(readSettings))']_vars

\* A PUT that does not raise the kept cap leaves every admitted kept file
\* admitted, when the last pass had seen the rows as they are: no Keep comes
\* between its look at the usage and its store.
PutSparesAdmitted ==
    [][ /\ settings' # settings
        /\ usage = Admitted(rows, readSettings).bytes
        /\ KeptMax(readSettings)' <= KeptMax(readSettings)
        => (Admitted(rows, readSettings).files)' = Admitted(rows, readSettings).files]_vars

\* A Keep that is accepted displaces no file of another download, files over
\* the cap and shared files included; and unless an assignment overtook it,
\* all its files are admitted.  One that lands after the target was resolved
\* (service.go:65, 73, 77, 117) makes it want files the 409's maths never
\* counted, or leaves them less room: they wait over the cap.
KeepIsAdmitted ==
    [][\A d \in Download : d \in kept' \ kept =>
         LET before == Admitted(rows, readSettings).files
             after == (Admitted(rows, readSettings).files)'
         IN  /\ before \subseteq after
             /\ ~keep[d].overtaken => after = before \cup Members(Covered(d))]_vars

\* Every PUT returns: PUTs and Keeps never wait for each other in a circle,
\* and no stream of Keeps holds a PUT off.
PutsReturn == \A p \in Putter : put[p] # Idle ~> put[p] = Idle
=============================================================================
