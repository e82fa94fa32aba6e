--------------------------- MODULE TraktConnection ---------------------------
(***************************************************************************)
(* One member's Trakt connection and its sync (internal/trakt, auth.go and *)
(* sync.go): the device-code connect and its pollers, the tokens and their *)
(* refresh, reauth, disconnect, and the import that writes under the       *)
(* connection's generation.                                                *)
(*                                                                         *)
(* A token pair is an access token and the single-use refresh token it     *)
(* came with.  Trakt keeps a set of pairs it accepts; a refresh trades one *)
(* for the next.  The lock order is life, refreshMu, mu: mu's sections are *)
(* atomic steps, the other two are variables.  A generation (connected_at) *)
(* is named by the pair it was connected with: like it, never used twice.  *)
(***************************************************************************)
EXTENDS Integers, FiniteSets

CONSTANTS
  Accounts,     \* the Trakt accounts the member may sign in to
  MaxPairs,     \* bound: token pairs Trakt ever hands out
  MaxFlows,     \* bound: pollers at once (one live, the others cancelled)
  MaxCrashes,   \* bound: restarts
  MaxErrors     \* bound: lost answers and failed database calls, together

ASSUME BoundsAssumption ==
  /\ MaxPairs \in Nat /\ MaxFlows \in Nat /\ MaxCrashes \in Nat /\ MaxErrors \in Nat

Pairs == 1..MaxPairs
Flows == 1..MaxFlows
NoRow == [gen |-> 0, account |-> {}, pair |-> 0, reauth |-> FALSE]
NoTokens == [pair |-> 0, rejected |-> FALSE, afterRejection |-> FALSE, unsaved |-> FALSE]
NoPoller == [pc |-> "none", from |-> "off", cancelled |-> FALSE, pair |-> 0]
NoResume == [kind |-> "none", step |-> 0, snapshot |-> {}]
NoRun == [pc |-> "none", known |-> FALSE, kind |-> "none", step |-> 0, snapshot |-> {},
          gen |-> 0, token |-> 0, tokenGen |-> 0, next |-> 0, back |-> "none", retry |-> FALSE,
          got |-> {}, cancelled |-> FALSE, moved |-> FALSE]

VARIABLES
  live,        \* Trakt: the pairs it accepts
  owner,       \* Trakt: whose each pair is; {} before it is handed out
  row,         \* database: trakt_auth; its account is a singleton
  data,        \* database: whose rows each section holds; 0 is the stored last_activities
  state,       \* a.state
  gen,         \* a.gen
  tokens,      \* a.tokens
  flow,        \* a.flow; 0: none
  poller,      \* the pollers' goroutines, by device code
  life,        \* who holds a.life: "" when nobody does
  refreshMu,   \* who holds a.refreshMu
  disconnect,  \* the disconnect under way
  trigger,     \* the goroutine OnConnected started
  sync,        \* s.queued, s.initial, s.resume
  run,         \* the sync's goroutine; s.running: there is one
  lost,        \* history: pairs nobody can revoke any more
  blame,       \* history: this connection's pair was taken from it
  interrupted, \* history: a disconnect or a restart ended this connection's import
  imported,    \* history: this connection had a full import of its own account
  crashes, errors

vars == <<live, owner, row, data, state, gen, tokens, flow, poller, life, refreshMu, disconnect,
          trigger, sync, run, lost, blame, interrupted, imported, crashes, errors>>
trakt == <<live, owner, lost, blame>>
stored == <<row, data, imported>>
memory == <<state, gen, tokens, flow>>
syncing == <<trigger, sync, run>>
locks == <<life, refreshMu>>
bounds == <<crashes, errors>>

NoSync == [queued |-> FALSE, initial |-> FALSE, resume |-> NoResume]
Init ==
  /\ live = {} /\ owner = [p \in Pairs |-> {}]
  /\ row = NoRow /\ data = [s \in 0..1 |-> {}]
  /\ state = "off" /\ gen = 0 /\ tokens = NoTokens /\ flow = 0
  /\ poller = [f \in Flows |-> NoPoller]
  /\ life = "" /\ refreshMu = "" /\ disconnect = "none"
  /\ trigger = FALSE /\ sync = NoSync /\ run = NoRun
  /\ lost = {} /\ blame = FALSE /\ interrupted = FALSE /\ imported = FALSE
  /\ crashes = 0 /\ errors = 0

(***************************************************************************)
(* Helpers                                                                 *)
(***************************************************************************)
Unused == {p \in Pairs : owner[p] = {}}
NextPair == CHOOSE p \in Unused : TRUE
IdlePoller(f) == poller[f].pc = "none" /\ \A g \in 1..(f - 1) : poller[g].pc # "none"
CanFail == errors < MaxErrors
Fails == CanFail /\ errors' = errors + 1
Works == UNCHANGED errors

\* linkedLocked: an account is linked
Linked == \/ state \in {"connected", "reauth"}
          \/ flow # 0 /\ poller[flow].from = "reauth"

\* endFlowLocked, by the flow's own goroutine, which ends
EndFlow(f) ==
  /\ poller' = [poller EXCEPT ![f] = NoPoller]
  /\ IF flow = f THEN flow' = 0 /\ state' = poller[f].from ELSE UNCHANGED <<flow, state>>

\* cancels the live code and goes back to where it came from
DropFlow ==
  /\ poller' = [poller EXCEPT ![flow].cancelled = TRUE]
  /\ flow' = 0
  /\ state' = poller[flow].from

\* revoke: best effort, so a failed one leaves the pair at Trakt
Revoke(p) ==
  \/ live' = live \ {p} /\ lost' = lost /\ Works
  \/ live' = live /\ lost' = lost \cup ({p} \cap live) /\ Fails

\* purgeTrakt and the guard of every sync write (TraktSyncStore.write)
Purged == [s \in 0..1 |-> {}]
BugCurrent(g) == row # NoRow
Current(g) == row.gen = g

(***************************************************************************)
(* Connect and the pollers                                                 *)
(***************************************************************************)
\* an expired code is ended first; then a device code and its poller, or no answer:
\* life is held over the call, and nothing else moves a code or a state off it
Connect ==
  LET back == IF flow = 0 THEN state ELSE poller[flow].from
      ended == IF flow = 0 THEN poller ELSE [poller EXCEPT ![flow].cancelled = TRUE] IN
  /\ life = "" /\ state # "connected"
  /\ \/ \E f \in Flows :
          /\ IdlePoller(f)
          /\ poller' = [ended EXCEPT ![f] = [NoPoller EXCEPT !.pc = "polling", !.from = back]]
          /\ flow' = f /\ state' = "pending"
     \/ poller' = ended /\ flow' = 0 /\ state' = back
  /\ UNCHANGED <<trakt, stored, gen, tokens, locks, disconnect, syncing, interrupted, bounds>>

\* the user approved: Trakt hands out a pair, and its answer arrives or is lost
PollApproved(f) ==
  /\ poller[f].pc = "polling" /\ poller[f].pair = 0 /\ Unused # {}
  /\ \E a \in Accounts :
       /\ owner' = [owner EXCEPT ![NextPair] = {a}]
       /\ live' = live \cup {NextPair}
       /\ \/ poller' = [poller EXCEPT ![f].pc = "approved", ![f].pair = NextPair] /\ lost' = lost /\ Works
          \/ poller' = [poller EXCEPT ![f].pair = NextPair] /\ lost' = lost \cup {NextPair} /\ Fails
  /\ UNCHANGED <<stored, memory, locks, disconnect, syncing, blame, interrupted, crashes>>

\* the code expired, was denied, refused or already used; or it was cancelled
PollEnded(f) ==
  /\ poller[f].pc = "polling"
  /\ IF poller[f].cancelled THEN poller' = [poller EXCEPT ![f] = NoPoller] /\ UNCHANGED <<flow, state>>
                            ELSE EndFlow(f)
  /\ UNCHANGED <<trakt, stored, gen, tokens, locks, disconnect, syncing, interrupted, bounds>>

\* finishConnect cannot read the account: revoke, end the code
FinishUnread(f) ==
  /\ poller[f].pc = "approved"
  /\ Revoke(poller[f].pair)
  /\ EndFlow(f)
  /\ UNCHANGED <<owner, blame, stored, gen, tokens, locks, disconnect, syncing, interrupted, crashes>>

BugFinishCancelled(f) ==
  /\ poller[f].pc = "approved" /\ life = "" /\ poller[f].cancelled
  /\ poller' = [poller EXCEPT ![f] = NoPoller]
  /\ UNCHANGED <<trakt, stored, memory, locks, disconnect, syncing, interrupted, bounds>>

\* finishConnect takes life: a code cancelled meanwhile is revoked
FinishCancelled(f) ==
  /\ poller[f].pc = "approved" /\ life = "" /\ poller[f].cancelled
  /\ Revoke(poller[f].pair)
  /\ poller' = [poller EXCEPT ![f] = NoPoller]
  /\ UNCHANGED <<owner, blame, stored, memory, locks, disconnect, syncing, interrupted, crashes>>

\* TraktAuthRepository.Connect, in one transaction: another account purges first
FinishStored(f) ==
  LET p == poller[f].pair IN
  /\ poller[f].pc = "approved" /\ life = "" /\ ~poller[f].cancelled
  /\ life' = "finish"
  /\ row' = [gen |-> p, account |-> owner[p], pair |-> p, reauth |-> FALSE]
  /\ data' = IF row.account = owner[p] THEN data ELSE Purged
  /\ poller' = [poller EXCEPT ![f].pc = "stored"]
  /\ blame' = (p \notin live) /\ interrupted' = FALSE /\ imported' = FALSE
  /\ UNCHANGED <<live, owner, lost, memory, refreshMu, disconnect, syncing, bounds>>

\* it failed: another member has the account (not revoked), or the database did
FinishRefused(f) ==
  LET p == poller[f].pair IN
  /\ poller[f].pc = "approved" /\ life = "" /\ ~poller[f].cancelled
  /\ \/ live' = live /\ lost' = lost \cup {p} /\ Works
     \/ live' = live \ {p} /\ lost' = lost /\ Fails
  /\ EndFlow(f)
  /\ UNCHANGED <<owner, blame, stored, gen, tokens, locks, disconnect, syncing, interrupted, crashes>>

\* the memory follows, life is let go and OnConnected starts the import's goroutine
FinishConnected(f) ==
  /\ poller[f].pc = "stored"
  /\ state' = "connected" /\ flow' = 0 /\ gen' = row.gen
  /\ tokens' = [NoTokens EXCEPT !.pair = poller[f].pair]
  /\ poller' = [poller EXCEPT ![f] = NoPoller]
  /\ life' = "" /\ trigger' = TRUE
  /\ UNCHANGED <<trakt, stored, refreshMu, disconnect, sync, run, interrupted, bounds>>

(***************************************************************************)
(* Disconnect                                                              *)
(***************************************************************************)
\* a pending code is cancelled, and that is all; otherwise the sync is stopped
Disconnect ==
  /\ life = "" /\ disconnect = "none"
  /\ IF flow # 0
     THEN DropFlow /\ UNCHANGED <<life, disconnect>>
     ELSE life' = "disconnect" /\ disconnect' = "stopping" /\ UNCHANGED <<poller, flow, state>>
  /\ UNCHANGED <<trakt, stored, gen, tokens, refreshMu, syncing, interrupted, bounds>>

\* StopSync: what is queued is forgotten, the running sync cancelled; the wait
\* for it ends after 10 s whatever it does, so it may still be running then
DisconnectStopSync ==
  /\ disconnect = "stopping"
  /\ sync' = [sync EXCEPT !.queued = FALSE, !.initial = FALSE, !.resume = NoResume]
  /\ run' = IF run.pc \in {"none", "reading", "planning"} THEN run
            ELSE [run EXCEPT !.moved = TRUE, !.cancelled = TRUE]
  /\ disconnect' = "locking" /\ interrupted' = TRUE
  /\ UNCHANGED <<trakt, stored, memory, poller, locks, trigger, bounds>>

\* with no refresh in flight, one transaction deletes the connection and all it
\* imported; a failure ends the call
DisconnectPurged ==
  /\ disconnect = "locking" /\ refreshMu = ""
  /\ \/ /\ row' = NoRow /\ data' = Purged /\ imported' = imported
        /\ disconnect' = "resetting" /\ refreshMu' = "disconnect" /\ life' = life /\ Works
     \/ UNCHANGED <<stored, refreshMu>> /\ disconnect' = "none" /\ life' = "" /\ Fails
  /\ UNCHANGED <<trakt, memory, poller, syncing, interrupted, crashes>>

\* the memory forgets the connection and its last token is revoked
DisconnectReset ==
  /\ disconnect = "resetting"
  /\ IF tokens.pair = 0 THEN UNCHANGED <<live, lost, errors>> ELSE Revoke(tokens.pair)
  /\ state' = "off" /\ gen' = 0 /\ tokens' = NoTokens /\ flow' = flow
  /\ disconnect' = "none" /\ life' = "" /\ refreshMu' = ""
  /\ imported' = FALSE /\ blame' = FALSE /\ interrupted' = FALSE
  /\ UNCHANGED <<owner, row, data, poller, syncing, crashes>>

(***************************************************************************)
(* The sync's goroutine: trigger, start, plan, finish                      *)
(***************************************************************************)
BugTrigger(initial) ==
  IF state # "connected" THEN UNCHANGED <<sync, run>>
  ELSE IF run.pc # "none" THEN sync' = [sync EXCEPT !.queued = TRUE] /\ run' = run
  ELSE /\ sync' = IF initial THEN [sync EXCEPT !.initial = TRUE, !.resume = NoResume] ELSE sync
       /\ run' = [NoRun EXCEPT !.pc = "reading"]

\* trigger(initial): dropped unless connected, queued behind a running sync
Trigger(initial) ==
  IF state # "connected" THEN UNCHANGED <<sync, run>>
  ELSE LET asked == IF initial THEN [sync EXCEPT !.initial = TRUE, !.resume = NoResume] ELSE sync IN
       IF run.pc # "none" THEN sync' = [asked EXCEPT !.queued = TRUE] /\ run' = run
                          ELSE sync' = asked /\ run' = [NoRun EXCEPT !.pc = "reading"]

\* the goroutine a connect started
TriggerInitial ==
  /\ trigger /\ Trigger(TRUE) /\ trigger' = FALSE
  /\ UNCHANGED <<trakt, stored, memory, poller, locks, disconnect, interrupted, bounds>>

\* the half-hourly check, Nudge and SyncNow
TriggerCheck ==
  /\ state = "connected" /\ Trigger(FALSE)
  /\ UNCHANGED <<trakt, stored, memory, poller, locks, disconnect, trigger, interrupted, bounds>>

\* start reads the stored state; failing, it ends
StartRead ==
  /\ run.pc = "reading"
  /\ \/ run' = [run EXCEPT !.pc = "planning", !.known = data[0] # {}] /\ Works
     \/ run' = NoRun /\ Fails
  /\ UNCHANGED <<trakt, stored, memory, poller, locks, disconnect, trigger, sync, interrupted, crashes>>

\* planLocked: an import owed, a failed one, a first one, a reconcile (which does
\* the same), a check
Plans ==
  IF sync.initial THEN {[NoResume EXCEPT !.kind = "full"]}
  ELSE IF sync.resume # NoResume THEN {sync.resume}
  ELSE {[NoResume EXCEPT !.kind = k] : k \in {"full"} \cup (IF run.known THEN {"incremental"} ELSE {})}
StartPlanned ==
  /\ run.pc = "planning"
  /\ \E p \in Plans :
       run' = [NoRun EXCEPT !.pc = "token", !.kind = p.kind, !.step = p.step, !.snapshot = p.snapshot]
  /\ sync' = [sync EXCEPT !.initial = FALSE, !.resume = NoResume]
  /\ UNCHANGED <<trakt, stored, memory, poller, locks, disconnect, trigger, interrupted, bounds>>

\* finish: a sync that failed is picked up at its step, unless it was stopped
\* or the connection went; "failed" is any other error
Finish(outcome) ==
  /\ run' = [NoRun EXCEPT !.pc = "ending"]
  /\ IF outcome = "failed" /\ ~run.cancelled /\ ~run.moved /\ run.kind # "incremental"
     THEN sync' = [sync EXCEPT !.resume =
                    IF run.gen = 0 THEN [NoResume EXCEPT !.kind = run.kind]
                    ELSE [kind |-> run.kind, step |-> run.step, snapshot |-> run.snapshot]]
     ELSE sync' = sync

\* the goroutine's end: one more when something queued behind it
RunAgain ==
  /\ run.pc = "ending"
  /\ sync' = [sync EXCEPT !.queued = FALSE]
  /\ run' = IF sync.queued THEN [NoRun EXCEPT !.pc = "reading"] ELSE NoRun
  /\ UNCHANGED <<trakt, stored, memory, poller, locks, disconnect, trigger, interrupted, bounds>>

(***************************************************************************)
(* Token, Invalidate and refresh, by the sync                              *)
(***************************************************************************)
AfterToken == IF run.step = 2 THEN "done" ELSE "fetch"
\* what follows a token handed out: the sync's first, or a request's
Handed(p) ==
  IF run.back = "token"
  THEN [run EXCEPT !.pc = AfterToken, !.gen = gen, !.token = 0, !.tokenGen = 0, !.next = 0, !.back = "none"]
  ELSE [run EXCEPT !.pc = "asking", !.token = p, !.tokenGen = gen, !.next = 0, !.back = "none"]
\* what follows Invalidate's nil: the request runs once more, then fails
Retried ==
  IF run.retry THEN Finish("failed")
  ELSE run' = [run EXCEPT !.pc = "fetch", !.retry = TRUE, !.token = 0, !.tokenGen = 0, !.next = 0,
                               !.back = "none"] /\ sync' = sync

\* Token: no connection, an unsaved pair to store first, a pair that will do, or a refresh
Token ==
  /\ run.pc \in {"token", "fetch"} /\ refreshMu = ""
  /\ \/ /\ state # "connected"
        /\ Finish("gone") /\ UNCHANGED <<row, tokens, refreshMu, errors>>
     \/ /\ state = "connected" /\ tokens.unsaved
        /\ \/ /\ row' = IF Current(gen) THEN [row EXCEPT !.pair = tokens.pair] ELSE row
              /\ IF Current(gen) THEN UNCHANGED <<run, sync>> ELSE Finish("gone")
              /\ tokens' = [tokens EXCEPT !.unsaved = ~Current(gen)] /\ Works
           \/ Finish("failed") /\ UNCHANGED <<row, tokens>> /\ Fails
        /\ UNCHANGED refreshMu
     \/ /\ state = "connected" /\ ~tokens.unsaved /\ ~tokens.rejected
        /\ run' = IF run.pc = "token" THEN [run EXCEPT !.pc = AfterToken, !.gen = gen]
                  ELSE [run EXCEPT !.pc = "asking", !.token = tokens.pair, !.tokenGen = gen]
        /\ UNCHANGED <<row, sync, tokens, refreshMu, errors>>
     \/ /\ state = "connected" /\ ~tokens.unsaved
        /\ refreshMu' = "sync"
        /\ run' = [run EXCEPT !.pc = "refresh", !.back = run.pc, !.token = tokens.pair, !.tokenGen = gen]
        /\ UNCHANGED <<row, sync, tokens, errors>>
  /\ UNCHANGED <<trakt, data, imported, state, gen, flow, poller, life, disconnect, trigger, interrupted, crashes>>

\* Trakt trades the refresh token for a new pair, once; the old pair is dead either way
Rotated == live' = (live \ {run.token}) \cup {NextPair}
RefreshAnswered ==
  /\ run.pc = "refresh" /\ run.token \in live /\ Unused # {}
  /\ Rotated /\ owner' = [owner EXCEPT ![NextPair] = owner[run.token]]
  /\ run' = [run EXCEPT !.pc = "saving", !.next = NextPair]
  /\ UNCHANGED <<lost, blame, stored, memory, poller, locks, disconnect, trigger, sync, interrupted, bounds>>

\* the refresh fails (the answer lost after the trade, or nothing reached Trakt):
\* Token goes on with the pair it has, unless that is rejected or expired
RefreshFailed ==
  /\ run.pc = "refresh" /\ Fails
  /\ \/ UNCHANGED trakt
     \/ /\ run.token \in live /\ Unused # {}
        /\ Rotated /\ owner' = [owner EXCEPT ![NextPair] = owner[run.token]]
        /\ lost' = lost \cup {NextPair} /\ blame' = TRUE
  /\ \/ run.back # "invalid" /\ ~tokens.rejected /\ run' = Handed(run.token) /\ sync' = sync
     \/ Finish("failed")
  /\ refreshMu' = ""
  /\ UNCHANGED <<stored, memory, poller, life, disconnect, trigger, interrupted, crashes>>

\* Trakt refuses the refresh token, setReauth: the memory first
RefreshRefused ==
  /\ run.pc = "refresh" /\ run.token \notin live
  /\ IF gen = run.tokenGen /\ state = "connected"
     THEN state' = "reauth" /\ run' = [run EXCEPT !.pc = "reauth"] /\ UNCHANGED <<sync, refreshMu>>
     ELSE Finish("gone") /\ state' = state /\ refreshMu' = ""
  /\ UNCHANGED <<trakt, stored, gen, tokens, flow, poller, life, disconnect, trigger, interrupted, bounds>>

\* setReauth's store, of the same generation only
ReauthStored ==
  /\ run.pc = "reauth"
  /\ \/ row' = (IF Current(run.tokenGen) THEN [row EXCEPT !.reauth = TRUE] ELSE row) /\ Works
     \/ row' = row /\ Fails
  /\ Finish("gone") /\ refreshMu' = ""
  /\ UNCHANGED <<trakt, data, imported, memory, poller, life, disconnect, trigger, interrupted, crashes>>

NextTokens == [pair |-> run.next, rejected |-> FALSE, afterRejection |-> tokens.rejected, unsaved |-> FALSE]
BugRefreshedSaved(unsaved) == NextTokens
BugRefreshedKept(unsaved) == IF unsaved THEN tokens ELSE NextTokens

\* what refresh keeps: the new pair even unsaved, the old one is dead either way
Refreshed(unsaved) == [NextTokens EXCEPT !.unsaved = unsaved]

\* saveTokens and the memory: refreshMu holds off all that could come between
RefreshSaved ==
  LET same == gen = run.tokenGen /\ state = "connected" IN
  /\ run.pc = "saving"
  /\ \/ /\ Current(run.tokenGen) /\ row' = [row EXCEPT !.pair = run.next] /\ Works
        /\ IF ~same THEN Finish("gone") /\ UNCHANGED tokens
           ELSE /\ tokens' = Refreshed(FALSE)
                /\ IF run.back = "invalid" THEN Retried ELSE run' = Handed(run.next) /\ sync' = sync
     \/ ~Current(run.tokenGen) /\ Finish("gone") /\ UNCHANGED <<row, tokens>> /\ Works
     \/ /\ row' = row /\ Fails
        /\ IF same THEN Finish("failed") /\ tokens' = Refreshed(TRUE) ELSE Finish("gone") /\ UNCHANGED tokens
  /\ refreshMu' = ""
  /\ UNCHANGED <<trakt, data, imported, state, gen, flow, poller, life, disconnect, trigger, interrupted, crashes>>

\* Invalidate, after a 401 to the token asked with
Invalidate ==
  /\ run.pc = "invalid" /\ refreshMu = ""
  /\ IF state # "connected" THEN Finish("gone") /\ UNCHANGED <<state, tokens, refreshMu>>
     ELSE IF tokens.pair # run.token \/ gen # run.tokenGen
     THEN Retried /\ UNCHANGED <<state, tokens, refreshMu>>
     ELSE /\ refreshMu' = "sync" /\ sync' = sync
          /\ IF tokens.afterRejection
             THEN /\ state' = "reauth" /\ tokens' = tokens
                  /\ run' = [run EXCEPT !.pc = "reauth"]
             ELSE /\ tokens' = [tokens EXCEPT !.rejected = TRUE] /\ state' = state
                  /\ run' = [run EXCEPT !.pc = "refresh", !.back = "invalid"]
  /\ UNCHANGED <<trakt, stored, gen, flow, poller, life, disconnect, trigger, interrupted, bounds>>

(***************************************************************************)
(* The sync's requests and writes                                          *)
(***************************************************************************)
\* the account the token belongs to answers: last_activities, then the sections;
\* a check fetches only what changed
RunAnswered ==
  /\ run.pc = "asking" /\ run.token \in live
  /\ IF run.step = 0
     THEN \E pc \in {"fetch"} \cup (IF run.kind = "incremental" THEN {"done"} ELSE {}) :
            run' = [run EXCEPT !.pc = pc, !.step = 1, !.snapshot = owner[run.token], !.retry = FALSE,
                                !.token = 0, !.tokenGen = 0]
     ELSE run' = [run EXCEPT !.pc = "write", !.got = owner[run.token], !.retry = FALSE,
                              !.token = 0, !.tokenGen = 0]
  /\ UNCHANGED <<trakt, stored, memory, poller, locks, disconnect, trigger, sync, interrupted, bounds>>

\* a 401: the pair is dead, or Trakt turned its access token down alone
RunUnauthorized ==
  /\ run.pc = "asking"
  /\ run' = [run EXCEPT !.pc = "invalid"]
  /\ IF run.token \in live
     THEN /\ Fails /\ lost' = lost \cup {run.token}
          /\ blame' = (blame \/ tokens.afterRejection)
     ELSE UNCHANGED <<lost, blame, errors>>
  /\ UNCHANGED <<live, owner, stored, memory, poller, locks, disconnect, trigger, sync, interrupted, crashes>>

\* a request or a write fails
RunFailed ==
  /\ run.pc \in {"asking", "write", "done"}
  /\ Fails /\ Finish("failed")
  /\ UNCHANGED <<trakt, stored, memory, poller, locks, disconnect, trigger, interrupted, crashes>>

\* a cancelled sync may end at its next call
RunCancelled ==
  /\ run.cancelled /\ run.pc \in {"token", "fetch", "asking", "write", "done"}
  /\ Finish("stopped")
  /\ UNCHANGED <<trakt, stored, memory, poller, locks, disconnect, trigger, interrupted, bounds>>

\* every write checks the connection it names in its transaction: Replace*, UpsertHistory
RunWrote ==
  /\ run.pc = "write"
  /\ IF Current(run.gen)
     THEN /\ data' = [data EXCEPT ![1] = run.got \cup (IF run.kind = "incremental" THEN @ ELSE {})]
          /\ run' = [run EXCEPT !.pc = "done", !.step = 2, !.got = {}] /\ sync' = sync
     ELSE Finish("gone") /\ data' = data
  /\ UNCHANGED <<trakt, row, imported, memory, poller, locks, disconnect, trigger, interrupted, bounds>>

\* FinishSync: the snapshot is stored, the sync ends well
RunDone ==
  /\ run.pc = "done"
  /\ IF Current(run.gen)
     THEN /\ data' = [data EXCEPT ![0] = run.snapshot]
          /\ imported' = (imported \/ (run.kind # "incremental" /\ run.snapshot = row.account))
          /\ Finish("done")
     ELSE Finish("gone") /\ UNCHANGED <<data, imported>>
  /\ UNCHANGED <<trakt, row, memory, poller, locks, disconnect, trigger, interrupted, bounds>>

(***************************************************************************)
(* A restart, and the user at Trakt                                        *)
(***************************************************************************)
\* a restart: Load reads the stored connection
Crash ==
  /\ crashes < MaxCrashes /\ crashes' = crashes + 1
  /\ state' = IF row = NoRow THEN "off" ELSE IF row.reauth THEN "reauth" ELSE "connected"
  /\ gen' = row.gen /\ tokens' = [NoTokens EXCEPT !.pair = row.pair] /\ flow' = 0
  /\ poller' = [f \in Flows |-> NoPoller]
  /\ life' = "" /\ refreshMu' = "" /\ disconnect' = "none"
  /\ trigger' = FALSE /\ sync' = NoSync /\ run' = NoRun
  /\ lost' = lost \cup (live \ {row.pair}) /\ blame' = (row # NoRow /\ (blame \/ row.pair \notin live))
  /\ interrupted' = (row # NoRow)
  /\ UNCHANGED <<live, owner, stored, errors>>

\* the user takes the grant back on Trakt's site
Withdraw ==
  /\ \E a \in Accounts : live' = {p \in live : owner[p] # {a}}
  /\ live' # live /\ blame' = (blame \/ state # "off") /\ Fails
  /\ UNCHANGED <<owner, lost, stored, memory, poller, locks, disconnect, syncing, interrupted, crashes>>

Next ==
  \/ Connect
  \/ \E f \in Flows : \/ PollApproved(f) \/ PollEnded(f) \/ FinishUnread(f) \/ FinishCancelled(f)
                      \/ FinishStored(f) \/ FinishRefused(f) \/ FinishConnected(f)
  \/ Disconnect \/ DisconnectStopSync \/ DisconnectPurged \/ DisconnectReset
  \/ TriggerInitial \/ TriggerCheck \/ StartRead \/ StartPlanned \/ RunAgain
  \/ Token \/ RefreshAnswered \/ RefreshFailed \/ RefreshRefused \/ ReauthStored \/ RefreshSaved
  \/ Invalidate \/ RunAnswered \/ RunUnauthorized \/ RunFailed \/ RunCancelled \/ RunWrote \/ RunDone
  \/ Crash \/ Withdraw

Spec == Init /\ [][Next]_vars

(***************************************************************************)
(* Properties                                                              *)
(***************************************************************************)
Pair0 == Pairs \cup {0}
RowType == [gen : Pair0, account : SUBSET Accounts, pair : Pair0, reauth : BOOLEAN]
TokensType == [pair : Pair0, rejected : BOOLEAN, afterRejection : BOOLEAN, unsaved : BOOLEAN]
PollerType == [pc : {"none", "polling", "approved", "stored"}, from : {"off", "reauth"},
               cancelled : BOOLEAN, pair : Pair0]
ResumeType == [kind : {"none", "full"}, step : 0..2, snapshot : SUBSET Accounts]
SyncType == [queued : BOOLEAN, initial : BOOLEAN, resume : ResumeType]
RunType == [pc : {"none", "reading", "planning", "token", "fetch", "asking", "write", "done", "ending",
                  "refresh", "saving", "reauth", "invalid"},
            known : BOOLEAN, kind : {"none", "full", "incremental"}, step : 0..2,
            snapshot : SUBSET Accounts, gen : Pair0, token : Pair0, tokenGen : Pair0, next : Pair0,
            back : {"none", "token", "fetch", "invalid"}, retry : BOOLEAN, got : SUBSET Accounts,
            cancelled : BOOLEAN, moved : BOOLEAN]
\* Type correctness.
TypeOK ==
  /\ live \subseteq Pairs /\ lost \subseteq Pairs /\ owner \in [Pairs -> SUBSET Accounts]
  /\ row \in RowType /\ data \in [0..1 -> SUBSET Accounts]
  /\ state \in {"off", "pending", "connected", "reauth"} /\ gen \in Pair0
  /\ tokens \in TokensType /\ flow \in Flows \cup {0} /\ poller \in [Flows -> PollerType]
  /\ life \in {"", "finish", "disconnect"} /\ refreshMu \in {"", "sync", "disconnect"}
  /\ disconnect \in {"none", "stopping", "locking", "resetting"}
  /\ trigger \in BOOLEAN /\ sync \in SyncType /\ run \in RunType
  /\ interrupted \in BOOLEAN /\ blame \in BOOLEAN /\ imported \in BOOLEAN
  /\ crashes \in Nat /\ errors \in Nat

\* The rows imported are the stored connection's: nothing lands after a disconnect,
\* and nothing of one account under another, whatever sync is still running
\* (TraktSyncStore.write, TraktAuthRepository.Connect and Purge).
DataIsTheAccounts == data[1] \subseteq row.account

\* With no connect, disconnect or refresh under way, memory and database name the
\* same connection and the same pair, unless the pair is marked to be stored first
\* (Auth.finishConnect, disconnect, refresh, saveTokens).
MemoryIsStored ==
  life = "" /\ refreshMu = "" =>
    /\ Linked <=> row # NoRow
    /\ gen = row.gen
    /\ tokens.unsaved \/ tokens.pair = row.pair

\* Every pair Trakt still accepts is one somebody here holds and can revoke or
\* use, unless its answer, its revoke or the process was lost (Auth.disconnect
\* takes refreshMu "so the token revoked is the last one"; finishConnect revokes).
NoGrantLeft ==
  live \subseteq lost \cup {row.pair, tokens.pair, run.next} \cup {poller[f].pair : f \in Flows}

\* The user is asked to connect again only when Trakt or a lost answer took the
\* pair, never because a refreshed pair was dropped or spent twice (Auth.refresh).
ReauthHasACause == state = "reauth" => blame

\* A connect's import is never forgotten: until one from the account's own
\* last_activities finished, it runs or the next sync does it, unless a disconnect
\* or a restart came between.  A cursor another account's sync left (StopSync misses
\* a sync that is still starting) is replaced so (Syncer.trigger, planLocked, finish).
ImportIsOwed ==
  state = "connected" /\ ~interrupted =>
    \/ imported \/ trigger \/ sync.initial \/ sync.resume # NoResume \/ data[0] = {}
    \/ run.kind = "full" /\ run.gen \in {0, gen}
=============================================================================
