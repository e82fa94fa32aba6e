------------------------ MODULE TraktConnectionProofs ------------------------
(***************************************************************************)
(* What the run of TraktConnection checks on two accounts and two pairs,   *)
(* proved for any number of accounts, pairs, codes, restarts and errors:   *)
(* the imported rows are the stored connection's; with no connect,         *)
(* disconnect or refresh under way memory and database name the same       *)
(* connection and pair; no pair Trakt accepts is forgotten; the user is    *)
(* asked to connect again only when the pair was taken; and an import that *)
(* nothing interrupted is never forgotten.                                 *)
(*                                                                         *)
(* The argument follows the pairs.  Every pair somebody names was handed   *)
(* out (the Out invariants), so a new one is nobody's and a generation is  *)
(* never used again (Fresh).  A generation's tokens, a refresh's answer    *)
(* and what a sync read with them are therefore its account's (Accounted*, *)
(* Generations), which is what a write that checks its generation needs.   *)
(* Memory and database move together because the locks say who stores      *)
(* what (Locks, RefreshLock, Codes, Storing, Mirrored).  On top of that    *)
(* invariant stand three more, each inductive with those before it: the    *)
(* pair a refresh, a connect or a disconnect replaces is dead (GrantInv);  *)
(* a pair in use goes only by its own refresh, so one that is refused was  *)
(* taken (BlameInv); and a cursor in the database belongs to an account    *)
(* whose import ended, or a full sync is planned or under way (OweInv).    *)
(***************************************************************************)
EXTENDS TraktConnection, TLAPS

USE BoundsAssumption

RowFields == {"gen", "account", "pair", "reauth"}
TokenFields == {"pair", "rejected", "afterRejection", "unsaved"}
PollerFields == {"pc", "from", "cancelled", "pair"}
RunFields == {"pc", "known", "kind", "step", "snapshot", "gen", "token", "tokenGen", "next",
              "back", "retry", "got", "cancelled", "moved"}

\* What the variables are functions of.
Domains ==
  /\ DOMAIN owner = Pairs /\ DOMAIN data = 0..1
  /\ DOMAIN row = RowFields /\ DOMAIN tokens = TokenFields
  /\ DOMAIN poller = Flows /\ (\A f \in Flows : DOMAIN poller[f] = PollerFields)
  /\ DOMAIN run = RunFields

\* What the fields and flags hold, where the argument needs it.
Ranges ==
  /\ state \in {"off", "pending", "connected", "reauth"}
  /\ flow \in Flows \cup {0}
  /\ life \in {"", "finish", "disconnect"}
  /\ refreshMu \in {"", "sync", "disconnect"}
  /\ disconnect \in {"none", "stopping", "locking", "resetting"}
  /\ tokens.unsaved \in BOOLEAN

PollersRange ==
  \A f \in Flows : /\ poller[f].pc \in {"none", "polling", "approved", "stored"}
                   /\ poller[f].from \in {"off", "reauth"}

\* Every pair anybody names was handed out, so a new one is nobody's.
Out(p) == p = 0 \/ (p \in Pairs /\ owner[p] # {})
LiveOut == \A p \in live : p # 0 /\ Out(p)
StateOut == Out(row.gen) /\ Out(row.pair) /\ Out(gen) /\ Out(tokens.pair)
RunOut == Out(run.gen) /\ Out(run.token) /\ Out(run.tokenGen) /\ Out(run.next)
PollersOut == \A f \in Flows : Out(poller[f].pair)

\* Who holds the locks.
Refreshing == {"refresh", "saving", "reauth"}
Locks ==
  /\ disconnect # "none" <=> life = "disconnect"
  /\ disconnect # "none" => flow = 0
  /\ refreshMu = "disconnect" <=> disconnect = "resetting"
RefreshLock == refreshMu = "sync" <=> run.pc \in Refreshing

\* What a live code says of the state, and who stores a connection.
Codes ==
  /\ flow # 0 <=> state = "pending"
  /\ \A f \in Flows : poller[f].pc # "none" /\ ~poller[f].cancelled => flow = f
  /\ flow # 0 => poller[flow].pc # "none" /\ ~poller[flow].cancelled
Storing ==
  /\ \A f \in Flows : poller[f].pc = "stored" =>
       /\ life = "finish" /\ ~poller[f].cancelled
       /\ poller[f].pair = row.gen /\ row.pair = row.gen
  /\ life = "finish" => \E f \in Flows : poller[f].pc = "stored"

\* An approved pair names no generation yet.
Fresh ==
  /\ \A f \in Flows : poller[f].pc \in {"approved", "stored"} => poller[f].pair # 0
  /\ \A f \in Flows : poller[f].pc = "approved" =>
       poller[f].pair \notin {row.gen, gen, run.gen, run.tokenGen}
  /\ \A f \in Flows : poller[f].pc = "stored" => poller[f].pair \notin {gen, run.gen, run.tokenGen}
  /\ \A f, g \in Flows : /\ poller[f].pc \in {"approved", "stored"}
                         /\ poller[g].pc \in {"approved", "stored"}
                         /\ f # g
                         => poller[f].pair # poller[g].pair

\* A generation's tokens are its account's.
AccountedState ==
  /\ row.gen = 0 => row = NoRow
  /\ row.gen # 0 => row.account = owner[row.gen]
  /\ row.pair # 0 => row.gen # 0 /\ owner[row.pair] = owner[row.gen]
  /\ tokens.pair # 0 => gen # 0 /\ owner[tokens.pair] = owner[gen]
AccountedRun ==
  /\ run.token # 0 => run.tokenGen # 0 /\ owner[run.token] = owner[run.tokenGen]
  /\ run.next # 0 => run.pc = "saving" /\ run.tokenGen # 0 /\ owner[run.next] = owner[run.tokenGen]
  /\ run.got # {} => run.pc = "write"
  /\ run.gen # 0 /\ run.gen = row.gen => run.got \subseteq row.account

\* A sync writes for a generation it was handed, and asks with that generation's
\* tokens for as long as it is the stored one.
Generations ==
  /\ run.pc \in {"fetch", "asking", "write", "done", "invalid"} => run.gen # 0
  /\ run.pc \in {"refresh", "saving"} /\ run.back # "token" => run.gen # 0
  /\ run.gen # 0 /\ run.gen = row.gen => run.tokenGen \in {0, run.gen}
  /\ run.pc = "token" => run.tokenGen = 0
  /\ run.pc \in {"asking", "invalid", "reauth"} => run.tokenGen # 0
RefreshesOwn == run.pc \in {"refresh", "saving"} => state = "connected" /\ run.tokenGen = gen
ConnectedSince == state = "connected" => gen # 0

\* What memory and database say of each other.
Mirrored ==
  /\ life # "finish" /\ disconnect # "resetting" =>
       /\ Linked <=> row.gen # 0
       /\ gen = row.gen
       /\ tokens.unsaved \/ tokens.pair = row.pair
  /\ disconnect = "resetting" => row.gen = 0

IInv ==
  /\ Domains /\ Ranges /\ PollersRange /\ LiveOut /\ StateOut /\ RunOut /\ PollersOut
  /\ Locks /\ RefreshLock /\ Codes /\ Storing /\ Fresh /\ AccountedState /\ AccountedRun
  /\ Generations /\ RefreshesOwn /\ ConnectedSince /\ Mirrored /\ DataIsTheAccounts

LEMMA FlowsNonzero == 0 \notin Flows /\ 0 \notin Pairs
BY DEF Flows, Pairs

LEMMA NewPair == ASSUME Unused # {} PROVE NextPair \in Pairs /\ owner[NextPair] = {} /\ NextPair # 0
BY FlowsNonzero DEF NextPair, Unused

LEMMA DomainsStep ==
    ASSUME Domains, [Next]_vars
    PROVE  Domains'
<1>1. CASE Connect
  BY <1>1 DEF Connect, NoPoller, bounds, locks, stored, syncing, trakt, Domains, RowFields,
    TokenFields, PollerFields, RunFields
<1>2. ASSUME NEW f \in Flows, PollApproved(f) PROVE Domains'
  BY <1>2 DEF PollApproved, CanFail, Fails, Works, locks, memory, stored, syncing, Domains,
    RowFields, TokenFields, PollerFields, RunFields
<1>3. ASSUME NEW f \in Flows, PollEnded(f) PROVE Domains'
  BY <1>3 DEF PollEnded, EndFlow, NoPoller, bounds, locks, stored, syncing, trakt, Domains,
    RowFields, TokenFields, PollerFields, RunFields
<1>4. ASSUME NEW f \in Flows, FinishUnread(f) PROVE Domains'
  BY <1>4 DEF FinishUnread, CanFail, EndFlow, Fails, NoPoller, Revoke, Works, locks, stored,
    syncing, Domains, RowFields, TokenFields, PollerFields, RunFields
<1>5. ASSUME NEW f \in Flows, FinishCancelled(f) PROVE Domains'
  BY <1>5 DEF FinishCancelled, CanFail, Fails, NoPoller, Revoke, Works, locks, memory, stored,
    syncing, Domains, RowFields, TokenFields, PollerFields, RunFields
<1>6. ASSUME NEW f \in Flows, FinishStored(f) PROVE Domains'
  BY <1>6 DEF FinishStored, Purged, bounds, memory, stored, syncing, Domains, RowFields,
    TokenFields, PollerFields, RunFields
<1>7. ASSUME NEW f \in Flows, FinishRefused(f) PROVE Domains'
  BY <1>7 DEF FinishRefused, CanFail, EndFlow, Fails, NoPoller, Works, locks, stored, syncing,
    Domains, RowFields, TokenFields, PollerFields, RunFields
<1>8. ASSUME NEW f \in Flows, FinishConnected(f) PROVE Domains'
  BY <1>8 DEF FinishConnected, NoPoller, NoTokens, bounds, stored, trakt, Domains, RowFields,
    TokenFields, PollerFields, RunFields
<1>9. CASE Disconnect
  BY <1>9 DEF Disconnect, DropFlow, bounds, stored, syncing, trakt, Domains, RowFields,
    TokenFields, PollerFields, RunFields
<1>10. CASE DisconnectStopSync
  BY <1>10 DEF DisconnectStopSync, NoResume, bounds, locks, memory, stored, trakt, Domains,
    RowFields, TokenFields, PollerFields, RunFields
<1>11. CASE DisconnectPurged
  BY <1>11 DEF DisconnectPurged, CanFail, Fails, NoRow, Purged, Works, memory, stored, syncing,
    trakt, Domains, RowFields, TokenFields, PollerFields, RunFields
<1>12. CASE DisconnectReset
  BY <1>12 DEF DisconnectReset, CanFail, Fails, NoTokens, Revoke, Works, syncing, Domains,
    RowFields, TokenFields, PollerFields, RunFields
<1>13. CASE TriggerInitial
  BY <1>13 DEF TriggerInitial, NoResume, NoRun, Trigger, bounds, locks, memory, stored, trakt,
    Domains, RowFields, TokenFields, PollerFields, RunFields
<1>14. CASE TriggerCheck
  BY <1>14 DEF TriggerCheck, NoResume, NoRun, Trigger, bounds, locks, memory, stored, trakt,
    Domains, RowFields, TokenFields, PollerFields, RunFields
<1>15. CASE StartRead
  BY <1>15 DEF StartRead, CanFail, Fails, NoRun, Works, locks, memory, stored, trakt, Domains,
    RowFields, TokenFields, PollerFields, RunFields
<1>16. CASE StartPlanned
  BY <1>16 DEF StartPlanned, NoResume, NoRun, Plans, bounds, locks, memory, stored, trakt,
    Domains, RowFields, TokenFields, PollerFields, RunFields
<1>17. CASE RunAgain
  BY <1>17 DEF RunAgain, NoRun, bounds, locks, memory, stored, trakt, Domains, RowFields,
    TokenFields, PollerFields, RunFields
<1>18. CASE Token
  BY <1>18 DEF Token, AfterToken, CanFail, Current, Fails, Finish, NoResume, NoRun, Works, trakt,
    Domains, RowFields, TokenFields, PollerFields, RunFields
<1>19. CASE RefreshAnswered
  BY <1>19 DEF RefreshAnswered, Rotated, bounds, locks, memory, stored, Domains, RowFields,
    TokenFields, PollerFields, RunFields
<1>20. CASE RefreshFailed
  BY <1>20 DEF RefreshFailed, AfterToken, CanFail, Fails, Finish, Handed, NoResume, NoRun,
    Rotated, memory, stored, trakt, Domains, RowFields, TokenFields, PollerFields, RunFields
<1>21. CASE RefreshRefused
  BY <1>21 DEF RefreshRefused, Finish, NoResume, NoRun, bounds, stored, trakt, Domains, RowFields,
    TokenFields, PollerFields, RunFields
<1>22. CASE ReauthStored
  BY <1>22 DEF ReauthStored, CanFail, Current, Fails, Finish, NoResume, NoRun, Works, memory,
    trakt, Domains, RowFields, TokenFields, PollerFields, RunFields
<1>23. CASE RefreshSaved
  BY <1>23 DEF RefreshSaved, AfterToken, CanFail, Current, Fails, Finish, Handed, NextTokens,
    NoResume, NoRun, Refreshed, Retried, Works, trakt, Domains, RowFields, TokenFields,
    PollerFields, RunFields
<1>24. CASE Invalidate
  BY <1>24 DEF Invalidate, Finish, NoResume, NoRun, Retried, bounds, stored, trakt, Domains,
    RowFields, TokenFields, PollerFields, RunFields
<1>25. CASE RunAnswered
  BY <1>25 DEF RunAnswered, bounds, locks, memory, stored, trakt, Domains, RowFields, TokenFields,
    PollerFields, RunFields
<1>26. CASE RunUnauthorized
  BY <1>26 DEF RunUnauthorized, CanFail, Fails, locks, memory, stored, Domains, RowFields,
    TokenFields, PollerFields, RunFields
<1>27. CASE RunFailed
  BY <1>27 DEF RunFailed, CanFail, Fails, Finish, NoResume, NoRun, locks, memory, stored, trakt,
    Domains, RowFields, TokenFields, PollerFields, RunFields
<1>28. CASE RunCancelled
  BY <1>28 DEF RunCancelled, Finish, NoResume, NoRun, bounds, locks, memory, stored, trakt,
    Domains, RowFields, TokenFields, PollerFields, RunFields
<1>29. CASE RunWrote
  BY <1>29 DEF RunWrote, Current, Finish, NoResume, NoRun, bounds, locks, memory, trakt, Domains,
    RowFields, TokenFields, PollerFields, RunFields
<1>30. CASE RunDone
  BY <1>30 DEF RunDone, Current, Finish, NoResume, NoRun, bounds, locks, memory, trakt, Domains,
    RowFields, TokenFields, PollerFields, RunFields
<1>31. CASE Crash
  BY <1>31 DEF Crash, NoPoller, NoResume, NoRow, NoRun, NoSync, NoTokens, stored, Domains,
    RowFields, TokenFields, PollerFields, RunFields
<1>32. CASE Withdraw
  BY <1>32 DEF Withdraw, CanFail, Fails, locks, memory, stored, syncing, Domains, RowFields,
    TokenFields, PollerFields, RunFields
<1>33. CASE UNCHANGED vars
  BY <1>33 DEF vars, Domains, RowFields, TokenFields, PollerFields, RunFields
<1> QED
  BY <1>1, <1>2, <1>3, <1>4, <1>5, <1>6, <1>7, <1>8, <1>9, <1>10, <1>11, <1>12, <1>13, <1>14,
    <1>15, <1>16, <1>17, <1>18, <1>19, <1>20, <1>21, <1>22, <1>23, <1>24, <1>25, <1>26, <1>27,
    <1>28, <1>29, <1>30, <1>31, <1>32, <1>33 DEF Next

\* A pair that was handed out stays its owner's.
Grows == \A p \in Pairs : owner[p] # {} => owner'[p] = owner[p]

LEMMA GrowsStep ==
    ASSUME Domains, [Next]_vars
    PROVE  Grows
<1>1. CASE Connect
  BY <1>1, NewPair DEF Connect, NoPoller, bounds, locks, stored, syncing, trakt, Grows, Domains
<1>2. ASSUME NEW f \in Flows, PollApproved(f) PROVE Grows
  BY <1>2, NewPair DEF PollApproved, CanFail, Fails, Works, locks, memory, stored, syncing, Grows,
    Domains
<1>3. ASSUME NEW f \in Flows, PollEnded(f) PROVE Grows
  BY <1>3, NewPair DEF PollEnded, EndFlow, NoPoller, bounds, locks, stored, syncing, trakt, Grows,
    Domains
<1>4. ASSUME NEW f \in Flows, FinishUnread(f) PROVE Grows
  BY <1>4, NewPair DEF FinishUnread, CanFail, EndFlow, Fails, NoPoller, Revoke, Works, locks,
    stored, syncing, Grows, Domains
<1>5. ASSUME NEW f \in Flows, FinishCancelled(f) PROVE Grows
  BY <1>5, NewPair DEF FinishCancelled, CanFail, Fails, NoPoller, Revoke, Works, locks, memory,
    stored, syncing, Grows, Domains
<1>6. ASSUME NEW f \in Flows, FinishStored(f) PROVE Grows
  BY <1>6, NewPair DEF FinishStored, Purged, bounds, memory, stored, syncing, Grows, Domains
<1>7. ASSUME NEW f \in Flows, FinishRefused(f) PROVE Grows
  BY <1>7, NewPair DEF FinishRefused, CanFail, EndFlow, Fails, NoPoller, Works, locks, stored,
    syncing, Grows, Domains
<1>8. ASSUME NEW f \in Flows, FinishConnected(f) PROVE Grows
  BY <1>8, NewPair DEF FinishConnected, NoPoller, NoTokens, bounds, stored, trakt, Grows, Domains
<1>9. CASE Disconnect
  BY <1>9, NewPair DEF Disconnect, DropFlow, bounds, stored, syncing, trakt, Grows, Domains
<1>10. CASE DisconnectStopSync
  BY <1>10, NewPair DEF DisconnectStopSync, NoResume, bounds, locks, memory, stored, trakt, Grows,
    Domains
<1>11. CASE DisconnectPurged
  BY <1>11, NewPair DEF DisconnectPurged, CanFail, Fails, NoRow, Purged, Works, memory, stored,
    syncing, trakt, Grows, Domains
<1>12. CASE DisconnectReset
  BY <1>12, NewPair DEF DisconnectReset, CanFail, Fails, NoTokens, Revoke, Works, syncing, Grows,
    Domains
<1>13. CASE TriggerInitial
  BY <1>13, NewPair DEF TriggerInitial, NoResume, NoRun, Trigger, bounds, locks, memory, stored,
    trakt, Grows, Domains
<1>14. CASE TriggerCheck
  BY <1>14, NewPair DEF TriggerCheck, NoResume, NoRun, Trigger, bounds, locks, memory, stored,
    trakt, Grows, Domains
<1>15. CASE StartRead
  BY <1>15, NewPair DEF StartRead, CanFail, Fails, NoRun, Works, locks, memory, stored, trakt,
    Grows, Domains
<1>16. CASE StartPlanned
  BY <1>16, NewPair DEF StartPlanned, NoResume, NoRun, Plans, bounds, locks, memory, stored,
    trakt, Grows, Domains
<1>17. CASE RunAgain
  BY <1>17, NewPair DEF RunAgain, NoRun, bounds, locks, memory, stored, trakt, Grows, Domains
<1>18. CASE Token
  BY <1>18, NewPair DEF Token, AfterToken, CanFail, Current, Fails, Finish, NoResume, NoRun,
    Works, trakt, Grows, Domains
<1>19. CASE RefreshAnswered
  BY <1>19, NewPair DEF RefreshAnswered, Rotated, bounds, locks, memory, stored, Grows, Domains
<1>20. CASE RefreshFailed
  BY <1>20, NewPair DEF RefreshFailed, AfterToken, CanFail, Fails, Finish, Handed, NoResume,
    NoRun, Rotated, memory, stored, trakt, Grows, Domains
<1>21. CASE RefreshRefused
  BY <1>21, NewPair DEF RefreshRefused, Finish, NoResume, NoRun, bounds, stored, trakt, Grows,
    Domains
<1>22. CASE ReauthStored
  BY <1>22, NewPair DEF ReauthStored, CanFail, Current, Fails, Finish, NoResume, NoRun, Works,
    memory, trakt, Grows, Domains
<1>23. CASE RefreshSaved
  BY <1>23, NewPair DEF RefreshSaved, AfterToken, CanFail, Current, Fails, Finish, Handed,
    NextTokens, NoResume, NoRun, Refreshed, Retried, Works, trakt, Grows, Domains
<1>24. CASE Invalidate
  BY <1>24, NewPair DEF Invalidate, Finish, NoResume, NoRun, Retried, bounds, stored, trakt,
    Grows, Domains
<1>25. CASE RunAnswered
  BY <1>25, NewPair DEF RunAnswered, bounds, locks, memory, stored, trakt, Grows, Domains
<1>26. CASE RunUnauthorized
  BY <1>26, NewPair DEF RunUnauthorized, CanFail, Fails, locks, memory, stored, Grows, Domains
<1>27. CASE RunFailed
  BY <1>27, NewPair DEF RunFailed, CanFail, Fails, Finish, NoResume, NoRun, locks, memory, stored,
    trakt, Grows, Domains
<1>28. CASE RunCancelled
  BY <1>28, NewPair DEF RunCancelled, Finish, NoResume, NoRun, bounds, locks, memory, stored,
    trakt, Grows, Domains
<1>29. CASE RunWrote
  BY <1>29, NewPair DEF RunWrote, Current, Finish, NoResume, NoRun, bounds, locks, memory, trakt,
    Grows, Domains
<1>30. CASE RunDone
  BY <1>30, NewPair DEF RunDone, Current, Finish, NoResume, NoRun, bounds, locks, memory, trakt,
    Grows, Domains
<1>31. CASE Crash
  BY <1>31, NewPair DEF Crash, NoPoller, NoResume, NoRow, NoRun, NoSync, NoTokens, stored, Grows,
    Domains
<1>32. CASE Withdraw
  BY <1>32, NewPair DEF Withdraw, CanFail, Fails, locks, memory, stored, syncing, Grows, Domains
<1>33. CASE UNCHANGED vars
  BY <1>33 DEF vars, Grows, Domains
<1> QED
  BY <1>1, <1>2, <1>3, <1>4, <1>5, <1>6, <1>7, <1>8, <1>9, <1>10, <1>11, <1>12, <1>13, <1>14,
    <1>15, <1>16, <1>17, <1>18, <1>19, <1>20, <1>21, <1>22, <1>23, <1>24, <1>25, <1>26, <1>27,
    <1>28, <1>29, <1>30, <1>31, <1>32, <1>33 DEF Next

LEMMA OutStays ==
    ASSUME Grows, NEW p, Out(p) PROVE p = 0 \/ (p \in Pairs /\ owner'[p] # {})
BY DEF Grows, Out

\* What a step does to a poller.
Same(f) == poller'[f].pc = poller[f].pc /\ poller'[f].pair = poller[f].pair /\ poller'[f].from = poller[f].from
Moves(f) ==
  \/ poller'[f] = poller[f]
  \/ Same(f) /\ poller'[f].cancelled
  \/ poller'[f].pc = "none" /\ poller'[f].pair = 0 /\ poller'[f].from = "off"
  \/ /\ poller'[f].pc = "polling" /\ poller'[f].pair = 0 /\ poller[f].pc = "none"
     /\ poller'[f].from = IF flow = 0 THEN state ELSE poller[flow].from
     /\ state # "connected"
  \/ /\ poller'[f].pc \in {"polling", "approved"} /\ poller'[f].pair = NextPair
     /\ poller'[f].from = poller[f].from /\ poller'[f].cancelled = poller[f].cancelled
     /\ Unused # {} /\ owner'[NextPair] # {} /\ \A g \in Flows \ {f} : poller'[g] = poller[g]
     /\ (poller'[f].pc = "polling" => NextPair \in lost') /\ poller[f].pair = 0 /\ PollApproved(f)
  \/ /\ poller[f].pc = "approved" /\ poller'[f].pc = "stored" /\ FinishStored(f)
     /\ poller'[f].pair = poller[f].pair /\ poller'[f].from = poller[f].from
     /\ poller'[f].cancelled = poller[f].cancelled

LEMMA MovesStep ==
    ASSUME Domains, flow \in Flows \cup {0}, [Next]_vars
    PROVE  (\A g \in Flows : Moves(g))
<1>1. CASE Connect
  <2> DEFINE ended == IF flow = 0 THEN poller ELSE [poller EXCEPT ![flow].cancelled = TRUE]
  <2>1. /\ DOMAIN ended = Flows
        /\ \A g \in Flows : \/ ended[g] = poller[g]
                           \/ /\ ended[g].pc = poller[g].pc /\ ended[g].pair = poller[g].pair
                              /\ ended[g].from = poller[g].from /\ ended[g].cancelled
    <3>1. CASE flow = 0
      BY <3>1 DEF Domains
    <3>2. CASE flow # 0
      BY <3>2 DEF Domains, PollerFields
    <3> QED BY <3>1, <3>2
  <2>2. CASE poller' = ended
    BY <2>1, <2>2 DEF Moves, Same
  <2>3. CASE poller' # ended
    <3> DEFINE back == IF flow = 0 THEN state ELSE poller[flow].from
    <3>1. PICK f \in Flows : /\ IdlePoller(f)
                            /\ poller' = [ended EXCEPT ![f] = [NoPoller EXCEPT !.pc = "polling", !.from = back]]
      BY <1>1, <2>3 DEF Connect
    <3>2. poller[f].pc = "none" /\ state # "connected"
      BY <1>1, <3>1 DEF IdlePoller, Connect
    <3> DEFINE new == [NoPoller EXCEPT !.pc = "polling", !.from = back]
    <3>3. new.pc = "polling" /\ new.pair = 0 /\ new.from = back /\ ~new.cancelled
      BY DEF NoPoller
    <3> HIDE DEF ended, new
    <3>4. poller'[f] = new /\ \A g \in Flows \ {f} : poller'[g] = ended[g]
      BY <2>1, <3>1 DEF new
    <3> QED BY <2>1, <3>2, <3>3, <3>4 DEF Moves, Same
  <2> QED BY <2>2, <2>3
<1>2. ASSUME NEW f \in Flows, PollApproved(f) PROVE (\A g \in Flows : Moves(g))
  <2>1. \A g \in Flows \ {f} : poller'[g] = poller[g]
    BY <1>2 DEF PollApproved, Domains
  <2>2. /\ poller'[f].pc \in {"polling", "approved"} /\ poller'[f].pair = NextPair
        /\ poller'[f].from = poller[f].from /\ poller'[f].cancelled = poller[f].cancelled
    BY <1>2 DEF PollApproved, Domains, PollerFields
  <2>3. Unused # {} /\ owner'[NextPair] # {}
    BY <1>2, NewPair DEF PollApproved, Domains
  <2>4. (poller'[f].pc = "polling" => NextPair \in lost') /\ poller[f].pair = 0
    BY <1>2 DEF PollApproved, Domains, PollerFields
  <2> QED BY <1>2, <2>1, <2>2, <2>3, <2>4 DEF Moves
<1>3. ASSUME NEW f \in Flows, PollEnded(f) PROVE (\A g \in Flows : Moves(g))
  BY <1>3, FlowsNonzero DEF PollEnded, EndFlow, NoPoller, bounds, locks, stored, syncing, trakt,
    Moves, Same, Domains, RowFields, TokenFields, PollerFields, RunFields
<1>4. ASSUME NEW f \in Flows, FinishUnread(f) PROVE (\A g \in Flows : Moves(g))
  BY <1>4, FlowsNonzero DEF FinishUnread, CanFail, EndFlow, Fails, NoPoller, Revoke, Works, locks,
    stored, syncing, Moves, Same, Domains, RowFields, TokenFields, PollerFields, RunFields
<1>5. ASSUME NEW f \in Flows, FinishCancelled(f) PROVE (\A g \in Flows : Moves(g))
  BY <1>5, FlowsNonzero DEF FinishCancelled, CanFail, Fails, NoPoller, Revoke, Works, locks,
    memory, stored, syncing, Moves, Same, Domains, RowFields, TokenFields, PollerFields, RunFields
<1>6. ASSUME NEW f \in Flows, FinishStored(f) PROVE (\A g \in Flows : Moves(g))
  <2>1. \A g \in Flows \ {f} : poller'[g] = poller[g]
    BY <1>6 DEF FinishStored, Domains
  <2>2. /\ poller[f].pc = "approved" /\ poller'[f].pc = "stored"
        /\ poller'[f].pair = poller[f].pair /\ poller'[f].from = poller[f].from
        /\ poller'[f].cancelled = poller[f].cancelled
    BY <1>6 DEF FinishStored, Domains, PollerFields
  <2> QED BY <1>6, <2>1, <2>2 DEF Moves
<1>7. ASSUME NEW f \in Flows, FinishRefused(f) PROVE (\A g \in Flows : Moves(g))
  BY <1>7, FlowsNonzero DEF FinishRefused, CanFail, EndFlow, Fails, NoPoller, Works, locks,
    stored, syncing, Moves, Same, Domains, RowFields, TokenFields, PollerFields, RunFields
<1>8. ASSUME NEW f \in Flows, FinishConnected(f) PROVE (\A g \in Flows : Moves(g))
  BY <1>8, FlowsNonzero DEF FinishConnected, NoPoller, NoTokens, bounds, stored, trakt, Moves,
    Same, Domains, RowFields, TokenFields, PollerFields, RunFields
<1>9. CASE Disconnect
  <2>1. CASE flow # 0
    <3>1. poller' = [poller EXCEPT ![flow].cancelled = TRUE]
      BY <1>9, <2>1 DEF Disconnect, DropFlow
    <3>2. \A g \in Flows \ {flow} : poller'[g] = poller[g]
      BY <2>1, <3>1 DEF Domains
    <3>3. flow \in Flows => Same(flow) /\ poller'[flow].cancelled
      BY <2>1, <3>1 DEF Same, Domains, PollerFields
    <3> QED BY <3>2, <3>3 DEF Moves
  <2>2. CASE flow = 0
    BY <1>9, <2>2 DEF Disconnect, Moves
  <2> QED BY <2>1, <2>2
<1>10. CASE DisconnectStopSync
  BY <1>10, FlowsNonzero DEF DisconnectStopSync, NoResume, bounds, locks, memory, stored, trakt,
    Moves, Same, Domains, RowFields, TokenFields, PollerFields, RunFields
<1>11. CASE DisconnectPurged
  BY <1>11, FlowsNonzero DEF DisconnectPurged, CanFail, Fails, NoRow, Purged, Works, memory,
    stored, syncing, trakt, Moves, Same, Domains, RowFields, TokenFields, PollerFields, RunFields
<1>12. CASE DisconnectReset
  BY <1>12, FlowsNonzero DEF DisconnectReset, CanFail, Fails, NoTokens, Revoke, Works, syncing,
    Moves, Same, Domains, RowFields, TokenFields, PollerFields, RunFields
<1>13. CASE TriggerInitial
  BY <1>13, FlowsNonzero DEF TriggerInitial, NoResume, NoRun, Trigger, bounds, locks, memory,
    stored, trakt, Moves, Same, Domains, RowFields, TokenFields, PollerFields, RunFields
<1>14. CASE TriggerCheck
  BY <1>14, FlowsNonzero DEF TriggerCheck, NoResume, NoRun, Trigger, bounds, locks, memory,
    stored, trakt, Moves, Same, Domains, RowFields, TokenFields, PollerFields, RunFields
<1>15. CASE StartRead
  BY <1>15, FlowsNonzero DEF StartRead, CanFail, Fails, NoRun, Works, locks, memory, stored,
    trakt, Moves, Same, Domains, RowFields, TokenFields, PollerFields, RunFields
<1>16. CASE StartPlanned
  BY <1>16, FlowsNonzero DEF StartPlanned, NoResume, NoRun, Plans, bounds, locks, memory, stored,
    trakt, Moves, Same, Domains, RowFields, TokenFields, PollerFields, RunFields
<1>17. CASE RunAgain
  BY <1>17, FlowsNonzero DEF RunAgain, NoRun, bounds, locks, memory, stored, trakt, Moves, Same,
    Domains, RowFields, TokenFields, PollerFields, RunFields
<1>18. CASE Token
  BY <1>18, FlowsNonzero DEF Token, AfterToken, CanFail, Current, Fails, Finish, NoResume, NoRun,
    Works, trakt, Moves, Same, Domains, RowFields, TokenFields, PollerFields, RunFields
<1>19. CASE RefreshAnswered
  BY <1>19, FlowsNonzero DEF RefreshAnswered, Rotated, bounds, locks, memory, stored, Moves, Same,
    Domains, RowFields, TokenFields, PollerFields, RunFields
<1>20. CASE RefreshFailed
  BY <1>20, FlowsNonzero DEF RefreshFailed, AfterToken, CanFail, Fails, Finish, Handed, NoResume,
    NoRun, Rotated, memory, stored, trakt, Moves, Same, Domains, RowFields, TokenFields,
    PollerFields, RunFields
<1>21. CASE RefreshRefused
  BY <1>21, FlowsNonzero DEF RefreshRefused, Finish, NoResume, NoRun, bounds, stored, trakt,
    Moves, Same, Domains, RowFields, TokenFields, PollerFields, RunFields
<1>22. CASE ReauthStored
  BY <1>22, FlowsNonzero DEF ReauthStored, CanFail, Current, Fails, Finish, NoResume, NoRun,
    Works, memory, trakt, Moves, Same, Domains, RowFields, TokenFields, PollerFields, RunFields
<1>23. CASE RefreshSaved
  BY <1>23, FlowsNonzero DEF RefreshSaved, AfterToken, CanFail, Current, Fails, Finish, Handed,
    NextTokens, NoResume, NoRun, Refreshed, Retried, Works, trakt, Moves, Same, Domains,
    RowFields, TokenFields, PollerFields, RunFields
<1>24. CASE Invalidate
  BY <1>24, FlowsNonzero DEF Invalidate, Finish, NoResume, NoRun, Retried, bounds, stored, trakt,
    Moves, Same, Domains, RowFields, TokenFields, PollerFields, RunFields
<1>25. CASE RunAnswered
  BY <1>25, FlowsNonzero DEF RunAnswered, bounds, locks, memory, stored, trakt, Moves, Same,
    Domains, RowFields, TokenFields, PollerFields, RunFields
<1>26. CASE RunUnauthorized
  BY <1>26, FlowsNonzero DEF RunUnauthorized, CanFail, Fails, locks, memory, stored, Moves, Same,
    Domains, RowFields, TokenFields, PollerFields, RunFields
<1>27. CASE RunFailed
  BY <1>27, FlowsNonzero DEF RunFailed, CanFail, Fails, Finish, NoResume, NoRun, locks, memory,
    stored, trakt, Moves, Same, Domains, RowFields, TokenFields, PollerFields, RunFields
<1>28. CASE RunCancelled
  BY <1>28, FlowsNonzero DEF RunCancelled, Finish, NoResume, NoRun, bounds, locks, memory, stored,
    trakt, Moves, Same, Domains, RowFields, TokenFields, PollerFields, RunFields
<1>29. CASE RunWrote
  BY <1>29, FlowsNonzero DEF RunWrote, Current, Finish, NoResume, NoRun, bounds, locks, memory,
    trakt, Moves, Same, Domains, RowFields, TokenFields, PollerFields, RunFields
<1>30. CASE RunDone
  BY <1>30, FlowsNonzero DEF RunDone, Current, Finish, NoResume, NoRun, bounds, locks, memory,
    trakt, Moves, Same, Domains, RowFields, TokenFields, PollerFields, RunFields
<1>31. CASE Crash
  BY <1>31, FlowsNonzero DEF Crash, NoPoller, NoResume, NoRow, NoRun, NoSync, NoTokens, stored,
    Moves, Same, Domains, RowFields, TokenFields, PollerFields, RunFields
<1>32. CASE Withdraw
  BY <1>32, FlowsNonzero DEF Withdraw, CanFail, Fails, locks, memory, stored, syncing, Moves,
    Same, Domains, RowFields, TokenFields, PollerFields, RunFields
<1>33. CASE UNCHANGED vars
  BY <1>33 DEF vars, Moves, Same, Domains, RowFields, TokenFields, PollerFields, RunFields
<1> QED
  BY <1>1, <1>2, <1>3, <1>4, <1>5, <1>6, <1>7, <1>8, <1>9, <1>10, <1>11, <1>12, <1>13, <1>14,
    <1>15, <1>16, <1>17, <1>18, <1>19, <1>20, <1>21, <1>22, <1>23, <1>24, <1>25, <1>26, <1>27,
    <1>28, <1>29, <1>30, <1>31, <1>32, <1>33 DEF Next

\* What a step does to the sync: it goes, or moves on while the connection stays.
Keeps == gen' = gen /\ row'.gen = row.gen /\ row'.account = row.account
Goes == /\ run'.pc \in {"none", "reading", "token", "ending"} /\ run'.gen = 0 /\ run'.token = 0
        /\ run'.tokenGen = 0 /\ run'.next = 0 /\ run'.got = {} /\ run'.back = "none"
\* the next pc, and the fields that stay
To(pc) == run'.pc = pc
SameToken == run'.token = run.token /\ run'.tokenGen = run.tokenGen
SameRest == run'.gen = run.gen /\ run'.next = run.next /\ run'.got = run.got
Forgets == run'.token = 0 /\ run'.tokenGen = 0 /\ run'.next = 0 /\ run'.got = run.got
TakesToken == run'.token = tokens.pair /\ run'.tokenGen = gen
Connected == state = "connected" /\ refreshMu = ""

Stays == SameToken /\ SameRest /\ run'.back = run.back /\ To(run.pc)
Next1(from, to) == SameToken /\ SameRest /\ run'.back = run.back /\ run.pc = from /\ To(to)
Refreshes ==
  /\ run.pc \in {"token", "fetch"} /\ Connected /\ To("refresh") /\ run'.back = run.pc
  /\ TakesToken /\ SameRest
RefreshesRejected ==
  /\ run.pc = "invalid" /\ Connected /\ To("refresh") /\ run'.back = "invalid"
  /\ SameToken /\ SameRest /\ tokens.pair = run.token /\ gen = run.tokenGen
Starts ==
  /\ run.pc = "token" /\ Connected /\ run'.pc \in {"done", "fetch"} /\ run'.gen = gen
  /\ SameToken /\ run'.next = run.next /\ run'.got = run.got
Asks == run.pc = "fetch" /\ Connected /\ To("asking") /\ TakesToken /\ SameRest
Answered ==
  /\ RefreshAnswered
  /\ run.pc = "refresh" /\ To("saving") /\ run'.next = NextPair /\ Unused # {}
  /\ owner'[NextPair] = owner[run.token] /\ run.token \in live
  /\ SameToken /\ run'.gen = run.gen /\ run'.got = run.got /\ run'.back = run.back
HandedStarts ==
  /\ run.pc \in {"refresh", "saving"} /\ run.back = "token" /\ run'.pc \in {"done", "fetch"}
  /\ run'.gen = gen /\ Forgets
HandedAsks(p) ==
  /\ run.pc \in {"refresh", "saving"} /\ run.back # "token" /\ To("asking")
  /\ run'.token = p /\ run'.tokenGen = gen /\ run'.next = 0 /\ run'.gen = run.gen /\ run'.got = run.got
Retries ==
  /\ run.pc = "invalid" \/ (run.pc = "saving" /\ run.back = "invalid")
  /\ To("fetch") /\ run'.gen = run.gen /\ Forgets
Gets ==
  /\ run.pc = "asking" /\ run'.gen = run.gen
  /\ run'.token = 0 /\ run'.tokenGen = 0 /\ run'.next = run.next
  /\ \/ run'.pc \in {"fetch", "done"} /\ run'.got = run.got
     \/ run'.pc = "write" /\ run.token \in live /\ run'.got = owner[run.token]
Writes == /\ run.pc = "write" /\ To("done") /\ run'.got = {} /\ run'.gen = run.gen
          /\ SameToken /\ run'.next = run.next
MovesOn ==
  \/ Stays \/ Next1("reading", "planning") \/ (Next1("asking", "invalid") /\ RunUnauthorized)
  \/ Next1("refresh", "reauth") \/ Next1("invalid", "reauth")
  \/ Refreshes \/ RefreshesRejected \/ Starts \/ Asks \/ Answered
  \/ HandedStarts \/ (HandedAsks(run.token) /\ run.pc = "refresh")
  \/ (HandedAsks(run.next) /\ run.pc = "saving")
  \/ Retries \/ Gets \/ Writes
RunMoves == run' = run \/ Goes \/ (MovesOn /\ Keeps)

LEMMA FinishGoes == ASSUME NEW outcome, Finish(outcome) PROVE Goes
BY DEF Finish, Goes, NoRun

LEMMA RetriedMoves ==
    ASSUME Domains, Retried, run.pc = "invalid" \/ (run.pc = "saving" /\ run.back = "invalid")
    PROVE  Goes \/ Retries
<1>1. CASE run.retry
  BY <1>1, FinishGoes DEF Retried
<1>2. CASE ~run.retry
  BY <1>2 DEF Retried, Retries, Forgets, To, Domains, RunFields
<1> QED BY <1>1, <1>2

LEMMA HandedMoves ==
    ASSUME Domains, run.pc \in {"refresh", "saving"}, NEW p, run' = Handed(p)
    PROVE  HandedStarts \/ HandedAsks(p)
<1>1. CASE run.back = "token"
  BY <1>1 DEF Handed, HandedStarts, Forgets, AfterToken, Domains, RunFields
<1>2. CASE run.back # "token"
  BY <1>2 DEF Handed, HandedAsks, To, Domains, RunFields
<1> QED BY <1>1, <1>2

LEMMA TokenHands ==
    ASSUME Domains, run.pc \in {"token", "fetch"}, Connected,
           run' = IF run.pc = "token" THEN [run EXCEPT !.pc = AfterToken, !.gen = gen]
                  ELSE [run EXCEPT !.pc = "asking", !.token = tokens.pair, !.tokenGen = gen]
    PROVE  Starts \/ Asks
<1>1. CASE run.pc = "token"
  BY <1>1 DEF Starts, SameToken, AfterToken, Domains, RunFields
<1>2. CASE run.pc # "token"
  BY <1>2 DEF Asks, TakesToken, SameRest, To, Domains, RunFields
<1> QED BY <1>1, <1>2

LEMMA TokenRefreshes ==
    ASSUME Domains, run.pc \in {"token", "fetch"}, Connected,
           run' = [run EXCEPT !.pc = "refresh", !.back = run.pc, !.token = tokens.pair, !.tokenGen = gen]
    PROVE  Refreshes
BY DEF Refreshes, TakesToken, SameRest, To, Domains, RunFields

LEMMA RunMovesStep ==
    ASSUME Domains, [Next]_vars
    PROVE  RunMoves
<1>1. CASE Connect
  BY <1>1 DEF Connect, NoPoller, bounds, locks, stored, syncing, trakt, RunMoves, Goes, Domains,
    RunFields, RowFields
<1>2. ASSUME NEW f \in Flows, PollApproved(f) PROVE RunMoves
  BY <1>2 DEF PollApproved, CanFail, Fails, Works, locks, memory, stored, syncing, RunMoves, Goes,
    Domains, RunFields, RowFields
<1>3. ASSUME NEW f \in Flows, PollEnded(f) PROVE RunMoves
  BY <1>3 DEF PollEnded, EndFlow, NoPoller, bounds, locks, stored, syncing, trakt, RunMoves, Goes,
    Domains, RunFields, RowFields
<1>4. ASSUME NEW f \in Flows, FinishUnread(f) PROVE RunMoves
  BY <1>4 DEF FinishUnread, CanFail, EndFlow, Fails, NoPoller, Revoke, Works, locks, stored,
    syncing, RunMoves, Goes, Domains, RunFields, RowFields
<1>5. ASSUME NEW f \in Flows, FinishCancelled(f) PROVE RunMoves
  BY <1>5 DEF FinishCancelled, CanFail, Fails, NoPoller, Revoke, Works, locks, memory, stored,
    syncing, RunMoves, Goes, Domains, RunFields, RowFields
<1>6. ASSUME NEW f \in Flows, FinishStored(f) PROVE RunMoves
  BY <1>6 DEF FinishStored, Purged, bounds, memory, stored, syncing, RunMoves, Goes, Domains,
    RunFields, RowFields
<1>7. ASSUME NEW f \in Flows, FinishRefused(f) PROVE RunMoves
  BY <1>7 DEF FinishRefused, CanFail, EndFlow, Fails, NoPoller, Works, locks, stored, syncing,
    RunMoves, Goes, Domains, RunFields, RowFields
<1>8. ASSUME NEW f \in Flows, FinishConnected(f) PROVE RunMoves
  BY <1>8 DEF FinishConnected, NoPoller, NoTokens, bounds, stored, trakt, RunMoves, Goes, Domains,
    RunFields, RowFields
<1>9. CASE Disconnect
  BY <1>9 DEF Disconnect, DropFlow, bounds, stored, syncing, trakt, RunMoves, Goes, Domains,
    RunFields, RowFields
<1>10. CASE DisconnectStopSync
  <2>1. Keeps
    BY <1>10 DEF DisconnectStopSync, Keeps, stored, memory
  <2>2. CASE run.pc \in {"none", "reading", "planning"}
    BY <1>10, <2>2 DEF DisconnectStopSync, RunMoves
  <2>3. CASE run.pc \notin {"none", "reading", "planning"}
    <3>1. run' = [run EXCEPT !.moved = TRUE, !.cancelled = TRUE]
      BY <1>10, <2>3 DEF DisconnectStopSync
    <3>2. Stays
      BY <3>1 DEF Stays, SameToken, SameRest, To, Domains, RunFields
    <3> QED BY <2>1, <3>2 DEF RunMoves, MovesOn
  <2> QED BY <2>2, <2>3
<1>11. CASE DisconnectPurged
  BY <1>11 DEF DisconnectPurged, CanFail, Fails, NoRow, Purged, Works, memory, stored, syncing,
    trakt, RunMoves, Goes, Domains, RunFields, RowFields
<1>12. CASE DisconnectReset
  BY <1>12 DEF DisconnectReset, CanFail, Fails, NoTokens, Revoke, Works, syncing, RunMoves, Goes,
    Domains, RunFields, RowFields
<1>13. CASE TriggerInitial
  BY <1>13 DEF TriggerInitial, NoResume, NoRun, Trigger, bounds, locks, memory, stored, trakt,
    RunMoves, Goes, Domains, RunFields, RowFields
<1>14. CASE TriggerCheck
  BY <1>14 DEF TriggerCheck, NoResume, NoRun, Trigger, bounds, locks, memory, stored, trakt,
    RunMoves, Goes, Domains, RunFields, RowFields
<1>15. CASE StartRead
  <2>1. Keeps
    BY <1>15 DEF StartRead, Keeps, stored, memory
  <2>2. CASE run' = NoRun
    BY <2>2 DEF RunMoves, Goes, NoRun
  <2>3. CASE run' # NoRun
    <3>1. run.pc = "reading" /\ run' = [run EXCEPT !.pc = "planning", !.known = data[0] # {}]
      BY <1>15, <2>3 DEF StartRead
    <3>2. Next1("reading", "planning")
      BY <3>1 DEF Next1, SameToken, SameRest, To, Domains, RunFields
    <3> QED BY <2>1, <3>2 DEF RunMoves, MovesOn
  <2> QED BY <2>2, <2>3
<1>16. CASE StartPlanned
  BY <1>16 DEF StartPlanned, NoResume, NoRun, Plans, bounds, locks, memory, stored, trakt,
    RunMoves, Goes, Domains, RunFields, RowFields
<1>17. CASE RunAgain
  BY <1>17 DEF RunAgain, NoRun, bounds, locks, memory, stored, trakt, RunMoves, Goes, Domains,
    RunFields, RowFields
<1>18. CASE Token
  <2>1. Keeps
    BY <1>18 DEF Token, Keeps, Domains, RowFields
  <2>2. run.pc \in {"token", "fetch"} /\ refreshMu = ""
    BY <1>18 DEF Token
  <2>3. CASE \E outcome : Finish(outcome)
    BY <2>3, FinishGoes DEF RunMoves
  <2>4. CASE run' = run
    BY <2>4 DEF RunMoves
  <2>5. CASE state = "connected" /\ run' = IF run.pc = "token" THEN [run EXCEPT !.pc = AfterToken, !.gen = gen]
                  ELSE [run EXCEPT !.pc = "asking", !.token = tokens.pair, !.tokenGen = gen]
    BY <2>1, <2>2, <2>5, TokenHands DEF RunMoves, MovesOn, Connected
  <2>6. CASE state = "connected" /\ run' = [run EXCEPT !.pc = "refresh", !.back = run.pc, !.token = tokens.pair, !.tokenGen = gen]
    BY <2>1, <2>2, <2>6, TokenRefreshes DEF RunMoves, MovesOn, Connected
  <2> QED BY <1>18, <2>3, <2>4, <2>5, <2>6 DEF Token
<1>19. CASE RefreshAnswered
  <2>1. Keeps
    BY <1>19 DEF RefreshAnswered, Keeps, stored, memory
  <2>2. Answered
    BY <1>19, NewPair DEF RefreshAnswered, Answered, SameToken, To, Domains, RunFields
  <2> QED BY <2>1, <2>2 DEF RunMoves, MovesOn
<1>20. CASE RefreshFailed
  <2>1. Keeps
    BY <1>20 DEF RefreshFailed, Keeps, stored, memory
  <2>2. run.pc = "refresh"
    BY <1>20 DEF RefreshFailed
  <2>3. CASE \E outcome : Finish(outcome)
    BY <2>3, FinishGoes DEF RunMoves
  <2>4. CASE run' = Handed(run.token)
    BY <2>1, <2>2, <2>4, HandedMoves DEF RunMoves, MovesOn
  <2> QED BY <1>20, <2>3, <2>4 DEF RefreshFailed
<1>21. CASE RefreshRefused
  <2>1. Keeps
    BY <1>21 DEF RefreshRefused, Keeps, stored
  <2>2. CASE Finish("gone")
    BY <2>2, FinishGoes DEF RunMoves
  <2>3. CASE run' = [run EXCEPT !.pc = "reauth"]
    <3>1. Next1("refresh", "reauth")
      BY <1>21, <2>3 DEF RefreshRefused, Next1, SameToken, SameRest, To, Domains, RunFields
    <3> QED BY <2>1, <3>1 DEF RunMoves, MovesOn
  <2> QED BY <1>21, <2>2, <2>3 DEF RefreshRefused
<1>22. CASE ReauthStored
  <2>1. \E outcome : Finish(outcome)
    BY <1>22 DEF ReauthStored
  <2> QED BY <2>1, FinishGoes DEF RunMoves
<1>23. CASE RefreshSaved
  <2>1. Keeps
    BY <1>23 DEF RefreshSaved, Keeps, Domains, RowFields
  <2>2. run.pc = "saving"
    BY <1>23 DEF RefreshSaved
  <2>3. CASE \E outcome : Finish(outcome)
    BY <2>3, FinishGoes DEF RunMoves
  <2>4. CASE run.back = "invalid" /\ Retried
    BY <2>1, <2>2, <2>4, RetriedMoves DEF RunMoves, MovesOn
  <2>5. CASE run' = Handed(run.next)
    BY <2>1, <2>2, <2>5, HandedMoves DEF RunMoves, MovesOn
  <2> QED BY <1>23, <2>3, <2>4, <2>5 DEF RefreshSaved
<1>24. CASE Invalidate
  <2>1. Keeps
    BY <1>24 DEF Invalidate, Keeps, stored
  <2>2. run.pc = "invalid" /\ refreshMu = ""
    BY <1>24 DEF Invalidate
  <2>3. CASE state # "connected"
    BY <1>24, <2>3, FinishGoes DEF RunMoves, Invalidate
  <2>4. CASE state = "connected" /\ (tokens.pair # run.token \/ gen # run.tokenGen)
    <3>1. Retried
      BY <1>24, <2>4 DEF Invalidate
    <3> QED BY <2>1, <2>2, <3>1, RetriedMoves DEF RunMoves, MovesOn
  <2>5. CASE state = "connected" /\ ~(tokens.pair # run.token \/ gen # run.tokenGen)
    <3>1. CASE run' = [run EXCEPT !.pc = "reauth"]
      <4>1. Next1("invalid", "reauth")
        BY <2>2, <3>1 DEF Next1, SameToken, SameRest, To, Domains, RunFields
      <4> QED BY <2>1, <4>1 DEF RunMoves, MovesOn
    <3>2. CASE run' = [run EXCEPT !.pc = "refresh", !.back = "invalid"]
      <4>1. RefreshesRejected
        BY <2>2, <2>5, <3>2 DEF RefreshesRejected, SameToken, SameRest, To, Connected, Domains,
          RunFields
      <4> QED BY <2>1, <4>1 DEF RunMoves, MovesOn
    <3> QED BY <1>24, <2>5, <3>1, <3>2 DEF Invalidate
  <2> QED BY <2>3, <2>4, <2>5
<1>25. CASE RunAnswered
  <2>1. Keeps
    BY <1>25 DEF RunAnswered, Keeps, stored, memory
  <2>2. run.pc = "asking" /\ run.token \in live
    BY <1>25 DEF RunAnswered
  <2>3. CASE run.step = 0
    <3>1. PICK pc \in {"fetch", "done"} :
            run' = [run EXCEPT !.pc = pc, !.step = 1, !.snapshot = owner[run.token], !.retry = FALSE,
                                !.token = 0, !.tokenGen = 0]
      BY <1>25, <2>3 DEF RunAnswered
    <3>2. Gets
      BY <2>2, <3>1 DEF Gets, Domains, RunFields
    <3> QED BY <2>1, <3>2 DEF RunMoves, MovesOn
  <2>4. CASE run.step # 0
    <3>1. run' = [run EXCEPT !.pc = "write", !.got = owner[run.token], !.retry = FALSE,
                              !.token = 0, !.tokenGen = 0]
      BY <1>25, <2>4 DEF RunAnswered
    <3>2. Gets
      BY <2>2, <3>1 DEF Gets, Domains, RunFields
    <3> QED BY <2>1, <3>2 DEF RunMoves, MovesOn
  <2> QED BY <2>3, <2>4
<1>26. CASE RunUnauthorized
  <2>1. Keeps
    BY <1>26 DEF RunUnauthorized, Keeps, stored, memory
  <2>2. Next1("asking", "invalid")
    BY <1>26 DEF RunUnauthorized, Next1, SameToken, SameRest, To, Domains, RunFields
  <2> QED BY <1>26, <2>1, <2>2 DEF RunMoves, MovesOn
<1>27. CASE RunFailed
  <2>1. \E outcome : Finish(outcome)
    BY <1>27 DEF RunFailed
  <2> QED BY <2>1, FinishGoes DEF RunMoves
<1>28. CASE RunCancelled
  <2>1. \E outcome : Finish(outcome)
    BY <1>28 DEF RunCancelled
  <2> QED BY <2>1, FinishGoes DEF RunMoves
<1>29. CASE RunWrote
  <2>1. Keeps
    BY <1>29 DEF RunWrote, Keeps, memory
  <2>2. CASE Finish("gone")
    BY <2>2, FinishGoes DEF RunMoves
  <2>3. CASE run' = [run EXCEPT !.pc = "done", !.step = 2, !.got = {}]
    <3>1. Writes
      BY <1>29, <2>3 DEF RunWrote, Writes, SameToken, To, Domains, RunFields
    <3> QED BY <2>1, <3>1 DEF RunMoves, MovesOn
  <2> QED BY <1>29, <2>2, <2>3 DEF RunWrote
<1>30. CASE RunDone
  <2>1. \E outcome : Finish(outcome)
    BY <1>30 DEF RunDone
  <2> QED BY <2>1, FinishGoes DEF RunMoves
<1>31. CASE Crash
  BY <1>31 DEF Crash, NoPoller, NoResume, NoRow, NoRun, NoSync, NoTokens, stored, RunMoves, Goes,
    Domains, RunFields, RowFields
<1>32. CASE Withdraw
  BY <1>32 DEF Withdraw, CanFail, Fails, locks, memory, stored, syncing, RunMoves, Goes, Domains,
    RunFields, RowFields
<1>33. CASE UNCHANGED vars
  BY <1>33 DEF vars, RunMoves, Goes, Domains, RunFields, RowFields
<1> QED
  BY <1>1, <1>2, <1>3, <1>4, <1>5, <1>6, <1>7, <1>8, <1>9, <1>10, <1>11, <1>12, <1>13, <1>14,
    <1>15, <1>16, <1>17, <1>18, <1>19, <1>20, <1>21, <1>22, <1>23, <1>24, <1>25, <1>26, <1>27,
    <1>28, <1>29, <1>30, <1>31, <1>32, <1>33 DEF Next

LEMMA LiveOutStep ==
    ASSUME Domains, LiveOut, [Next]_vars
    PROVE  LiveOut'
<1>1. CASE Connect
  BY <1>1, NewPair DEF Connect, NoPoller, bounds, locks, stored, syncing, trakt, LiveOut, Out,
    Domains
<1>2. ASSUME NEW f \in Flows, PollApproved(f) PROVE LiveOut'
  BY <1>2, NewPair DEF PollApproved, CanFail, Fails, Works, locks, memory, stored, syncing,
    LiveOut, Out, Domains
<1>3. ASSUME NEW f \in Flows, PollEnded(f) PROVE LiveOut'
  BY <1>3, NewPair DEF PollEnded, EndFlow, NoPoller, bounds, locks, stored, syncing, trakt,
    LiveOut, Out, Domains
<1>4. ASSUME NEW f \in Flows, FinishUnread(f) PROVE LiveOut'
  BY <1>4, NewPair DEF FinishUnread, CanFail, EndFlow, Fails, NoPoller, Revoke, Works, locks,
    stored, syncing, LiveOut, Out, Domains
<1>5. ASSUME NEW f \in Flows, FinishCancelled(f) PROVE LiveOut'
  BY <1>5, NewPair DEF FinishCancelled, CanFail, Fails, NoPoller, Revoke, Works, locks, memory,
    stored, syncing, LiveOut, Out, Domains
<1>6. ASSUME NEW f \in Flows, FinishStored(f) PROVE LiveOut'
  BY <1>6, NewPair DEF FinishStored, Purged, bounds, memory, stored, syncing, LiveOut, Out,
    Domains
<1>7. ASSUME NEW f \in Flows, FinishRefused(f) PROVE LiveOut'
  BY <1>7, NewPair DEF FinishRefused, CanFail, EndFlow, Fails, NoPoller, Works, locks, stored,
    syncing, LiveOut, Out, Domains
<1>8. ASSUME NEW f \in Flows, FinishConnected(f) PROVE LiveOut'
  BY <1>8, NewPair DEF FinishConnected, NoPoller, NoTokens, bounds, stored, trakt, LiveOut, Out,
    Domains
<1>9. CASE Disconnect
  BY <1>9, NewPair DEF Disconnect, DropFlow, bounds, stored, syncing, trakt, LiveOut, Out, Domains
<1>10. CASE DisconnectStopSync
  BY <1>10, NewPair DEF DisconnectStopSync, NoResume, bounds, locks, memory, stored, trakt,
    LiveOut, Out, Domains
<1>11. CASE DisconnectPurged
  BY <1>11, NewPair DEF DisconnectPurged, CanFail, Fails, NoRow, Purged, Works, memory, stored,
    syncing, trakt, LiveOut, Out, Domains
<1>12. CASE DisconnectReset
  BY <1>12, NewPair DEF DisconnectReset, CanFail, Fails, NoTokens, Revoke, Works, syncing,
    LiveOut, Out, Domains
<1>13. CASE TriggerInitial
  BY <1>13, NewPair DEF TriggerInitial, NoResume, NoRun, Trigger, bounds, locks, memory, stored,
    trakt, LiveOut, Out, Domains
<1>14. CASE TriggerCheck
  BY <1>14, NewPair DEF TriggerCheck, NoResume, NoRun, Trigger, bounds, locks, memory, stored,
    trakt, LiveOut, Out, Domains
<1>15. CASE StartRead
  BY <1>15, NewPair DEF StartRead, CanFail, Fails, NoRun, Works, locks, memory, stored, trakt,
    LiveOut, Out, Domains
<1>16. CASE StartPlanned
  BY <1>16, NewPair DEF StartPlanned, NoResume, NoRun, Plans, bounds, locks, memory, stored,
    trakt, LiveOut, Out, Domains
<1>17. CASE RunAgain
  BY <1>17, NewPair DEF RunAgain, NoRun, bounds, locks, memory, stored, trakt, LiveOut, Out,
    Domains
<1>18. CASE Token
  BY <1>18, NewPair DEF Token, AfterToken, CanFail, Current, Fails, Finish, NoResume, NoRun,
    Works, trakt, LiveOut, Out, Domains
<1>19. CASE RefreshAnswered
  BY <1>19, NewPair DEF RefreshAnswered, Rotated, bounds, locks, memory, stored, LiveOut, Out,
    Domains
<1>20. CASE RefreshFailed
  <2>1. CASE UNCHANGED trakt
    BY <2>1 DEF trakt, LiveOut, Out
  <2>2. CASE ~UNCHANGED trakt
    <3>1. /\ live' = (live \ {run.token}) \cup {NextPair} /\ run.token \in live /\ Unused # {}
          /\ owner' = [owner EXCEPT ![NextPair] = owner[run.token]]
      BY <1>20, <2>2 DEF RefreshFailed, Rotated
    <3> QED BY <3>1, NewPair DEF LiveOut, Out, Domains
  <2> QED BY <2>1, <2>2
<1>21. CASE RefreshRefused
  BY <1>21, NewPair DEF RefreshRefused, Finish, NoResume, NoRun, bounds, stored, trakt, LiveOut,
    Out, Domains
<1>22. CASE ReauthStored
  BY <1>22, NewPair DEF ReauthStored, CanFail, Current, Fails, Finish, NoResume, NoRun, Works,
    memory, trakt, LiveOut, Out, Domains
<1>23. CASE RefreshSaved
  BY <1>23, NewPair DEF RefreshSaved, AfterToken, CanFail, Current, Fails, Finish, Handed,
    NextTokens, NoResume, NoRun, Refreshed, Retried, Works, trakt, LiveOut, Out, Domains
<1>24. CASE Invalidate
  BY <1>24, NewPair DEF Invalidate, Finish, NoResume, NoRun, Retried, bounds, stored, trakt,
    LiveOut, Out, Domains
<1>25. CASE RunAnswered
  BY <1>25, NewPair DEF RunAnswered, bounds, locks, memory, stored, trakt, LiveOut, Out, Domains
<1>26. CASE RunUnauthorized
  BY <1>26, NewPair DEF RunUnauthorized, CanFail, Fails, locks, memory, stored, LiveOut, Out,
    Domains
<1>27. CASE RunFailed
  BY <1>27, NewPair DEF RunFailed, CanFail, Fails, Finish, NoResume, NoRun, locks, memory, stored,
    trakt, LiveOut, Out, Domains
<1>28. CASE RunCancelled
  BY <1>28, NewPair DEF RunCancelled, Finish, NoResume, NoRun, bounds, locks, memory, stored,
    trakt, LiveOut, Out, Domains
<1>29. CASE RunWrote
  BY <1>29, NewPair DEF RunWrote, Current, Finish, NoResume, NoRun, bounds, locks, memory, trakt,
    LiveOut, Out, Domains
<1>30. CASE RunDone
  BY <1>30, NewPair DEF RunDone, Current, Finish, NoResume, NoRun, bounds, locks, memory, trakt,
    LiveOut, Out, Domains
<1>31. CASE Crash
  BY <1>31, NewPair DEF Crash, NoPoller, NoResume, NoRow, NoRun, NoSync, NoTokens, stored,
    LiveOut, Out, Domains
<1>32. CASE Withdraw
  BY <1>32, NewPair DEF Withdraw, CanFail, Fails, locks, memory, stored, syncing, LiveOut, Out,
    Domains
<1>33. CASE UNCHANGED vars
  BY <1>33 DEF vars, LiveOut, Out, Domains
<1> QED
  BY <1>1, <1>2, <1>3, <1>4, <1>5, <1>6, <1>7, <1>8, <1>9, <1>10, <1>11, <1>12, <1>13, <1>14,
    <1>15, <1>16, <1>17, <1>18, <1>19, <1>20, <1>21, <1>22, <1>23, <1>24, <1>25, <1>26, <1>27,
    <1>28, <1>29, <1>30, <1>31, <1>32, <1>33 DEF Next

LEMMA StateOutStep ==
    ASSUME Domains, StateOut, RunOut, PollersOut, [Next]_vars
    PROVE  StateOut'
<1>0. Grows
  BY GrowsStep
<1>1. CASE Connect
  BY <1>1, <1>0 DEF Connect, NoPoller, bounds, locks, stored, syncing, trakt, StateOut, RunOut,
    PollersOut, Out, Grows, Domains, RowFields, TokenFields
<1>2. ASSUME NEW f \in Flows, PollApproved(f) PROVE StateOut'
  BY <1>2, <1>0 DEF PollApproved, CanFail, Fails, Works, locks, memory, stored, syncing, StateOut,
    RunOut, PollersOut, Out, Grows, Domains, RowFields, TokenFields
<1>3. ASSUME NEW f \in Flows, PollEnded(f) PROVE StateOut'
  BY <1>3, <1>0 DEF PollEnded, EndFlow, NoPoller, bounds, locks, stored, syncing, trakt, StateOut,
    RunOut, PollersOut, Out, Grows, Domains, RowFields, TokenFields
<1>4. ASSUME NEW f \in Flows, FinishUnread(f) PROVE StateOut'
  BY <1>4, <1>0 DEF FinishUnread, CanFail, EndFlow, Fails, NoPoller, Revoke, Works, locks, stored,
    syncing, StateOut, RunOut, PollersOut, Out, Grows, Domains, RowFields, TokenFields
<1>5. ASSUME NEW f \in Flows, FinishCancelled(f) PROVE StateOut'
  BY <1>5, <1>0 DEF FinishCancelled, CanFail, Fails, NoPoller, Revoke, Works, locks, memory,
    stored, syncing, StateOut, RunOut, PollersOut, Out, Grows, Domains, RowFields, TokenFields
<1>6. ASSUME NEW f \in Flows, FinishStored(f) PROVE StateOut'
  BY <1>6, <1>0 DEF FinishStored, Purged, bounds, memory, stored, syncing, StateOut, RunOut,
    PollersOut, Out, Grows, Domains, RowFields, TokenFields
<1>7. ASSUME NEW f \in Flows, FinishRefused(f) PROVE StateOut'
  BY <1>7, <1>0 DEF FinishRefused, CanFail, EndFlow, Fails, NoPoller, Works, locks, stored,
    syncing, StateOut, RunOut, PollersOut, Out, Grows, Domains, RowFields, TokenFields
<1>8. ASSUME NEW f \in Flows, FinishConnected(f) PROVE StateOut'
  BY <1>8, <1>0 DEF FinishConnected, NoPoller, NoTokens, bounds, stored, trakt, StateOut, RunOut,
    PollersOut, Out, Grows, Domains, RowFields, TokenFields
<1>9. CASE Disconnect
  BY <1>9, <1>0 DEF Disconnect, DropFlow, bounds, stored, syncing, trakt, StateOut, RunOut,
    PollersOut, Out, Grows, Domains, RowFields, TokenFields
<1>10. CASE DisconnectStopSync
  BY <1>10, <1>0 DEF DisconnectStopSync, NoResume, bounds, locks, memory, stored, trakt, StateOut,
    RunOut, PollersOut, Out, Grows, Domains, RowFields, TokenFields
<1>11. CASE DisconnectPurged
  <2>1. Out(gen)' /\ Out(tokens.pair)'
    BY <1>11, <1>0 DEF DisconnectPurged, memory, StateOut, Out, Grows
  <2>2. row' = row \/ row' = NoRow
    BY <1>11 DEF DisconnectPurged, stored
  <2>3. Out(row.gen)' /\ Out(row.pair)'
    BY <1>0, <2>2 DEF NoRow, StateOut, Out, Grows
  <2> QED BY <2>1, <2>3 DEF StateOut
<1>12. CASE DisconnectReset
  BY <1>12, <1>0 DEF DisconnectReset, CanFail, Fails, NoTokens, Revoke, Works, syncing, StateOut,
    RunOut, PollersOut, Out, Grows, Domains, RowFields, TokenFields
<1>13. CASE TriggerInitial
  BY <1>13, <1>0 DEF TriggerInitial, NoResume, NoRun, Trigger, bounds, locks, memory, stored,
    trakt, StateOut, RunOut, PollersOut, Out, Grows, Domains, RowFields, TokenFields
<1>14. CASE TriggerCheck
  BY <1>14, <1>0 DEF TriggerCheck, NoResume, NoRun, Trigger, bounds, locks, memory, stored, trakt,
    StateOut, RunOut, PollersOut, Out, Grows, Domains, RowFields, TokenFields
<1>15. CASE StartRead
  BY <1>15, <1>0 DEF StartRead, CanFail, Fails, NoRun, Works, locks, memory, stored, trakt,
    StateOut, RunOut, PollersOut, Out, Grows, Domains, RowFields, TokenFields
<1>16. CASE StartPlanned
  BY <1>16, <1>0 DEF StartPlanned, NoResume, NoRun, Plans, bounds, locks, memory, stored, trakt,
    StateOut, RunOut, PollersOut, Out, Grows, Domains, RowFields, TokenFields
<1>17. CASE RunAgain
  BY <1>17, <1>0 DEF RunAgain, NoRun, bounds, locks, memory, stored, trakt, StateOut, RunOut,
    PollersOut, Out, Grows, Domains, RowFields, TokenFields
<1>18. CASE Token
  BY <1>18, <1>0 DEF Token, AfterToken, CanFail, Current, Fails, Finish, NoResume, NoRun, Works,
    trakt, StateOut, RunOut, PollersOut, Out, Grows, Domains, RowFields, TokenFields
<1>19. CASE RefreshAnswered
  BY <1>19, <1>0 DEF RefreshAnswered, Rotated, bounds, locks, memory, stored, StateOut, RunOut,
    PollersOut, Out, Grows, Domains, RowFields, TokenFields
<1>20. CASE RefreshFailed
  BY <1>20, <1>0 DEF RefreshFailed, AfterToken, CanFail, Fails, Finish, Handed, NoResume, NoRun,
    Rotated, memory, stored, trakt, StateOut, RunOut, PollersOut, Out, Grows, Domains, RowFields,
    TokenFields
<1>21. CASE RefreshRefused
  BY <1>21, <1>0 DEF RefreshRefused, Finish, NoResume, NoRun, bounds, stored, trakt, StateOut,
    RunOut, PollersOut, Out, Grows, Domains, RowFields, TokenFields
<1>22. CASE ReauthStored
  BY <1>22, <1>0 DEF ReauthStored, CanFail, Current, Fails, Finish, NoResume, NoRun, Works,
    memory, trakt, StateOut, RunOut, PollersOut, Out, Grows, Domains, RowFields, TokenFields
<1>23. CASE RefreshSaved
  BY <1>23, <1>0 DEF RefreshSaved, AfterToken, CanFail, Current, Fails, Finish, Handed,
    NextTokens, NoResume, NoRun, Refreshed, Retried, Works, trakt, StateOut, RunOut, PollersOut,
    Out, Grows, Domains, RowFields, TokenFields
<1>24. CASE Invalidate
  BY <1>24, <1>0 DEF Invalidate, Finish, NoResume, NoRun, Retried, bounds, stored, trakt,
    StateOut, RunOut, PollersOut, Out, Grows, Domains, RowFields, TokenFields
<1>25. CASE RunAnswered
  BY <1>25, <1>0 DEF RunAnswered, bounds, locks, memory, stored, trakt, StateOut, RunOut,
    PollersOut, Out, Grows, Domains, RowFields, TokenFields
<1>26. CASE RunUnauthorized
  BY <1>26, <1>0 DEF RunUnauthorized, CanFail, Fails, locks, memory, stored, StateOut, RunOut,
    PollersOut, Out, Grows, Domains, RowFields, TokenFields
<1>27. CASE RunFailed
  BY <1>27, <1>0 DEF RunFailed, CanFail, Fails, Finish, NoResume, NoRun, locks, memory, stored,
    trakt, StateOut, RunOut, PollersOut, Out, Grows, Domains, RowFields, TokenFields
<1>28. CASE RunCancelled
  BY <1>28, <1>0 DEF RunCancelled, Finish, NoResume, NoRun, bounds, locks, memory, stored, trakt,
    StateOut, RunOut, PollersOut, Out, Grows, Domains, RowFields, TokenFields
<1>29. CASE RunWrote
  BY <1>29, <1>0 DEF RunWrote, Current, Finish, NoResume, NoRun, bounds, locks, memory, trakt,
    StateOut, RunOut, PollersOut, Out, Grows, Domains, RowFields, TokenFields
<1>30. CASE RunDone
  BY <1>30, <1>0 DEF RunDone, Current, Finish, NoResume, NoRun, bounds, locks, memory, trakt,
    StateOut, RunOut, PollersOut, Out, Grows, Domains, RowFields, TokenFields
<1>31. CASE Crash
  BY <1>31, <1>0 DEF Crash, NoPoller, NoResume, NoRow, NoRun, NoSync, NoTokens, stored, StateOut,
    RunOut, PollersOut, Out, Grows, Domains, RowFields, TokenFields
<1>32. CASE Withdraw
  BY <1>32, <1>0 DEF Withdraw, CanFail, Fails, locks, memory, stored, syncing, StateOut, RunOut,
    PollersOut, Out, Grows, Domains, RowFields, TokenFields
<1>33. CASE UNCHANGED vars
  BY <1>33 DEF vars, StateOut, RunOut, PollersOut, Out, Grows, Domains, RowFields, TokenFields
<1> QED
  BY <1>1, <1>2, <1>3, <1>4, <1>5, <1>6, <1>7, <1>8, <1>9, <1>10, <1>11, <1>12, <1>13, <1>14,
    <1>15, <1>16, <1>17, <1>18, <1>19, <1>20, <1>21, <1>22, <1>23, <1>24, <1>25, <1>26, <1>27,
    <1>28, <1>29, <1>30, <1>31, <1>32, <1>33 DEF Next

LEMMA PollersOutStep ==
    ASSUME Domains, PollersOut, flow \in Flows \cup {0}, [Next]_vars
    PROVE  PollersOut'
<1>1. Grows /\ \A f \in Flows : Moves(f)
  BY GrowsStep, MovesStep
<1>2. ASSUME NEW f \in Flows PROVE Out(poller[f].pair)'
  <2>1. CASE poller'[f].pair \in {0, poller[f].pair}
    BY <1>1, <2>1 DEF PollersOut, Out, Grows
  <2>2. CASE poller'[f].pair = NextPair /\ Unused # {} /\ owner'[NextPair] # {}
    BY <2>2, NewPair DEF Out
  <2> QED BY <1>1, <2>1, <2>2 DEF Moves, Same
<1> QED BY <1>2 DEF PollersOut

LEMMA RunOutStep ==
    ASSUME Domains, LiveOut, StateOut, RunOut, [Next]_vars
    PROVE  RunOut'
<1>1. Grows /\ RunMoves
  BY GrowsStep, RunMovesStep
<1>2. ASSUME NEW p, Out(p) PROVE p = 0 \/ (p \in Pairs /\ owner'[p] # {})
  BY <1>1, <1>2, OutStays
<1>3. CASE run' = run
  BY <1>2, <1>3 DEF RunOut, Out
<1>4. CASE Goes
  BY <1>4 DEF Goes, RunOut, Out
<1>5. CASE MovesOn
  <2>1. CASE Answered
    <3>1. run'.next \in Pairs /\ owner'[run'.next] # {}
      BY <2>1, NewPair DEF Answered, LiveOut, Out
    <3> QED BY <1>2, <2>1, <3>1 DEF Answered, SameToken, RunOut, Out
  <2>2. CASE ~Answered
    <3>1. run'.gen \in {run.gen, gen}
      BY <1>5, <2>2 DEF MovesOn, Stays, Next1, Refreshes, RefreshesRejected, Starts, Asks,
        HandedStarts,
        HandedAsks, Retries, Gets, Writes, SameToken, SameRest
    <3>2. run'.next \in {0, run.next}
      BY <1>5, <2>2 DEF MovesOn, Stays, Next1, Refreshes, RefreshesRejected, Starts, Asks,
        HandedStarts,
        HandedAsks, Retries, Gets, Writes, SameToken, SameRest, Forgets
    <3>3. run'.tokenGen \in {0, gen, run.tokenGen}
      BY <1>5, <2>2 DEF MovesOn, Stays, Next1, Refreshes, RefreshesRejected, Starts, Asks,
        HandedStarts,
        HandedAsks, Retries, Gets, Writes, SameToken, Forgets, TakesToken
    <3>4. run'.token \in {0, tokens.pair, run.token, run.next}
      BY <1>5, <2>2 DEF MovesOn, Stays, Next1, Refreshes, RefreshesRejected, Starts, Asks,
        HandedStarts,
        HandedAsks, Retries, Gets, Writes, SameToken, Forgets, TakesToken
    <3> QED BY <1>2, <3>1, <3>2, <3>3, <3>4 DEF StateOut, RunOut, Out
  <2> QED BY <2>1, <2>2
<1> QED BY <1>1, <1>3, <1>4, <1>5 DEF RunMoves

LEMMA RangesStep ==
    ASSUME Domains, Ranges, PollersRange, [Next]_vars
    PROVE  Ranges'
<1>1. CASE Connect
  BY <1>1, FlowsNonzero DEF Connect, NoPoller, bounds, locks, stored, syncing, trakt, Ranges,
    PollersRange, Domains, RowFields, TokenFields, PollerFields, RunFields
<1>2. ASSUME NEW f \in Flows, PollApproved(f) PROVE Ranges'
  BY <1>2, FlowsNonzero DEF PollApproved, CanFail, Fails, Works, locks, memory, stored, syncing,
    Ranges, PollersRange, Domains, RowFields, TokenFields, PollerFields, RunFields
<1>3. ASSUME NEW f \in Flows, PollEnded(f) PROVE Ranges'
  BY <1>3, FlowsNonzero DEF PollEnded, EndFlow, NoPoller, bounds, locks, stored, syncing, trakt,
    Ranges, PollersRange, Domains, RowFields, TokenFields, PollerFields, RunFields
<1>4. ASSUME NEW f \in Flows, FinishUnread(f) PROVE Ranges'
  BY <1>4, FlowsNonzero DEF FinishUnread, CanFail, EndFlow, Fails, NoPoller, Revoke, Works, locks,
    stored, syncing, Ranges, PollersRange, Domains, RowFields, TokenFields, PollerFields,
    RunFields
<1>5. ASSUME NEW f \in Flows, FinishCancelled(f) PROVE Ranges'
  BY <1>5, FlowsNonzero DEF FinishCancelled, CanFail, Fails, NoPoller, Revoke, Works, locks,
    memory, stored, syncing, Ranges, PollersRange, Domains, RowFields, TokenFields, PollerFields,
    RunFields
<1>6. ASSUME NEW f \in Flows, FinishStored(f) PROVE Ranges'
  BY <1>6, FlowsNonzero DEF FinishStored, Purged, bounds, memory, stored, syncing, Ranges,
    PollersRange, Domains, RowFields, TokenFields, PollerFields, RunFields
<1>7. ASSUME NEW f \in Flows, FinishRefused(f) PROVE Ranges'
  BY <1>7, FlowsNonzero DEF FinishRefused, CanFail, EndFlow, Fails, NoPoller, Works, locks,
    stored, syncing, Ranges, PollersRange, Domains, RowFields, TokenFields, PollerFields,
    RunFields
<1>8. ASSUME NEW f \in Flows, FinishConnected(f) PROVE Ranges'
  BY <1>8, FlowsNonzero DEF FinishConnected, NoPoller, NoTokens, bounds, stored, trakt, Ranges,
    PollersRange, Domains, RowFields, TokenFields, PollerFields, RunFields
<1>9. CASE Disconnect
  BY <1>9, FlowsNonzero DEF Disconnect, DropFlow, bounds, stored, syncing, trakt, Ranges,
    PollersRange, Domains, RowFields, TokenFields, PollerFields, RunFields
<1>10. CASE DisconnectStopSync
  BY <1>10, FlowsNonzero DEF DisconnectStopSync, NoResume, bounds, locks, memory, stored, trakt,
    Ranges, PollersRange, Domains, RowFields, TokenFields, PollerFields, RunFields
<1>11. CASE DisconnectPurged
  BY <1>11, FlowsNonzero DEF DisconnectPurged, CanFail, Fails, NoRow, Purged, Works, memory,
    stored, syncing, trakt, Ranges, PollersRange, Domains, RowFields, TokenFields, PollerFields,
    RunFields
<1>12. CASE DisconnectReset
  BY <1>12, FlowsNonzero DEF DisconnectReset, CanFail, Fails, NoTokens, Revoke, Works, syncing,
    Ranges, PollersRange, Domains, RowFields, TokenFields, PollerFields, RunFields
<1>13. CASE TriggerInitial
  BY <1>13, FlowsNonzero DEF TriggerInitial, NoResume, NoRun, Trigger, bounds, locks, memory,
    stored, trakt, Ranges, PollersRange, Domains, RowFields, TokenFields, PollerFields, RunFields
<1>14. CASE TriggerCheck
  BY <1>14, FlowsNonzero DEF TriggerCheck, NoResume, NoRun, Trigger, bounds, locks, memory,
    stored, trakt, Ranges, PollersRange, Domains, RowFields, TokenFields, PollerFields, RunFields
<1>15. CASE StartRead
  BY <1>15, FlowsNonzero DEF StartRead, CanFail, Fails, NoRun, Works, locks, memory, stored,
    trakt, Ranges, PollersRange, Domains, RowFields, TokenFields, PollerFields, RunFields
<1>16. CASE StartPlanned
  BY <1>16, FlowsNonzero DEF StartPlanned, NoResume, NoRun, Plans, bounds, locks, memory, stored,
    trakt, Ranges, PollersRange, Domains, RowFields, TokenFields, PollerFields, RunFields
<1>17. CASE RunAgain
  BY <1>17, FlowsNonzero DEF RunAgain, NoRun, bounds, locks, memory, stored, trakt, Ranges,
    PollersRange, Domains, RowFields, TokenFields, PollerFields, RunFields
<1>18. CASE Token
  BY <1>18, FlowsNonzero DEF Token, AfterToken, CanFail, Current, Fails, Finish, NoResume, NoRun,
    Works, trakt, Ranges, PollersRange, Domains, RowFields, TokenFields, PollerFields, RunFields
<1>19. CASE RefreshAnswered
  BY <1>19, FlowsNonzero DEF RefreshAnswered, Rotated, bounds, locks, memory, stored, Ranges,
    PollersRange, Domains, RowFields, TokenFields, PollerFields, RunFields
<1>20. CASE RefreshFailed
  BY <1>20, FlowsNonzero DEF RefreshFailed, AfterToken, CanFail, Fails, Finish, Handed, NoResume,
    NoRun, Rotated, memory, stored, trakt, Ranges, PollersRange, Domains, RowFields, TokenFields,
    PollerFields, RunFields
<1>21. CASE RefreshRefused
  BY <1>21, FlowsNonzero DEF RefreshRefused, Finish, NoResume, NoRun, bounds, stored, trakt,
    Ranges, PollersRange, Domains, RowFields, TokenFields, PollerFields, RunFields
<1>22. CASE ReauthStored
  BY <1>22, FlowsNonzero DEF ReauthStored, CanFail, Current, Fails, Finish, NoResume, NoRun,
    Works, memory, trakt, Ranges, PollersRange, Domains, RowFields, TokenFields, PollerFields,
    RunFields
<1>23. CASE RefreshSaved
  BY <1>23, FlowsNonzero DEF RefreshSaved, AfterToken, CanFail, Current, Fails, Finish, Handed,
    NextTokens, NoResume, NoRun, Refreshed, Retried, Works, trakt, Ranges, PollersRange, Domains,
    RowFields, TokenFields, PollerFields, RunFields
<1>24. CASE Invalidate
  BY <1>24, FlowsNonzero DEF Invalidate, Finish, NoResume, NoRun, Retried, bounds, stored, trakt,
    Ranges, PollersRange, Domains, RowFields, TokenFields, PollerFields, RunFields
<1>25. CASE RunAnswered
  BY <1>25, FlowsNonzero DEF RunAnswered, bounds, locks, memory, stored, trakt, Ranges,
    PollersRange, Domains, RowFields, TokenFields, PollerFields, RunFields
<1>26. CASE RunUnauthorized
  BY <1>26, FlowsNonzero DEF RunUnauthorized, CanFail, Fails, locks, memory, stored, Ranges,
    PollersRange, Domains, RowFields, TokenFields, PollerFields, RunFields
<1>27. CASE RunFailed
  BY <1>27, FlowsNonzero DEF RunFailed, CanFail, Fails, Finish, NoResume, NoRun, locks, memory,
    stored, trakt, Ranges, PollersRange, Domains, RowFields, TokenFields, PollerFields, RunFields
<1>28. CASE RunCancelled
  BY <1>28, FlowsNonzero DEF RunCancelled, Finish, NoResume, NoRun, bounds, locks, memory, stored,
    trakt, Ranges, PollersRange, Domains, RowFields, TokenFields, PollerFields, RunFields
<1>29. CASE RunWrote
  BY <1>29, FlowsNonzero DEF RunWrote, Current, Finish, NoResume, NoRun, bounds, locks, memory,
    trakt, Ranges, PollersRange, Domains, RowFields, TokenFields, PollerFields, RunFields
<1>30. CASE RunDone
  BY <1>30, FlowsNonzero DEF RunDone, Current, Finish, NoResume, NoRun, bounds, locks, memory,
    trakt, Ranges, PollersRange, Domains, RowFields, TokenFields, PollerFields, RunFields
<1>31. CASE Crash
  BY <1>31, FlowsNonzero DEF Crash, NoPoller, NoResume, NoRow, NoRun, NoSync, NoTokens, stored,
    Ranges, PollersRange, Domains, RowFields, TokenFields, PollerFields, RunFields
<1>32. CASE Withdraw
  BY <1>32, FlowsNonzero DEF Withdraw, CanFail, Fails, locks, memory, stored, syncing, Ranges,
    PollersRange, Domains, RowFields, TokenFields, PollerFields, RunFields
<1>33. CASE UNCHANGED vars
  BY <1>33 DEF vars, Ranges, PollersRange, Domains, RowFields, TokenFields, PollerFields,
    RunFields
<1> QED
  BY <1>1, <1>2, <1>3, <1>4, <1>5, <1>6, <1>7, <1>8, <1>9, <1>10, <1>11, <1>12, <1>13, <1>14,
    <1>15, <1>16, <1>17, <1>18, <1>19, <1>20, <1>21, <1>22, <1>23, <1>24, <1>25, <1>26, <1>27,
    <1>28, <1>29, <1>30, <1>31, <1>32, <1>33 DEF Next

LEMMA PollersRangeStep ==
    ASSUME Domains, Ranges, PollersRange, Codes, [Next]_vars
    PROVE  PollersRange'
<1>1. \A f \in Flows : Moves(f)
  BY MovesStep DEF Ranges
<1> QED
  <2> SUFFICES ASSUME NEW f \in Flows
               PROVE  /\ poller'[f].pc \in {"none", "polling", "approved", "stored"}
                      /\ poller'[f].from \in {"off", "reauth"}
    BY DEF PollersRange
  <2>1. CASE poller'[f].from = (IF flow = 0 THEN state ELSE poller[flow].from)
             /\ poller'[f].pc = "polling" /\ state # "connected"
    <3>1. poller'[f].from \in {"off", "reauth"}
      BY <2>1 DEF Ranges, PollersRange, Codes
    <3> QED BY <2>1, <3>1
  <2>2. CASE poller'[f].from \in {"off", poller[f].from}
             /\ poller'[f].pc \in {"none", "polling", "approved", "stored", poller[f].pc}
    BY <2>2 DEF PollersRange
  <2> QED BY <1>1, <2>1, <2>2 DEF Moves, Same

LEMMA LocksStep ==
    ASSUME Domains, Ranges, Locks, RefreshLock, Codes, Storing, [Next]_vars
    PROVE  Locks'
<1>1. CASE Connect
  BY <1>1, FlowsNonzero DEF Connect, NoPoller, bounds, locks, stored, syncing, trakt, Locks,
    Ranges, Codes, Storing, Domains
<1>2. ASSUME NEW f \in Flows, PollApproved(f) PROVE Locks'
  BY <1>2, FlowsNonzero DEF PollApproved, CanFail, Fails, Works, locks, memory, stored, syncing,
    Locks, Ranges, Codes, Storing, Domains
<1>3. ASSUME NEW f \in Flows, PollEnded(f) PROVE Locks'
  BY <1>3, FlowsNonzero DEF PollEnded, EndFlow, NoPoller, bounds, locks, stored, syncing, trakt,
    Locks, Ranges, Codes, Storing, Domains
<1>4. ASSUME NEW f \in Flows, FinishUnread(f) PROVE Locks'
  BY <1>4, FlowsNonzero DEF FinishUnread, CanFail, EndFlow, Fails, NoPoller, Revoke, Works, locks,
    stored, syncing, Locks, Ranges, Codes, Storing, Domains
<1>5. ASSUME NEW f \in Flows, FinishCancelled(f) PROVE Locks'
  BY <1>5, FlowsNonzero DEF FinishCancelled, CanFail, Fails, NoPoller, Revoke, Works, locks,
    memory, stored, syncing, Locks, Ranges, Codes, Storing, Domains
<1>6. ASSUME NEW f \in Flows, FinishStored(f) PROVE Locks'
  BY <1>6, FlowsNonzero DEF FinishStored, Purged, bounds, memory, stored, syncing, Locks, Ranges,
    Codes, Storing, Domains
<1>7. ASSUME NEW f \in Flows, FinishRefused(f) PROVE Locks'
  BY <1>7, FlowsNonzero DEF FinishRefused, CanFail, EndFlow, Fails, NoPoller, Works, locks,
    stored, syncing, Locks, Ranges, Codes, Storing, Domains
<1>8. ASSUME NEW f \in Flows, FinishConnected(f) PROVE Locks'
  BY <1>8, FlowsNonzero DEF FinishConnected, NoPoller, NoTokens, bounds, stored, trakt, Locks,
    Ranges, Codes, Storing, Domains
<1>9. CASE Disconnect
  BY <1>9, FlowsNonzero DEF Disconnect, DropFlow, bounds, stored, syncing, trakt, Locks, Ranges,
    Codes, Storing, Domains
<1>10. CASE DisconnectStopSync
  BY <1>10, FlowsNonzero DEF DisconnectStopSync, NoResume, bounds, locks, memory, stored, trakt,
    Locks, Ranges, Codes, Storing, Domains
<1>11. CASE DisconnectPurged
  BY <1>11, FlowsNonzero DEF DisconnectPurged, CanFail, Fails, NoRow, Purged, Works, memory,
    stored, syncing, trakt, Locks, Ranges, Codes, Storing, Domains
<1>12. CASE DisconnectReset
  BY <1>12, FlowsNonzero DEF DisconnectReset, CanFail, Fails, NoTokens, Revoke, Works, syncing,
    Locks, Ranges, Codes, Storing, Domains
<1>13. CASE TriggerInitial
  BY <1>13, FlowsNonzero DEF TriggerInitial, NoResume, NoRun, Trigger, bounds, locks, memory,
    stored, trakt, Locks, Ranges, Codes, Storing, Domains
<1>14. CASE TriggerCheck
  BY <1>14, FlowsNonzero DEF TriggerCheck, NoResume, NoRun, Trigger, bounds, locks, memory,
    stored, trakt, Locks, Ranges, Codes, Storing, Domains
<1>15. CASE StartRead
  BY <1>15, FlowsNonzero DEF StartRead, CanFail, Fails, NoRun, Works, locks, memory, stored,
    trakt, Locks, Ranges, Codes, Storing, Domains
<1>16. CASE StartPlanned
  BY <1>16, FlowsNonzero DEF StartPlanned, NoResume, NoRun, Plans, bounds, locks, memory, stored,
    trakt, Locks, Ranges, Codes, Storing, Domains
<1>17. CASE RunAgain
  BY <1>17, FlowsNonzero DEF RunAgain, NoRun, bounds, locks, memory, stored, trakt, Locks, Ranges,
    Codes, Storing, Domains
<1>18. CASE Token
  BY <1>18, FlowsNonzero DEF Token, AfterToken, CanFail, Current, Fails, Finish, NoResume, NoRun,
    Works, trakt, Locks, Ranges, Codes, Storing, Domains
<1>19. CASE RefreshAnswered
  BY <1>19, FlowsNonzero DEF RefreshAnswered, Rotated, bounds, locks, memory, stored, Locks,
    Ranges, Codes, Storing, Domains
<1>20. CASE RefreshFailed
  <2>1. refreshMu = "sync" /\ refreshMu' \in {"", "sync"}
    BY <1>20 DEF RefreshFailed, RefreshLock, Refreshing
  <2>2. UNCHANGED <<disconnect, life, flow>>
    BY <1>20 DEF RefreshFailed, memory
  <2> QED BY <2>1, <2>2 DEF Locks
<1>21. CASE RefreshRefused
  <2>1. refreshMu = "sync" /\ refreshMu' \in {"", "sync"}
    BY <1>21 DEF RefreshRefused, RefreshLock, Refreshing
  <2>2. UNCHANGED <<disconnect, life, flow>>
    BY <1>21 DEF RefreshRefused, memory
  <2> QED BY <2>1, <2>2 DEF Locks
<1>22. CASE ReauthStored
  <2>1. refreshMu = "sync" /\ refreshMu' \in {"", "sync"}
    BY <1>22 DEF ReauthStored, RefreshLock, Refreshing
  <2>2. UNCHANGED <<disconnect, life, flow>>
    BY <1>22 DEF ReauthStored, memory
  <2> QED BY <2>1, <2>2 DEF Locks
<1>23. CASE RefreshSaved
  <2>1. refreshMu = "sync" /\ refreshMu' \in {"", "sync"}
    BY <1>23 DEF RefreshSaved, RefreshLock, Refreshing
  <2>2. UNCHANGED <<disconnect, life, flow>>
    BY <1>23 DEF RefreshSaved, memory
  <2> QED BY <2>1, <2>2 DEF Locks
<1>24. CASE Invalidate
  BY <1>24, FlowsNonzero DEF Invalidate, Finish, NoResume, NoRun, Retried, bounds, stored, trakt,
    Locks, Ranges, Codes, Storing, Domains
<1>25. CASE RunAnswered
  BY <1>25, FlowsNonzero DEF RunAnswered, bounds, locks, memory, stored, trakt, Locks, Ranges,
    Codes, Storing, Domains
<1>26. CASE RunUnauthorized
  BY <1>26, FlowsNonzero DEF RunUnauthorized, CanFail, Fails, locks, memory, stored, Locks,
    Ranges, Codes, Storing, Domains
<1>27. CASE RunFailed
  BY <1>27, FlowsNonzero DEF RunFailed, CanFail, Fails, Finish, NoResume, NoRun, locks, memory,
    stored, trakt, Locks, Ranges, Codes, Storing, Domains
<1>28. CASE RunCancelled
  BY <1>28, FlowsNonzero DEF RunCancelled, Finish, NoResume, NoRun, bounds, locks, memory, stored,
    trakt, Locks, Ranges, Codes, Storing, Domains
<1>29. CASE RunWrote
  BY <1>29, FlowsNonzero DEF RunWrote, Current, Finish, NoResume, NoRun, bounds, locks, memory,
    trakt, Locks, Ranges, Codes, Storing, Domains
<1>30. CASE RunDone
  BY <1>30, FlowsNonzero DEF RunDone, Current, Finish, NoResume, NoRun, bounds, locks, memory,
    trakt, Locks, Ranges, Codes, Storing, Domains
<1>31. CASE Crash
  BY <1>31, FlowsNonzero DEF Crash, NoPoller, NoResume, NoRow, NoRun, NoSync, NoTokens, stored,
    Locks, Ranges, Codes, Storing, Domains
<1>32. CASE Withdraw
  BY <1>32, FlowsNonzero DEF Withdraw, CanFail, Fails, locks, memory, stored, syncing, Locks,
    Ranges, Codes, Storing, Domains
<1>33. CASE UNCHANGED vars
  BY <1>33 DEF vars, Locks, Ranges, Codes, Storing, Domains
<1> QED
  BY <1>1, <1>2, <1>3, <1>4, <1>5, <1>6, <1>7, <1>8, <1>9, <1>10, <1>11, <1>12, <1>13, <1>14,
    <1>15, <1>16, <1>17, <1>18, <1>19, <1>20, <1>21, <1>22, <1>23, <1>24, <1>25, <1>26, <1>27,
    <1>28, <1>29, <1>30, <1>31, <1>32, <1>33 DEF Next

LEMMA RefreshLockStep ==
    ASSUME Domains, Ranges, Locks, RefreshLock, [Next]_vars
    PROVE  RefreshLock'
<1>1. CASE Connect
  BY <1>1 DEF Connect, NoPoller, bounds, locks, stored, syncing, trakt, RefreshLock, Refreshing,
    Ranges, Locks, Domains, RunFields
<1>2. ASSUME NEW f \in Flows, PollApproved(f) PROVE RefreshLock'
  BY <1>2 DEF PollApproved, CanFail, Fails, Works, locks, memory, stored, syncing, RefreshLock,
    Refreshing, Ranges, Locks, Domains, RunFields
<1>3. ASSUME NEW f \in Flows, PollEnded(f) PROVE RefreshLock'
  BY <1>3 DEF PollEnded, EndFlow, NoPoller, bounds, locks, stored, syncing, trakt, RefreshLock,
    Refreshing, Ranges, Locks, Domains, RunFields
<1>4. ASSUME NEW f \in Flows, FinishUnread(f) PROVE RefreshLock'
  BY <1>4 DEF FinishUnread, CanFail, EndFlow, Fails, NoPoller, Revoke, Works, locks, stored,
    syncing, RefreshLock, Refreshing, Ranges, Locks, Domains, RunFields
<1>5. ASSUME NEW f \in Flows, FinishCancelled(f) PROVE RefreshLock'
  BY <1>5 DEF FinishCancelled, CanFail, Fails, NoPoller, Revoke, Works, locks, memory, stored,
    syncing, RefreshLock, Refreshing, Ranges, Locks, Domains, RunFields
<1>6. ASSUME NEW f \in Flows, FinishStored(f) PROVE RefreshLock'
  BY <1>6 DEF FinishStored, Purged, bounds, memory, stored, syncing, RefreshLock, Refreshing,
    Ranges, Locks, Domains, RunFields
<1>7. ASSUME NEW f \in Flows, FinishRefused(f) PROVE RefreshLock'
  BY <1>7 DEF FinishRefused, CanFail, EndFlow, Fails, NoPoller, Works, locks, stored, syncing,
    RefreshLock, Refreshing, Ranges, Locks, Domains, RunFields
<1>8. ASSUME NEW f \in Flows, FinishConnected(f) PROVE RefreshLock'
  BY <1>8 DEF FinishConnected, NoPoller, NoTokens, bounds, stored, trakt, RefreshLock, Refreshing,
    Ranges, Locks, Domains, RunFields
<1>9. CASE Disconnect
  BY <1>9 DEF Disconnect, DropFlow, bounds, stored, syncing, trakt, RefreshLock, Refreshing,
    Ranges, Locks, Domains, RunFields
<1>10. CASE DisconnectStopSync
  BY <1>10 DEF DisconnectStopSync, NoResume, bounds, locks, memory, stored, trakt, RefreshLock,
    Refreshing, Ranges, Locks, Domains, RunFields
<1>11. CASE DisconnectPurged
  BY <1>11 DEF DisconnectPurged, CanFail, Fails, NoRow, Purged, Works, memory, stored, syncing,
    trakt, RefreshLock, Refreshing, Ranges, Locks, Domains, RunFields
<1>12. CASE DisconnectReset
  BY <1>12 DEF DisconnectReset, CanFail, Fails, NoTokens, Revoke, Works, syncing, RefreshLock,
    Refreshing, Ranges, Locks, Domains, RunFields
<1>13. CASE TriggerInitial
  BY <1>13 DEF TriggerInitial, NoResume, NoRun, Trigger, bounds, locks, memory, stored, trakt,
    RefreshLock, Refreshing, Ranges, Locks, Domains, RunFields
<1>14. CASE TriggerCheck
  BY <1>14 DEF TriggerCheck, NoResume, NoRun, Trigger, bounds, locks, memory, stored, trakt,
    RefreshLock, Refreshing, Ranges, Locks, Domains, RunFields
<1>15. CASE StartRead
  <2>1. run.pc \notin Refreshing
    BY <1>15 DEF StartRead, Refreshing
  <2>2. run'.pc \notin Refreshing
    <3>1. CASE run' = NoRun
      BY <3>1 DEF NoRun, Refreshing
    <3>2. CASE run' = [run EXCEPT !.pc = "planning", !.known = data[0] # {}]
      BY <3>2 DEF Refreshing, Domains, RunFields
    <3> QED BY <1>15, <3>1, <3>2 DEF StartRead
  <2>3. refreshMu' = refreshMu
    BY <1>15 DEF StartRead, locks
  <2> QED BY <2>1, <2>2, <2>3 DEF RefreshLock
<1>16. CASE StartPlanned
  <2>1. run.pc \notin Refreshing /\ run'.pc \notin Refreshing
    BY <1>16 DEF StartPlanned, Refreshing, NoRun, Domains, RunFields
  <2>2. refreshMu' = refreshMu
    BY <1>16 DEF StartPlanned, locks
  <2> QED BY <2>1, <2>2 DEF RefreshLock
<1>17. CASE RunAgain
  BY <1>17 DEF RunAgain, NoRun, bounds, locks, memory, stored, trakt, RefreshLock, Refreshing,
    Ranges, Locks, Domains, RunFields
<1>18. CASE Token
  <2>1. run.pc \notin Refreshing /\ refreshMu = ""
    BY <1>18 DEF Token, Refreshing
  <2>2. CASE \E outcome : Finish(outcome)
    <3>1. run'.pc \notin Refreshing
      BY <2>2, FinishGoes DEF Goes, Refreshing
    <3>2. refreshMu' = refreshMu
      <4>1. run'.pc = "ending"
        BY <2>2 DEF Finish, NoRun
      <4>2. run' # [run EXCEPT !.pc = "refresh", !.back = run.pc, !.token = tokens.pair, !.tokenGen = gen]
        BY <4>1 DEF Domains, RunFields
      <4> QED BY <1>18, <4>2 DEF Token
    <3> QED BY <2>1, <3>1, <3>2 DEF RefreshLock
  <2>3. CASE run' = run /\ refreshMu' = refreshMu
    BY <2>1, <2>3 DEF RefreshLock
  <2>4. CASE /\ refreshMu' = refreshMu
             /\ run' = IF run.pc = "token" THEN [run EXCEPT !.pc = AfterToken, !.gen = gen]
                       ELSE [run EXCEPT !.pc = "asking", !.token = tokens.pair, !.tokenGen = gen]
    <3>1. run'.pc \in {"done", "fetch", "asking"}
      BY <2>4 DEF AfterToken, Domains, RunFields
    <3> QED BY <2>1, <2>4, <3>1 DEF RefreshLock, Refreshing
  <2>5. CASE refreshMu' = "sync" /\ run' = [run EXCEPT !.pc = "refresh", !.back = run.pc, !.token = tokens.pair, !.tokenGen = gen]
    <3>1. run'.pc = "refresh"
      BY <2>5 DEF Domains, RunFields
    <3> QED BY <2>5, <3>1 DEF RefreshLock, Refreshing
  <2> QED BY <1>18, <2>2, <2>3, <2>4, <2>5 DEF Token
<1>19. CASE RefreshAnswered
  BY <1>19 DEF RefreshAnswered, Rotated, bounds, locks, memory, stored, RefreshLock, Refreshing,
    Ranges, Locks, Domains, RunFields
<1>20. CASE RefreshFailed
  <2>1. run.pc = "refresh" /\ refreshMu' = ""
    BY <1>20 DEF RefreshFailed
  <2>2. CASE \E outcome : Finish(outcome)
    BY <2>1, <2>2, FinishGoes DEF Goes, RefreshLock, Refreshing
  <2>3. CASE run' = Handed(run.token)
    BY <2>1, <2>3, HandedMoves DEF HandedStarts, HandedAsks, To, RefreshLock, Refreshing
  <2> QED BY <1>20, <2>2, <2>3 DEF RefreshFailed
<1>21. CASE RefreshRefused
  BY <1>21 DEF RefreshRefused, Finish, NoResume, NoRun, bounds, stored, trakt, RefreshLock,
    Refreshing, Ranges, Locks, Domains, RunFields
<1>22. CASE ReauthStored
  BY <1>22 DEF ReauthStored, CanFail, Current, Fails, Finish, NoResume, NoRun, Works, memory,
    trakt, RefreshLock, Refreshing, Ranges, Locks, Domains, RunFields
<1>23. CASE RefreshSaved
  <2>1. run.pc = "saving" /\ refreshMu' = ""
    BY <1>23 DEF RefreshSaved
  <2>2. CASE \E outcome : Finish(outcome)
    BY <2>1, <2>2, FinishGoes DEF Goes, RefreshLock, Refreshing
  <2>3. CASE run' = Handed(run.next)
    BY <2>1, <2>3, HandedMoves DEF HandedStarts, HandedAsks, To, RefreshLock, Refreshing
  <2>4. CASE run.back = "invalid" /\ Retried
    BY <2>1, <2>4, RetriedMoves DEF Retries, Goes, To, RefreshLock, Refreshing
  <2> QED BY <1>23, <2>2, <2>3, <2>4 DEF RefreshSaved
<1>24. CASE Invalidate
  <2>1. run.pc = "invalid" /\ refreshMu = ""
    BY <1>24 DEF Invalidate
  <2>2. CASE refreshMu' = refreshMu /\ \E outcome : Finish(outcome)
    BY <2>1, <2>2, FinishGoes DEF Goes, RefreshLock, Refreshing
  <2>3. CASE refreshMu' = refreshMu /\ Retried
    BY <2>1, <2>3, RetriedMoves DEF Retries, Goes, To, RefreshLock, Refreshing
  <2>4. CASE refreshMu' = "sync" /\ (run' = [run EXCEPT !.pc = "reauth"] \/ run' = [run EXCEPT !.pc = "refresh", !.back = "invalid"])
    <3>1. run'.pc \in Refreshing
      BY <2>4 DEF Refreshing, Domains, RunFields
    <3> QED BY <2>4, <3>1 DEF RefreshLock
  <2>5. CASE state # "connected"
    BY <1>24, <2>2, <2>5 DEF Invalidate
  <2>6. CASE state = "connected" /\ (tokens.pair # run.token \/ gen # run.tokenGen)
    BY <1>24, <2>3, <2>6 DEF Invalidate
  <2>7. CASE state = "connected" /\ ~(tokens.pair # run.token \/ gen # run.tokenGen)
    BY <1>24, <2>4, <2>7 DEF Invalidate
  <2> QED BY <2>5, <2>6, <2>7
<1>25. CASE RunAnswered
  <2>1. run.pc \notin Refreshing /\ run'.pc \notin Refreshing
    BY <1>25 DEF RunAnswered, Refreshing, NoRun, Domains, RunFields
  <2>2. refreshMu' = refreshMu
    BY <1>25 DEF RunAnswered, locks
  <2> QED BY <2>1, <2>2 DEF RefreshLock
<1>26. CASE RunUnauthorized
  BY <1>26 DEF RunUnauthorized, CanFail, Fails, locks, memory, stored, RefreshLock, Refreshing,
    Ranges, Locks, Domains, RunFields
<1>27. CASE RunFailed
  BY <1>27 DEF RunFailed, CanFail, Fails, Finish, NoResume, NoRun, locks, memory, stored, trakt,
    RefreshLock, Refreshing, Ranges, Locks, Domains, RunFields
<1>28. CASE RunCancelled
  BY <1>28 DEF RunCancelled, Finish, NoResume, NoRun, bounds, locks, memory, stored, trakt,
    RefreshLock, Refreshing, Ranges, Locks, Domains, RunFields
<1>29. CASE RunWrote
  <2>1. run.pc \notin Refreshing /\ run'.pc \notin Refreshing
    BY <1>29 DEF RunWrote, Refreshing, NoRun, Finish, Domains, RunFields
  <2>2. refreshMu' = refreshMu
    BY <1>29 DEF RunWrote, locks
  <2> QED BY <2>1, <2>2 DEF RefreshLock
<1>30. CASE RunDone
  BY <1>30 DEF RunDone, Current, Finish, NoResume, NoRun, bounds, locks, memory, trakt,
    RefreshLock, Refreshing, Ranges, Locks, Domains, RunFields
<1>31. CASE Crash
  BY <1>31 DEF Crash, NoPoller, NoResume, NoRow, NoRun, NoSync, NoTokens, stored, RefreshLock,
    Refreshing, Ranges, Locks, Domains, RunFields
<1>32. CASE Withdraw
  BY <1>32 DEF Withdraw, CanFail, Fails, locks, memory, stored, syncing, RefreshLock, Refreshing,
    Ranges, Locks, Domains, RunFields
<1>33. CASE UNCHANGED vars
  BY <1>33 DEF vars, RefreshLock, Refreshing, Ranges, Locks, Domains, RunFields
<1> QED
  BY <1>1, <1>2, <1>3, <1>4, <1>5, <1>6, <1>7, <1>8, <1>9, <1>10, <1>11, <1>12, <1>13, <1>14,
    <1>15, <1>16, <1>17, <1>18, <1>19, <1>20, <1>21, <1>22, <1>23, <1>24, <1>25, <1>26, <1>27,
    <1>28, <1>29, <1>30, <1>31, <1>32, <1>33 DEF Next

LEMMA CodesStep ==
    ASSUME Domains, Ranges, PollersRange, Locks, Codes, Storing, [Next]_vars
    PROVE  Codes'
<1>1. CASE Connect
  <2> DEFINE ended == IF flow = 0 THEN poller ELSE [poller EXCEPT ![flow].cancelled = TRUE]
             back == IF flow = 0 THEN state ELSE poller[flow].from
  <2>1. DOMAIN ended = Flows /\ \A g \in Flows : ended[g].pc = "none" \/ ended[g].cancelled
    <3>1. CASE flow = 0
      BY <3>1, FlowsNonzero DEF Domains, Codes
    <3>2. CASE flow # 0
      BY <3>2 DEF Domains, PollerFields, Codes, Ranges
    <3> QED BY <3>1, <3>2
  <2>2. back # "pending"
    BY FlowsNonzero DEF Codes, Ranges, PollersRange
  <2>3. CASE poller' = ended /\ flow' = 0 /\ state' = back
    BY <2>1, <2>2, <2>3 DEF Codes
  <2>4. CASE \E f \in Flows : /\ poller' = [ended EXCEPT ![f] = [NoPoller EXCEPT !.pc = "polling", !.from = back]]
                              /\ flow' = f /\ state' = "pending"
    <3>1. PICK f \in Flows : /\ poller' = [ended EXCEPT ![f] = [NoPoller EXCEPT !.pc = "polling", !.from = back]]
                            /\ flow' = f /\ state' = "pending"
      BY <2>4
    <3> DEFINE new == [NoPoller EXCEPT !.pc = "polling", !.from = back]
    <3>2. new.pc = "polling" /\ ~new.cancelled
      BY DEF NoPoller
    <3> HIDE DEF ended, new
    <3>3. poller'[f] = new /\ \A g \in Flows \ {f} : poller'[g] = ended[g]
      BY <2>1, <3>1 DEF new
    <3> QED BY <2>1, <3>1, <3>2, <3>3, FlowsNonzero DEF Codes
  <2> QED BY <1>1, <2>3, <2>4 DEF Connect
<1>2. ASSUME NEW f \in Flows, PollApproved(f) PROVE Codes'
  <2>1. \A g \in Flows : (poller'[g].pc # "none" /\ poller[g].pc # "none") \/ poller'[g] = poller[g]
    BY <1>2 DEF PollApproved, Domains, PollerFields
  <2>2. \A g \in Flows : poller'[g].cancelled = poller[g].cancelled
    BY <1>2 DEF PollApproved, Domains, PollerFields
  <2>3. UNCHANGED <<state, flow>>
    BY <1>2 DEF PollApproved, memory
  <2> QED BY <2>1, <2>2, <2>3 DEF Codes, Ranges
<1>3. ASSUME NEW f \in Flows, PollEnded(f) PROVE Codes'
  <2>1. poller' = [poller EXCEPT ![f] = NoPoller]
    BY <1>3 DEF PollEnded, EndFlow
  <2>2. poller'[f].pc = "none" /\ \A g \in Flows \ {f} : poller'[g] = poller[g]
    BY <2>1 DEF NoPoller, Domains
  <2>3. CASE flow = f
    <3>1. ~poller[f].cancelled
      BY <2>3, FlowsNonzero DEF Codes
    <3>2. flow' = 0 /\ state' = poller[f].from
      BY <1>3, <2>3, <3>1 DEF PollEnded, EndFlow
    <3> QED BY <2>2, <2>3, <3>2 DEF Codes, PollersRange
  <2>4. CASE flow # f
    <3>1. UNCHANGED <<flow, state>>
      BY <1>3, <2>4 DEF PollEnded, EndFlow
    <3> QED BY <2>2, <2>4, <3>1 DEF Codes, Ranges
  <2> QED BY <2>3, <2>4
<1>4. ASSUME NEW f \in Flows, FinishUnread(f) PROVE Codes'
  BY <1>4, FlowsNonzero DEF FinishUnread, CanFail, EndFlow, Fails, NoPoller, Revoke, Works, locks,
    stored, syncing, Codes, Storing, Locks, Ranges, PollersRange, Domains, RowFields, TokenFields,
    PollerFields
<1>5. ASSUME NEW f \in Flows, FinishCancelled(f) PROVE Codes'
  BY <1>5, FlowsNonzero DEF FinishCancelled, CanFail, Fails, NoPoller, Revoke, Works, locks,
    memory, stored, syncing, Codes, Storing, Locks, Ranges, PollersRange, Domains, RowFields,
    TokenFields, PollerFields
<1>6. ASSUME NEW f \in Flows, FinishStored(f) PROVE Codes'
  <2>1. \A g \in Flows : (poller'[g].pc # "none" /\ poller[g].pc # "none") \/ poller'[g] = poller[g]
    BY <1>6 DEF FinishStored, Domains, PollerFields
  <2>2. \A g \in Flows : poller'[g].cancelled = poller[g].cancelled
    BY <1>6 DEF FinishStored, Domains, PollerFields
  <2>3. UNCHANGED <<state, flow>>
    BY <1>6 DEF FinishStored, memory
  <2> QED BY <2>1, <2>2, <2>3 DEF Codes, Ranges
<1>7. ASSUME NEW f \in Flows, FinishRefused(f) PROVE Codes'
  BY <1>7, FlowsNonzero DEF FinishRefused, CanFail, EndFlow, Fails, NoPoller, Works, locks,
    stored, syncing, Codes, Storing, Locks, Ranges, PollersRange, Domains, RowFields, TokenFields,
    PollerFields
<1>8. ASSUME NEW f \in Flows, FinishConnected(f) PROVE Codes'
  BY <1>8, FlowsNonzero DEF FinishConnected, NoPoller, NoTokens, bounds, stored, trakt, Codes,
    Storing, Locks, Ranges, PollersRange, Domains, RowFields, TokenFields, PollerFields
<1>9. CASE Disconnect
  <2>1. CASE flow # 0
    <3>1. poller' = [poller EXCEPT ![flow].cancelled = TRUE] /\ flow' = 0 /\ state' = poller[flow].from
      BY <1>9, <2>1 DEF Disconnect, DropFlow
    <3>2. \A g \in Flows \ {flow} : poller'[g] = poller[g]
      BY <2>1, <3>1 DEF Domains
    <3>3. poller'[flow].cancelled /\ flow \in Flows
      BY <2>1, <3>1 DEF Domains, PollerFields, Ranges
    <3>4. state' # "pending"
      BY <3>1, <3>3 DEF PollersRange
    <3> QED BY <3>1, <3>2, <3>3, <3>4 DEF Codes
  <2>2. CASE flow = 0
    BY <1>9, <2>2 DEF Disconnect, Codes
  <2> QED BY <2>1, <2>2
<1>10. CASE DisconnectStopSync
  BY <1>10, FlowsNonzero DEF DisconnectStopSync, NoResume, bounds, locks, memory, stored, trakt,
    Codes, Storing, Locks, Ranges, PollersRange, Domains, RowFields, TokenFields, PollerFields
<1>11. CASE DisconnectPurged
  BY <1>11, FlowsNonzero DEF DisconnectPurged, CanFail, Fails, NoRow, Purged, Works, memory,
    stored, syncing, trakt, Codes, Storing, Locks, Ranges, PollersRange, Domains, RowFields,
    TokenFields, PollerFields
<1>12. CASE DisconnectReset
  BY <1>12, FlowsNonzero DEF DisconnectReset, CanFail, Fails, NoTokens, Revoke, Works, syncing,
    Codes, Storing, Locks, Ranges, PollersRange, Domains, RowFields, TokenFields, PollerFields
<1>13. CASE TriggerInitial
  BY <1>13, FlowsNonzero DEF TriggerInitial, NoResume, NoRun, Trigger, bounds, locks, memory,
    stored, trakt, Codes, Storing, Locks, Ranges, PollersRange, Domains, RowFields, TokenFields,
    PollerFields
<1>14. CASE TriggerCheck
  BY <1>14, FlowsNonzero DEF TriggerCheck, NoResume, NoRun, Trigger, bounds, locks, memory,
    stored, trakt, Codes, Storing, Locks, Ranges, PollersRange, Domains, RowFields, TokenFields,
    PollerFields
<1>15. CASE StartRead
  BY <1>15, FlowsNonzero DEF StartRead, CanFail, Fails, NoRun, Works, locks, memory, stored,
    trakt, Codes, Storing, Locks, Ranges, PollersRange, Domains, RowFields, TokenFields,
    PollerFields
<1>16. CASE StartPlanned
  BY <1>16, FlowsNonzero DEF StartPlanned, NoResume, NoRun, Plans, bounds, locks, memory, stored,
    trakt, Codes, Storing, Locks, Ranges, PollersRange, Domains, RowFields, TokenFields,
    PollerFields
<1>17. CASE RunAgain
  BY <1>17, FlowsNonzero DEF RunAgain, NoRun, bounds, locks, memory, stored, trakt, Codes,
    Storing, Locks, Ranges, PollersRange, Domains, RowFields, TokenFields, PollerFields
<1>18. CASE Token
  BY <1>18, FlowsNonzero DEF Token, AfterToken, CanFail, Current, Fails, Finish, NoResume, NoRun,
    Works, trakt, Codes, Storing, Locks, Ranges, PollersRange, Domains, RowFields, TokenFields,
    PollerFields
<1>19. CASE RefreshAnswered
  BY <1>19, FlowsNonzero DEF RefreshAnswered, Rotated, bounds, locks, memory, stored, Codes,
    Storing, Locks, Ranges, PollersRange, Domains, RowFields, TokenFields, PollerFields
<1>20. CASE RefreshFailed
  BY <1>20, FlowsNonzero DEF RefreshFailed, AfterToken, CanFail, Fails, Finish, Handed, NoResume,
    NoRun, Rotated, memory, stored, trakt, Codes, Storing, Locks, Ranges, PollersRange, Domains,
    RowFields, TokenFields, PollerFields
<1>21. CASE RefreshRefused
  BY <1>21, FlowsNonzero DEF RefreshRefused, Finish, NoResume, NoRun, bounds, stored, trakt,
    Codes, Storing, Locks, Ranges, PollersRange, Domains, RowFields, TokenFields, PollerFields
<1>22. CASE ReauthStored
  BY <1>22, FlowsNonzero DEF ReauthStored, CanFail, Current, Fails, Finish, NoResume, NoRun,
    Works, memory, trakt, Codes, Storing, Locks, Ranges, PollersRange, Domains, RowFields,
    TokenFields, PollerFields
<1>23. CASE RefreshSaved
  BY <1>23, FlowsNonzero DEF RefreshSaved, AfterToken, CanFail, Current, Fails, Finish, Handed,
    NextTokens, NoResume, NoRun, Refreshed, Retried, Works, trakt, Codes, Storing, Locks, Ranges,
    PollersRange, Domains, RowFields, TokenFields, PollerFields
<1>24. CASE Invalidate
  BY <1>24, FlowsNonzero DEF Invalidate, Finish, NoResume, NoRun, Retried, bounds, stored, trakt,
    Codes, Storing, Locks, Ranges, PollersRange, Domains, RowFields, TokenFields, PollerFields
<1>25. CASE RunAnswered
  BY <1>25, FlowsNonzero DEF RunAnswered, bounds, locks, memory, stored, trakt, Codes, Storing,
    Locks, Ranges, PollersRange, Domains, RowFields, TokenFields, PollerFields
<1>26. CASE RunUnauthorized
  BY <1>26, FlowsNonzero DEF RunUnauthorized, CanFail, Fails, locks, memory, stored, Codes,
    Storing, Locks, Ranges, PollersRange, Domains, RowFields, TokenFields, PollerFields
<1>27. CASE RunFailed
  BY <1>27, FlowsNonzero DEF RunFailed, CanFail, Fails, Finish, NoResume, NoRun, locks, memory,
    stored, trakt, Codes, Storing, Locks, Ranges, PollersRange, Domains, RowFields, TokenFields,
    PollerFields
<1>28. CASE RunCancelled
  BY <1>28, FlowsNonzero DEF RunCancelled, Finish, NoResume, NoRun, bounds, locks, memory, stored,
    trakt, Codes, Storing, Locks, Ranges, PollersRange, Domains, RowFields, TokenFields,
    PollerFields
<1>29. CASE RunWrote
  BY <1>29, FlowsNonzero DEF RunWrote, Current, Finish, NoResume, NoRun, bounds, locks, memory,
    trakt, Codes, Storing, Locks, Ranges, PollersRange, Domains, RowFields, TokenFields,
    PollerFields
<1>30. CASE RunDone
  BY <1>30, FlowsNonzero DEF RunDone, Current, Finish, NoResume, NoRun, bounds, locks, memory,
    trakt, Codes, Storing, Locks, Ranges, PollersRange, Domains, RowFields, TokenFields,
    PollerFields
<1>31. CASE Crash
  BY <1>31, FlowsNonzero DEF Crash, NoPoller, NoResume, NoRow, NoRun, NoSync, NoTokens, stored,
    Codes, Storing, Locks, Ranges, PollersRange, Domains, RowFields, TokenFields, PollerFields
<1>32. CASE Withdraw
  BY <1>32, FlowsNonzero DEF Withdraw, CanFail, Fails, locks, memory, stored, syncing, Codes,
    Storing, Locks, Ranges, PollersRange, Domains, RowFields, TokenFields, PollerFields
<1>33. CASE UNCHANGED vars
  BY <1>33 DEF vars, Codes, Storing, Locks, Ranges, PollersRange, Domains, RowFields, TokenFields,
    PollerFields
<1> QED
  BY <1>1, <1>2, <1>3, <1>4, <1>5, <1>6, <1>7, <1>8, <1>9, <1>10, <1>11, <1>12, <1>13, <1>14,
    <1>15, <1>16, <1>17, <1>18, <1>19, <1>20, <1>21, <1>22, <1>23, <1>24, <1>25, <1>26, <1>27,
    <1>28, <1>29, <1>30, <1>31, <1>32, <1>33 DEF Next

LEMMA StoringKept ==
    ASSUME Storing, life' = life, row'.gen = row.gen, row'.pair = row.pair,
           \A g \in Flows : /\ poller'[g].pc = "stored" <=> poller[g].pc = "stored"
                            /\ poller'[g].pc = "stored" => /\ poller'[g].cancelled = poller[g].cancelled
                                                          /\ poller'[g].pair = poller[g].pair
    PROVE  Storing'
BY DEF Storing

LEMMA StoringNobody ==
    ASSUME Storing, life # "finish", life' # "finish",
           \A g \in Flows : poller'[g].pc \in {poller[g].pc, "none", "polling"}
    PROVE  Storing'
BY DEF Storing

LEMMA StoringStep ==
    ASSUME Domains, Ranges, PollersRange, Locks, Codes, Storing, RefreshesOwn, [Next]_vars
    PROVE  Storing'
<1>1. CASE Connect
  <2>1. life = "" /\ life' = ""
    BY <1>1 DEF Connect, locks
  <2> DEFINE ended == IF flow = 0 THEN poller ELSE [poller EXCEPT ![flow].cancelled = TRUE]
             back == IF flow = 0 THEN state ELSE poller[flow].from
  <2>2. DOMAIN ended = Flows /\ \A g \in Flows : ended[g].pc = poller[g].pc
    <3>1. CASE flow = 0
      BY <3>1 DEF Domains
    <3>2. CASE flow # 0
      BY <3>2 DEF Domains, PollerFields, Ranges
    <3> QED BY <3>1, <3>2
  <2>3. CASE poller' = ended
    BY <2>1, <2>2, <2>3, StoringNobody
  <2>4. CASE \E f \in Flows : poller' = [ended EXCEPT ![f] = [NoPoller EXCEPT !.pc = "polling", !.from = back]]
    <3>1. PICK f \in Flows : poller' = [ended EXCEPT ![f] = [NoPoller EXCEPT !.pc = "polling", !.from = back]]
      BY <2>4
    <3> DEFINE new == [NoPoller EXCEPT !.pc = "polling", !.from = back]
    <3>2. new.pc = "polling"
      BY DEF NoPoller
    <3> HIDE DEF ended, new
    <3>3. poller'[f] = new /\ \A g \in Flows \ {f} : poller'[g] = ended[g]
      BY <2>2, <3>1 DEF new
    <3> QED BY <2>1, <2>2, <3>2, <3>3, StoringNobody
  <2> QED BY <1>1, <2>3, <2>4 DEF Connect
<1>2. ASSUME NEW f \in Flows, PollApproved(f) PROVE Storing'
  <2>1. \A g \in Flows \ {f} : poller'[g] = poller[g]
    BY <1>2 DEF PollApproved, Domains
  <2>2. poller'[f].pc # "stored" /\ poller[f].pc # "stored"
    BY <1>2 DEF PollApproved, Domains, PollerFields
  <2>3. UNCHANGED <<life, row>>
    BY <1>2 DEF PollApproved, stored, locks
  <2> QED BY <2>1, <2>2, <2>3, StoringKept
<1>3. ASSUME NEW f \in Flows, PollEnded(f) PROVE Storing'
  <2>1. poller' = [poller EXCEPT ![f] = NoPoller] /\ poller[f].pc = "polling"
    BY <1>3 DEF PollEnded, EndFlow
  <2>2. poller'[f].pc = "none" /\ \A g \in Flows \ {f} : poller'[g] = poller[g]
    BY <2>1 DEF NoPoller, Domains
  <2>3. UNCHANGED <<life, row>>
    BY <1>3 DEF PollEnded, stored, locks
  <2> QED BY <2>1, <2>2, <2>3, StoringKept
<1>4. ASSUME NEW f \in Flows, FinishUnread(f) PROVE Storing'
  BY <1>4, FlowsNonzero DEF FinishUnread, CanFail, EndFlow, Fails, NoPoller, Revoke, Works, locks,
    stored, syncing, Storing, Codes, Locks, Ranges, Domains, RowFields, TokenFields, PollerFields
<1>5. ASSUME NEW f \in Flows, FinishCancelled(f) PROVE Storing'
  BY <1>5, FlowsNonzero DEF FinishCancelled, CanFail, Fails, NoPoller, Revoke, Works, locks,
    memory, stored, syncing, Storing, Codes, Locks, Ranges, Domains, RowFields, TokenFields,
    PollerFields
<1>6. ASSUME NEW f \in Flows, FinishStored(f) PROVE Storing'
  <2>1. life = "" /\ life' = "finish" /\ ~poller[f].cancelled
        /\ row' = [gen |-> poller[f].pair, account |-> owner[poller[f].pair], pair |-> poller[f].pair,
                   reauth |-> FALSE]
    BY <1>6 DEF FinishStored
  <2>2. \A g \in Flows \ {f} : poller'[g] = poller[g]
    BY <1>6 DEF FinishStored, Domains
  <2>3. poller'[f].pc = "stored" /\ poller'[f].pair = poller[f].pair /\ poller'[f].cancelled = poller[f].cancelled
    BY <1>6 DEF FinishStored, Domains, PollerFields
  <2>4. \A g \in Flows \ {f} : poller[g].pc # "stored"
    BY <2>1 DEF Storing
  <2> QED BY <2>1, <2>2, <2>3, <2>4 DEF Storing
<1>7. ASSUME NEW f \in Flows, FinishRefused(f) PROVE Storing'
  BY <1>7, FlowsNonzero DEF FinishRefused, CanFail, EndFlow, Fails, NoPoller, Works, locks,
    stored, syncing, Storing, Codes, Locks, Ranges, Domains, RowFields, TokenFields, PollerFields
<1>8. ASSUME NEW f \in Flows, FinishConnected(f) PROVE Storing'
  BY <1>8, FlowsNonzero DEF FinishConnected, NoPoller, NoTokens, bounds, stored, trakt, Storing,
    Codes, Locks, Ranges, Domains, RowFields, TokenFields, PollerFields
<1>9. CASE Disconnect
  <2>1. life = "" /\ life' \in {"", "disconnect"}
    BY <1>9 DEF Disconnect
  <2>2. \A g \in Flows : poller'[g].pc = poller[g].pc
    <3>1. CASE flow # 0
      <4>1. poller' = [poller EXCEPT ![flow].cancelled = TRUE]
        BY <1>9, <3>1 DEF Disconnect, DropFlow
      <4> QED BY <3>1, <4>1 DEF Domains, PollerFields, Ranges
    <3>2. CASE flow = 0
      BY <1>9, <3>2 DEF Disconnect
    <3> QED BY <3>1, <3>2
  <2> QED BY <2>1, <2>2, StoringNobody
<1>10. CASE DisconnectStopSync
  BY <1>10, FlowsNonzero DEF DisconnectStopSync, NoResume, bounds, locks, memory, stored, trakt,
    Storing, Codes, Locks, Ranges, Domains, RowFields, TokenFields, PollerFields
<1>11. CASE DisconnectPurged
  BY <1>11, FlowsNonzero DEF DisconnectPurged, CanFail, Fails, NoRow, Purged, Works, memory,
    stored, syncing, trakt, Storing, Codes, Locks, Ranges, Domains, RowFields, TokenFields,
    PollerFields
<1>12. CASE DisconnectReset
  BY <1>12, FlowsNonzero DEF DisconnectReset, CanFail, Fails, NoTokens, Revoke, Works, syncing,
    Storing, Codes, Locks, Ranges, Domains, RowFields, TokenFields, PollerFields
<1>13. CASE TriggerInitial
  BY <1>13, FlowsNonzero DEF TriggerInitial, NoResume, NoRun, Trigger, bounds, locks, memory,
    stored, trakt, Storing, Codes, Locks, Ranges, Domains, RowFields, TokenFields, PollerFields
<1>14. CASE TriggerCheck
  BY <1>14, FlowsNonzero DEF TriggerCheck, NoResume, NoRun, Trigger, bounds, locks, memory,
    stored, trakt, Storing, Codes, Locks, Ranges, Domains, RowFields, TokenFields, PollerFields
<1>15. CASE StartRead
  BY <1>15, FlowsNonzero DEF StartRead, CanFail, Fails, NoRun, Works, locks, memory, stored,
    trakt, Storing, Codes, Locks, Ranges, Domains, RowFields, TokenFields, PollerFields
<1>16. CASE StartPlanned
  BY <1>16, FlowsNonzero DEF StartPlanned, NoResume, NoRun, Plans, bounds, locks, memory, stored,
    trakt, Storing, Codes, Locks, Ranges, Domains, RowFields, TokenFields, PollerFields
<1>17. CASE RunAgain
  BY <1>17, FlowsNonzero DEF RunAgain, NoRun, bounds, locks, memory, stored, trakt, Storing,
    Codes, Locks, Ranges, Domains, RowFields, TokenFields, PollerFields
<1>18. CASE Token
  <2>1. UNCHANGED <<life, poller>>
    BY <1>18 DEF Token
  <2>2. row'.gen = row.gen
    BY <1>18 DEF Token, Domains, RowFields
  <2>3. CASE state = "connected"
    <3>1. \A g \in Flows : poller[g].pc # "stored"
      BY <2>3, FlowsNonzero DEF Storing, Codes
    <3> QED BY <2>1, <3>1 DEF Storing
  <2>4. CASE state # "connected"
    <3>1. row' = row
      BY <1>18, <2>4 DEF Token, RefreshesOwn
    <3> QED BY <2>1, <3>1 DEF Storing
  <2> QED BY <2>3, <2>4
<1>19. CASE RefreshAnswered
  BY <1>19, FlowsNonzero DEF RefreshAnswered, Rotated, bounds, locks, memory, stored, Storing,
    Codes, Locks, Ranges, Domains, RowFields, TokenFields, PollerFields
<1>20. CASE RefreshFailed
  BY <1>20, FlowsNonzero DEF RefreshFailed, AfterToken, CanFail, Fails, Finish, Handed, NoResume,
    NoRun, Rotated, memory, stored, trakt, Storing, Codes, Locks, Ranges, Domains, RowFields,
    TokenFields, PollerFields
<1>21. CASE RefreshRefused
  BY <1>21, FlowsNonzero DEF RefreshRefused, Finish, NoResume, NoRun, bounds, stored, trakt,
    Storing, Codes, Locks, Ranges, Domains, RowFields, TokenFields, PollerFields
<1>22. CASE ReauthStored
  <2>1. UNCHANGED <<life, poller>>
    BY <1>22 DEF ReauthStored
  <2>2. row'.gen = row.gen /\ row'.pair = row.pair
    BY <1>22 DEF ReauthStored, Domains, RowFields
  <2> QED BY <2>1, <2>2, StoringKept
<1>23. CASE RefreshSaved
  <2>1. UNCHANGED <<life, poller>>
    BY <1>23 DEF RefreshSaved
  <2>2. row'.gen = row.gen
    BY <1>23 DEF RefreshSaved, Domains, RowFields
  <2>3. CASE state = "connected"
    <3>1. \A g \in Flows : poller[g].pc # "stored"
      BY <2>3, FlowsNonzero DEF Storing, Codes
    <3> QED BY <2>1, <3>1 DEF Storing
  <2>4. CASE state # "connected"
    <3>1. row' = row
      BY <1>23, <2>4 DEF RefreshSaved, RefreshesOwn
    <3> QED BY <2>1, <3>1 DEF Storing
  <2> QED BY <2>3, <2>4
<1>24. CASE Invalidate
  BY <1>24, FlowsNonzero DEF Invalidate, Finish, NoResume, NoRun, Retried, bounds, stored, trakt,
    Storing, Codes, Locks, Ranges, Domains, RowFields, TokenFields, PollerFields
<1>25. CASE RunAnswered
  BY <1>25, FlowsNonzero DEF RunAnswered, bounds, locks, memory, stored, trakt, Storing, Codes,
    Locks, Ranges, Domains, RowFields, TokenFields, PollerFields
<1>26. CASE RunUnauthorized
  BY <1>26, FlowsNonzero DEF RunUnauthorized, CanFail, Fails, locks, memory, stored, Storing,
    Codes, Locks, Ranges, Domains, RowFields, TokenFields, PollerFields
<1>27. CASE RunFailed
  BY <1>27, FlowsNonzero DEF RunFailed, CanFail, Fails, Finish, NoResume, NoRun, locks, memory,
    stored, trakt, Storing, Codes, Locks, Ranges, Domains, RowFields, TokenFields, PollerFields
<1>28. CASE RunCancelled
  BY <1>28, FlowsNonzero DEF RunCancelled, Finish, NoResume, NoRun, bounds, locks, memory, stored,
    trakt, Storing, Codes, Locks, Ranges, Domains, RowFields, TokenFields, PollerFields
<1>29. CASE RunWrote
  BY <1>29, FlowsNonzero DEF RunWrote, Current, Finish, NoResume, NoRun, bounds, locks, memory,
    trakt, Storing, Codes, Locks, Ranges, Domains, RowFields, TokenFields, PollerFields
<1>30. CASE RunDone
  BY <1>30, FlowsNonzero DEF RunDone, Current, Finish, NoResume, NoRun, bounds, locks, memory,
    trakt, Storing, Codes, Locks, Ranges, Domains, RowFields, TokenFields, PollerFields
<1>31. CASE Crash
  BY <1>31, FlowsNonzero DEF Crash, NoPoller, NoResume, NoRow, NoRun, NoSync, NoTokens, stored,
    Storing, Codes, Locks, Ranges, Domains, RowFields, TokenFields, PollerFields
<1>32. CASE Withdraw
  BY <1>32, FlowsNonzero DEF Withdraw, CanFail, Fails, locks, memory, stored, syncing, Storing,
    Codes, Locks, Ranges, Domains, RowFields, TokenFields, PollerFields
<1>33. CASE UNCHANGED vars
  BY <1>33 DEF vars, Storing, Codes, Locks, Ranges, Domains, RowFields, TokenFields, PollerFields
<1> QED
  BY <1>1, <1>2, <1>3, <1>4, <1>5, <1>6, <1>7, <1>8, <1>9, <1>10, <1>11, <1>12, <1>13, <1>14,
    <1>15, <1>16, <1>17, <1>18, <1>19, <1>20, <1>21, <1>22, <1>23, <1>24, <1>25, <1>26, <1>27,
    <1>28, <1>29, <1>30, <1>31, <1>32, <1>33 DEF Next

\* What a step does to the generation in memory and in the database.
GensMove ==
  \/ \E f \in Flows : FinishStored(f)
  \/ \E f \in Flows : FinishConnected(f)
  \/ Crash
  \/ /\ gen' \in {gen, 0}
     /\ row' = NoRow \/ (row'.gen = row.gen /\ row'.account = row.account)

LEMMA GensMoveStep ==
    ASSUME Domains, [Next]_vars
    PROVE  GensMove
<1>1. CASE Connect
  BY <1>1 DEF Connect, NoPoller, bounds, locks, stored, syncing, trakt, GensMove, Domains,
    RowFields
<1>2. ASSUME NEW f \in Flows, PollApproved(f) PROVE GensMove
  BY <1>2 DEF PollApproved, CanFail, Fails, Works, locks, memory, stored, syncing, GensMove,
    Domains, RowFields
<1>3. ASSUME NEW f \in Flows, PollEnded(f) PROVE GensMove
  BY <1>3 DEF PollEnded, EndFlow, NoPoller, bounds, locks, stored, syncing, trakt, GensMove,
    Domains, RowFields
<1>4. ASSUME NEW f \in Flows, FinishUnread(f) PROVE GensMove
  BY <1>4 DEF FinishUnread, CanFail, EndFlow, Fails, NoPoller, Revoke, Works, locks, stored,
    syncing, GensMove, Domains, RowFields
<1>5. ASSUME NEW f \in Flows, FinishCancelled(f) PROVE GensMove
  BY <1>5 DEF FinishCancelled, CanFail, Fails, NoPoller, Revoke, Works, locks, memory, stored,
    syncing, GensMove, Domains, RowFields
<1>6. ASSUME NEW f \in Flows, FinishStored(f) PROVE GensMove
  BY <1>6 DEF GensMove
<1>7. ASSUME NEW f \in Flows, FinishRefused(f) PROVE GensMove
  BY <1>7 DEF FinishRefused, CanFail, EndFlow, Fails, NoPoller, Works, locks, stored, syncing,
    GensMove, Domains, RowFields
<1>8. ASSUME NEW f \in Flows, FinishConnected(f) PROVE GensMove
  BY <1>8 DEF GensMove
<1>9. CASE Disconnect
  BY <1>9 DEF Disconnect, DropFlow, bounds, stored, syncing, trakt, GensMove, Domains, RowFields
<1>10. CASE DisconnectStopSync
  BY <1>10 DEF DisconnectStopSync, NoResume, bounds, locks, memory, stored, trakt, GensMove,
    Domains, RowFields
<1>11. CASE DisconnectPurged
  BY <1>11 DEF DisconnectPurged, CanFail, Fails, NoRow, Purged, Works, memory, stored, syncing,
    trakt, GensMove, Domains, RowFields
<1>12. CASE DisconnectReset
  BY <1>12 DEF DisconnectReset, CanFail, Fails, NoTokens, Revoke, Works, syncing, GensMove,
    Domains, RowFields
<1>13. CASE TriggerInitial
  BY <1>13 DEF TriggerInitial, NoResume, NoRun, Trigger, bounds, locks, memory, stored, trakt,
    GensMove, Domains, RowFields
<1>14. CASE TriggerCheck
  BY <1>14 DEF TriggerCheck, NoResume, NoRun, Trigger, bounds, locks, memory, stored, trakt,
    GensMove, Domains, RowFields
<1>15. CASE StartRead
  BY <1>15 DEF StartRead, CanFail, Fails, NoRun, Works, locks, memory, stored, trakt, GensMove,
    Domains, RowFields
<1>16. CASE StartPlanned
  BY <1>16 DEF StartPlanned, NoResume, NoRun, Plans, bounds, locks, memory, stored, trakt,
    GensMove, Domains, RowFields
<1>17. CASE RunAgain
  BY <1>17 DEF RunAgain, NoRun, bounds, locks, memory, stored, trakt, GensMove, Domains, RowFields
<1>18. CASE Token
  <2>1. row'.gen = row.gen /\ row'.account = row.account
    BY <1>18 DEF Token, Domains, RowFields
  <2>2. gen' = gen
    BY <1>18 DEF Token, memory
  <2> QED BY <2>1, <2>2 DEF GensMove
<1>19. CASE RefreshAnswered
  BY <1>19 DEF RefreshAnswered, Rotated, bounds, locks, memory, stored, GensMove, Domains,
    RowFields
<1>20. CASE RefreshFailed
  BY <1>20 DEF RefreshFailed, AfterToken, CanFail, Fails, Finish, Handed, NoResume, NoRun,
    Rotated, memory, stored, trakt, GensMove, Domains, RowFields
<1>21. CASE RefreshRefused
  BY <1>21 DEF RefreshRefused, Finish, NoResume, NoRun, bounds, stored, trakt, GensMove, Domains,
    RowFields
<1>22. CASE ReauthStored
  <2>1. row'.gen = row.gen /\ row'.account = row.account
    BY <1>22 DEF ReauthStored, Domains, RowFields
  <2>2. gen' = gen
    BY <1>22 DEF ReauthStored, memory
  <2> QED BY <2>1, <2>2 DEF GensMove
<1>23. CASE RefreshSaved
  <2>1. row'.gen = row.gen /\ row'.account = row.account
    BY <1>23 DEF RefreshSaved, Domains, RowFields
  <2>2. gen' = gen
    BY <1>23 DEF RefreshSaved, memory
  <2> QED BY <2>1, <2>2 DEF GensMove
<1>24. CASE Invalidate
  BY <1>24 DEF Invalidate, Finish, NoResume, NoRun, Retried, bounds, stored, trakt, GensMove,
    Domains, RowFields
<1>25. CASE RunAnswered
  BY <1>25 DEF RunAnswered, bounds, locks, memory, stored, trakt, GensMove, Domains, RowFields
<1>26. CASE RunUnauthorized
  BY <1>26 DEF RunUnauthorized, CanFail, Fails, locks, memory, stored, GensMove, Domains,
    RowFields
<1>27. CASE RunFailed
  BY <1>27 DEF RunFailed, CanFail, Fails, Finish, NoResume, NoRun, locks, memory, stored, trakt,
    GensMove, Domains, RowFields
<1>28. CASE RunCancelled
  BY <1>28 DEF RunCancelled, Finish, NoResume, NoRun, bounds, locks, memory, stored, trakt,
    GensMove, Domains, RowFields
<1>29. CASE RunWrote
  BY <1>29 DEF RunWrote, Current, Finish, NoResume, NoRun, bounds, locks, memory, trakt, GensMove,
    Domains, RowFields
<1>30. CASE RunDone
  BY <1>30 DEF RunDone, Current, Finish, NoResume, NoRun, bounds, locks, memory, trakt, GensMove,
    Domains, RowFields
<1>31. CASE Crash
  BY <1>31 DEF GensMove
<1>32. CASE Withdraw
  BY <1>32 DEF Withdraw, CanFail, Fails, locks, memory, stored, syncing, GensMove, Domains,
    RowFields
<1>33. CASE UNCHANGED vars
  BY <1>33 DEF vars, GensMove, Domains, RowFields
<1> QED
  BY <1>1, <1>2, <1>3, <1>4, <1>5, <1>6, <1>7, <1>8, <1>9, <1>10, <1>11, <1>12, <1>13, <1>14,
    <1>15, <1>16, <1>17, <1>18, <1>19, <1>20, <1>21, <1>22, <1>23, <1>24, <1>25, <1>26, <1>27,
    <1>28, <1>29, <1>30, <1>31, <1>32, <1>33 DEF Next

LEMMA RunGensMove ==
    ASSUME Domains, RefreshesOwn, [Next]_vars
    PROVE  run'.gen \in {0, run.gen, gen} /\ run'.tokenGen \in {0, run.tokenGen, gen}
<1>1. RunMoves
  BY RunMovesStep
<1>2. CASE MovesOn
  <2>1. run'.gen \in {run.gen, gen}
    BY <1>2 DEF MovesOn, Stays, Next1, Refreshes, RefreshesRejected, Starts, Asks, Answered,
      HandedStarts,
        HandedAsks, Retries, Gets, Writes, SameToken, SameRest, Forgets, TakesToken
  <2>2. run'.tokenGen \in {0, run.tokenGen, gen}
    BY <1>2 DEF MovesOn, Stays, Next1, Refreshes, RefreshesRejected, Starts, Asks, Answered,
      HandedStarts,
        HandedAsks, Retries, Gets, Writes, SameToken, SameRest, Forgets, TakesToken
  <2> QED BY <2>1, <2>2
<1> QED BY <1>1, <1>2 DEF RunMoves, Goes

LEMMA FreshStep ==
    ASSUME Domains, Ranges, Locks, Codes, Storing, StateOut, RunOut, PollersOut, RefreshesOwn,
           Fresh, [Next]_vars
    PROVE  Fresh'
<1>1. \A f \in Flows : Moves(f)
  BY MovesStep DEF Ranges
<1>2. run'.gen \in {0, run.gen, gen} /\ run'.tokenGen \in {0, run.tokenGen, gen}
  BY RunGensMove
<1>3. CASE Crash
  BY <1>3 DEF Crash, NoPoller, Fresh
<1>4. ASSUME NEW f \in Flows, FinishStored(f) PROVE Fresh'
  <2>1. /\ poller'[f].pc = "stored" /\ poller[f].pc = "approved" /\ poller'[f].pair = poller[f].pair
        /\ \A g \in Flows \ {f} : poller'[g] = poller[g]
    BY <1>4 DEF FinishStored, Domains, PollerFields
  <2>2. gen' = gen /\ run' = run /\ row'.gen = poller[f].pair /\ life = ""
    BY <1>4 DEF FinishStored, memory, syncing
  <2>3. poller[f].pair # 0 /\ poller[f].pair \notin {row.gen, gen, run.gen, run.tokenGen}
    BY <2>1 DEF Fresh
  <2>4. \A g \in Flows \ {f} : poller[g].pc \in {"approved", "stored"} => poller[g].pair # poller[f].pair
    BY <2>1 DEF Fresh
  <2>5. \A g \in Flows : poller'[g].pair = poller[g].pair
    BY <2>1
  <2>6. \A g \in Flows : poller'[g].pc = "stored" /\ g # f => poller[g].pc = "stored"
    BY <2>1
  <2>7. \A g \in Flows : poller'[g].pc = "approved" => poller[g].pc = "approved" /\ g # f
    BY <2>1
  <2>8. \A g \in Flows : poller'[g].pc \in {"approved", "stored"} => poller[g].pc \in {"approved", "stored"}
    BY <2>1
  <2>9. \A g \in Flows : poller'[g].pc = "approved" =>
          poller'[g].pair \notin {row'.gen, gen', run'.gen, run'.tokenGen}
    BY <2>2, <2>4, <2>5, <2>7 DEF Fresh
  <2>10. \A g \in Flows : poller'[g].pc = "stored" => poller'[g].pair \notin {gen', run'.gen, run'.tokenGen}
    BY <2>2, <2>3, <2>5, <2>6 DEF Fresh
  <2> QED BY <2>5, <2>8, <2>9, <2>10 DEF Fresh
<1>5. ASSUME NEW f \in Flows, FinishConnected(f) PROVE Fresh'
  <2>1. /\ poller'[f].pc = "none" /\ poller[f].pc = "stored" /\ poller[f].pair = row.gen
        /\ \A g \in Flows \ {f} : poller'[g] = poller[g]
    BY <1>5 DEF FinishConnected, NoPoller, Domains, Storing
  <2>2. gen' = row.gen /\ run' = run /\ row' = row
    BY <1>5 DEF FinishConnected, stored
  <2> QED BY <2>1, <2>2 DEF Fresh
<1>6. CASE gen' \in {gen, 0} /\ row'.gen \in {row.gen, 0} /\ ~\E f \in Flows : FinishStored(f)
  <2>1. \A f \in Flows :
          \/ poller'[f].pc = poller[f].pc /\ poller'[f].pair = poller[f].pair
          \/ poller'[f].pc \in {"none", "polling"}
          \/ /\ poller'[f].pc = "approved" /\ poller'[f].pair = NextPair /\ Unused # {}
             /\ \A g \in Flows \ {f} : poller'[g] = poller[g]
    BY <1>1, <1>6 DEF Moves, Same
  <2>2. CASE \A f \in Flows : \/ poller'[f].pc = poller[f].pc /\ poller'[f].pair = poller[f].pair
                             \/ poller'[f].pc \in {"none", "polling"}
    BY <1>2, <1>6, <2>2 DEF Fresh
  <2>3. ASSUME NEW f \in Flows, poller'[f].pc = "approved", poller'[f].pair = NextPair, Unused # {},
               \A g \in Flows \ {f} : poller'[g] = poller[g]
        PROVE  Fresh'
    <3>1. NextPair # 0 /\ NextPair \notin {row.gen, gen, run.gen, run.tokenGen}
      BY <2>3, NewPair DEF StateOut, RunOut, Out
    <3>2. \A g \in Flows : poller[g].pair # NextPair
      BY <2>3, NewPair DEF PollersOut, Out
    <3> QED BY <1>2, <1>6, <2>3, <3>1, <3>2 DEF Fresh
  <2> QED BY <2>1, <2>2, <2>3
<1>7. GensMove
  BY GensMoveStep
<1> QED BY <1>3, <1>4, <1>5, <1>6, <1>7 DEF GensMove, NoRow

LEMMA ConnectedSinceStep ==
    ASSUME Domains, Ranges, PollersRange, Codes, Storing, Fresh, AccountedState, ConnectedSince,
           [Next]_vars
    PROVE  ConnectedSince'
<1>1. CASE Connect
  <2>1. state' # "connected"
    BY <1>1, FlowsNonzero DEF Connect, Codes, Ranges, PollersRange
  <2> QED BY <2>1 DEF ConnectedSince
<1>2. ASSUME NEW f \in Flows, PollApproved(f) PROVE ConnectedSince'
  BY <1>2, FlowsNonzero DEF PollApproved, CanFail, Fails, Works, locks, memory, stored, syncing,
    ConnectedSince, Storing, Fresh, AccountedState, PollersRange, Domains, RowFields, TokenFields,
    PollerFields
<1>3. ASSUME NEW f \in Flows, PollEnded(f) PROVE ConnectedSince'
  BY <1>3, FlowsNonzero DEF PollEnded, EndFlow, NoPoller, bounds, locks, stored, syncing, trakt,
    ConnectedSince, Storing, Fresh, AccountedState, PollersRange, Domains, RowFields, TokenFields,
    PollerFields
<1>4. ASSUME NEW f \in Flows, FinishUnread(f) PROVE ConnectedSince'
  BY <1>4, FlowsNonzero DEF FinishUnread, CanFail, EndFlow, Fails, NoPoller, Revoke, Works, locks,
    stored, syncing, ConnectedSince, Storing, Fresh, AccountedState, PollersRange, Domains,
    RowFields, TokenFields, PollerFields
<1>5. ASSUME NEW f \in Flows, FinishCancelled(f) PROVE ConnectedSince'
  BY <1>5, FlowsNonzero DEF FinishCancelled, CanFail, Fails, NoPoller, Revoke, Works, locks,
    memory, stored, syncing, ConnectedSince, Storing, Fresh, AccountedState, PollersRange,
    Domains, RowFields, TokenFields, PollerFields
<1>6. ASSUME NEW f \in Flows, FinishStored(f) PROVE ConnectedSince'
  BY <1>6, FlowsNonzero DEF FinishStored, Purged, bounds, memory, stored, syncing, ConnectedSince,
    Storing, Fresh, AccountedState, PollersRange, Domains, RowFields, TokenFields, PollerFields
<1>7. ASSUME NEW f \in Flows, FinishRefused(f) PROVE ConnectedSince'
  BY <1>7, FlowsNonzero DEF FinishRefused, CanFail, EndFlow, Fails, NoPoller, Works, locks,
    stored, syncing, ConnectedSince, Storing, Fresh, AccountedState, PollersRange, Domains,
    RowFields, TokenFields, PollerFields
<1>8. ASSUME NEW f \in Flows, FinishConnected(f) PROVE ConnectedSince'
  BY <1>8, FlowsNonzero DEF FinishConnected, NoPoller, NoTokens, bounds, stored, trakt,
    ConnectedSince, Storing, Fresh, AccountedState, PollersRange, Domains, RowFields, TokenFields,
    PollerFields
<1>9. CASE Disconnect
  <2>1. gen' = gen
    BY <1>9 DEF Disconnect
  <2>2. state' = state \/ state' # "connected"
    BY <1>9 DEF Disconnect, DropFlow, Ranges, PollersRange
  <2> QED BY <2>1, <2>2 DEF ConnectedSince
<1>10. CASE DisconnectStopSync
  BY <1>10, FlowsNonzero DEF DisconnectStopSync, NoResume, bounds, locks, memory, stored, trakt,
    ConnectedSince, Storing, Fresh, AccountedState, PollersRange, Domains, RowFields, TokenFields,
    PollerFields
<1>11. CASE DisconnectPurged
  BY <1>11, FlowsNonzero DEF DisconnectPurged, CanFail, Fails, NoRow, Purged, Works, memory,
    stored, syncing, trakt, ConnectedSince, Storing, Fresh, AccountedState, PollersRange, Domains,
    RowFields, TokenFields, PollerFields
<1>12. CASE DisconnectReset
  BY <1>12, FlowsNonzero DEF DisconnectReset, CanFail, Fails, NoTokens, Revoke, Works, syncing,
    ConnectedSince, Storing, Fresh, AccountedState, PollersRange, Domains, RowFields, TokenFields,
    PollerFields
<1>13. CASE TriggerInitial
  BY <1>13, FlowsNonzero DEF TriggerInitial, NoResume, NoRun, Trigger, bounds, locks, memory,
    stored, trakt, ConnectedSince, Storing, Fresh, AccountedState, PollersRange, Domains,
    RowFields, TokenFields, PollerFields
<1>14. CASE TriggerCheck
  BY <1>14, FlowsNonzero DEF TriggerCheck, NoResume, NoRun, Trigger, bounds, locks, memory,
    stored, trakt, ConnectedSince, Storing, Fresh, AccountedState, PollersRange, Domains,
    RowFields, TokenFields, PollerFields
<1>15. CASE StartRead
  BY <1>15, FlowsNonzero DEF StartRead, CanFail, Fails, NoRun, Works, locks, memory, stored,
    trakt, ConnectedSince, Storing, Fresh, AccountedState, PollersRange, Domains, RowFields,
    TokenFields, PollerFields
<1>16. CASE StartPlanned
  BY <1>16, FlowsNonzero DEF StartPlanned, NoResume, NoRun, Plans, bounds, locks, memory, stored,
    trakt, ConnectedSince, Storing, Fresh, AccountedState, PollersRange, Domains, RowFields,
    TokenFields, PollerFields
<1>17. CASE RunAgain
  BY <1>17, FlowsNonzero DEF RunAgain, NoRun, bounds, locks, memory, stored, trakt,
    ConnectedSince, Storing, Fresh, AccountedState, PollersRange, Domains, RowFields, TokenFields,
    PollerFields
<1>18. CASE Token
  BY <1>18, FlowsNonzero DEF Token, AfterToken, CanFail, Current, Fails, Finish, NoResume, NoRun,
    Works, trakt, ConnectedSince, Storing, Fresh, AccountedState, PollersRange, Domains,
    RowFields, TokenFields, PollerFields
<1>19. CASE RefreshAnswered
  BY <1>19, FlowsNonzero DEF RefreshAnswered, Rotated, bounds, locks, memory, stored,
    ConnectedSince, Storing, Fresh, AccountedState, PollersRange, Domains, RowFields, TokenFields,
    PollerFields
<1>20. CASE RefreshFailed
  BY <1>20, FlowsNonzero DEF RefreshFailed, AfterToken, CanFail, Fails, Finish, Handed, NoResume,
    NoRun, Rotated, memory, stored, trakt, ConnectedSince, Storing, Fresh, AccountedState,
    PollersRange, Domains, RowFields, TokenFields, PollerFields
<1>21. CASE RefreshRefused
  BY <1>21, FlowsNonzero DEF RefreshRefused, Finish, NoResume, NoRun, bounds, stored, trakt,
    ConnectedSince, Storing, Fresh, AccountedState, PollersRange, Domains, RowFields, TokenFields,
    PollerFields
<1>22. CASE ReauthStored
  BY <1>22, FlowsNonzero DEF ReauthStored, CanFail, Current, Fails, Finish, NoResume, NoRun,
    Works, memory, trakt, ConnectedSince, Storing, Fresh, AccountedState, PollersRange, Domains,
    RowFields, TokenFields, PollerFields
<1>23. CASE RefreshSaved
  BY <1>23, FlowsNonzero DEF RefreshSaved, AfterToken, CanFail, Current, Fails, Finish, Handed,
    NextTokens, NoResume, NoRun, Refreshed, Retried, Works, trakt, ConnectedSince, Storing, Fresh,
    AccountedState, PollersRange, Domains, RowFields, TokenFields, PollerFields
<1>24. CASE Invalidate
  BY <1>24, FlowsNonzero DEF Invalidate, Finish, NoResume, NoRun, Retried, bounds, stored, trakt,
    ConnectedSince, Storing, Fresh, AccountedState, PollersRange, Domains, RowFields, TokenFields,
    PollerFields
<1>25. CASE RunAnswered
  BY <1>25, FlowsNonzero DEF RunAnswered, bounds, locks, memory, stored, trakt, ConnectedSince,
    Storing, Fresh, AccountedState, PollersRange, Domains, RowFields, TokenFields, PollerFields
<1>26. CASE RunUnauthorized
  BY <1>26, FlowsNonzero DEF RunUnauthorized, CanFail, Fails, locks, memory, stored,
    ConnectedSince, Storing, Fresh, AccountedState, PollersRange, Domains, RowFields, TokenFields,
    PollerFields
<1>27. CASE RunFailed
  BY <1>27, FlowsNonzero DEF RunFailed, CanFail, Fails, Finish, NoResume, NoRun, locks, memory,
    stored, trakt, ConnectedSince, Storing, Fresh, AccountedState, PollersRange, Domains,
    RowFields, TokenFields, PollerFields
<1>28. CASE RunCancelled
  BY <1>28, FlowsNonzero DEF RunCancelled, Finish, NoResume, NoRun, bounds, locks, memory, stored,
    trakt, ConnectedSince, Storing, Fresh, AccountedState, PollersRange, Domains, RowFields,
    TokenFields, PollerFields
<1>29. CASE RunWrote
  BY <1>29, FlowsNonzero DEF RunWrote, Current, Finish, NoResume, NoRun, bounds, locks, memory,
    trakt, ConnectedSince, Storing, Fresh, AccountedState, PollersRange, Domains, RowFields,
    TokenFields, PollerFields
<1>30. CASE RunDone
  BY <1>30, FlowsNonzero DEF RunDone, Current, Finish, NoResume, NoRun, bounds, locks, memory,
    trakt, ConnectedSince, Storing, Fresh, AccountedState, PollersRange, Domains, RowFields,
    TokenFields, PollerFields
<1>31. CASE Crash
  BY <1>31, FlowsNonzero DEF Crash, NoPoller, NoResume, NoRow, NoRun, NoSync, NoTokens, stored,
    ConnectedSince, Storing, Fresh, AccountedState, PollersRange, Domains, RowFields, TokenFields,
    PollerFields
<1>32. CASE Withdraw
  BY <1>32, FlowsNonzero DEF Withdraw, CanFail, Fails, locks, memory, stored, syncing,
    ConnectedSince, Storing, Fresh, AccountedState, PollersRange, Domains, RowFields, TokenFields,
    PollerFields
<1>33. CASE UNCHANGED vars
  BY <1>33 DEF vars, ConnectedSince, Storing, Fresh, AccountedState, PollersRange, Domains,
    RowFields, TokenFields, PollerFields
<1> QED
  BY <1>1, <1>2, <1>3, <1>4, <1>5, <1>6, <1>7, <1>8, <1>9, <1>10, <1>11, <1>12, <1>13, <1>14,
    <1>15, <1>16, <1>17, <1>18, <1>19, <1>20, <1>21, <1>22, <1>23, <1>24, <1>25, <1>26, <1>27,
    <1>28, <1>29, <1>30, <1>31, <1>32, <1>33 DEF Next

LEMMA OwnKept ==
    ASSUME RefreshesOwn, RunMoves, gen' = gen, state' = state
    PROVE  RefreshesOwn'
<1>1. CASE run' = run
  BY <1>1 DEF RefreshesOwn
<1>2. CASE Goes
  BY <1>2 DEF Goes, RefreshesOwn
<1>3. CASE MovesOn
  BY <1>3 DEF RefreshesOwn, MovesOn, Stays, Next1, Refreshes, RefreshesRejected, Starts, Asks,
    Answered,
    HandedStarts, HandedAsks, Retries, Gets, Writes, SameToken, TakesToken, To, Connected
<1> QED BY <1>1, <1>2, <1>3 DEF RunMoves

LEMMA RefreshesOwnStep ==
    ASSUME Domains, Ranges, PollersRange, Locks, RefreshLock, Codes, Storing, RefreshesOwn,
           [Next]_vars
    PROVE  RefreshesOwn'
<1>1. CASE Connect
  BY <1>1, FlowsNonzero DEF Connect, NoPoller, bounds, locks, stored, syncing, trakt,
    RefreshesOwn, Codes, Storing, Locks, RefreshLock, Refreshing, PollersRange, Domains,
    RowFields, TokenFields, PollerFields, RunFields
<1>2. ASSUME NEW f \in Flows, PollApproved(f) PROVE RefreshesOwn'
  BY <1>2, FlowsNonzero DEF PollApproved, CanFail, Fails, Works, locks, memory, stored, syncing,
    RefreshesOwn, Codes, Storing, Locks, RefreshLock, Refreshing, PollersRange, Domains,
    RowFields, TokenFields, PollerFields, RunFields
<1>3. ASSUME NEW f \in Flows, PollEnded(f) PROVE RefreshesOwn'
  BY <1>3, FlowsNonzero DEF PollEnded, EndFlow, NoPoller, bounds, locks, stored, syncing, trakt,
    RefreshesOwn, Codes, Storing, Locks, RefreshLock, Refreshing, PollersRange, Domains,
    RowFields, TokenFields, PollerFields, RunFields
<1>4. ASSUME NEW f \in Flows, FinishUnread(f) PROVE RefreshesOwn'
  <2>1. run' = run /\ gen' = gen
    BY <1>4 DEF FinishUnread, syncing
  <2>2. state' = state \/ state = "pending"
    BY <1>4, FlowsNonzero DEF FinishUnread, EndFlow, Codes
  <2> QED BY <2>1, <2>2 DEF RefreshesOwn
<1>5. ASSUME NEW f \in Flows, FinishCancelled(f) PROVE RefreshesOwn'
  BY <1>5, FlowsNonzero DEF FinishCancelled, CanFail, Fails, NoPoller, Revoke, Works, locks,
    memory, stored, syncing, RefreshesOwn, Codes, Storing, Locks, RefreshLock, Refreshing,
    PollersRange, Domains, RowFields, TokenFields, PollerFields, RunFields
<1>6. ASSUME NEW f \in Flows, FinishStored(f) PROVE RefreshesOwn'
  BY <1>6, FlowsNonzero DEF FinishStored, Purged, bounds, memory, stored, syncing, RefreshesOwn,
    Codes, Storing, Locks, RefreshLock, Refreshing, PollersRange, Domains, RowFields, TokenFields,
    PollerFields, RunFields
<1>7. ASSUME NEW f \in Flows, FinishRefused(f) PROVE RefreshesOwn'
  <2>1. run' = run /\ gen' = gen
    BY <1>7 DEF FinishRefused, syncing
  <2>2. state' = state \/ state = "pending"
    BY <1>7, FlowsNonzero DEF FinishRefused, EndFlow, Codes
  <2> QED BY <2>1, <2>2 DEF RefreshesOwn
<1>8. ASSUME NEW f \in Flows, FinishConnected(f) PROVE RefreshesOwn'
  <2>1. state = "pending"
    BY <1>8, FlowsNonzero DEF FinishConnected, Storing, Codes
  <2>2. run' = run
    BY <1>8 DEF FinishConnected
  <2> QED BY <2>1, <2>2 DEF RefreshesOwn
<1>9. CASE Disconnect
  BY <1>9, FlowsNonzero DEF Disconnect, DropFlow, bounds, stored, syncing, trakt, RefreshesOwn,
    Codes, Storing, Locks, RefreshLock, Refreshing, PollersRange, Domains, RowFields, TokenFields,
    PollerFields, RunFields
<1>10. CASE DisconnectStopSync
  BY <1>10, FlowsNonzero DEF DisconnectStopSync, NoResume, bounds, locks, memory, stored, trakt,
    RefreshesOwn, Codes, Storing, Locks, RefreshLock, Refreshing, PollersRange, Domains,
    RowFields, TokenFields, PollerFields, RunFields
<1>11. CASE DisconnectPurged
  BY <1>11, FlowsNonzero DEF DisconnectPurged, CanFail, Fails, NoRow, Purged, Works, memory,
    stored, syncing, trakt, RefreshesOwn, Codes, Storing, Locks, RefreshLock, Refreshing,
    PollersRange, Domains, RowFields, TokenFields, PollerFields, RunFields
<1>12. CASE DisconnectReset
  BY <1>12, FlowsNonzero DEF DisconnectReset, CanFail, Fails, NoTokens, Revoke, Works, syncing,
    RefreshesOwn, Codes, Storing, Locks, RefreshLock, Refreshing, PollersRange, Domains,
    RowFields, TokenFields, PollerFields, RunFields
<1>13. CASE TriggerInitial
  BY <1>13, FlowsNonzero DEF TriggerInitial, NoResume, NoRun, Trigger, bounds, locks, memory,
    stored, trakt, RefreshesOwn, Codes, Storing, Locks, RefreshLock, Refreshing, PollersRange,
    Domains, RowFields, TokenFields, PollerFields, RunFields
<1>14. CASE TriggerCheck
  BY <1>14, FlowsNonzero DEF TriggerCheck, NoResume, NoRun, Trigger, bounds, locks, memory,
    stored, trakt, RefreshesOwn, Codes, Storing, Locks, RefreshLock, Refreshing, PollersRange,
    Domains, RowFields, TokenFields, PollerFields, RunFields
<1>15. CASE StartRead
  <2>1. gen' = gen /\ state' = state
    BY <1>15 DEF StartRead, memory
  <2> QED BY <2>1, OwnKept, RunMovesStep
<1>16. CASE StartPlanned
  BY <1>16, FlowsNonzero DEF StartPlanned, NoResume, NoRun, Plans, bounds, locks, memory, stored,
    trakt, RefreshesOwn, Codes, Storing, Locks, RefreshLock, Refreshing, PollersRange, Domains,
    RowFields, TokenFields, PollerFields, RunFields
<1>17. CASE RunAgain
  BY <1>17, FlowsNonzero DEF RunAgain, NoRun, bounds, locks, memory, stored, trakt, RefreshesOwn,
    Codes, Storing, Locks, RefreshLock, Refreshing, PollersRange, Domains, RowFields, TokenFields,
    PollerFields, RunFields
<1>18. CASE Token
  <2>1. gen' = gen /\ state' = state
    BY <1>18 DEF Token, memory
  <2> QED BY <2>1, OwnKept, RunMovesStep
<1>19. CASE RefreshAnswered
  BY <1>19, FlowsNonzero DEF RefreshAnswered, Rotated, bounds, locks, memory, stored,
    RefreshesOwn, Codes, Storing, Locks, RefreshLock, Refreshing, PollersRange, Domains,
    RowFields, TokenFields, PollerFields, RunFields
<1>20. CASE RefreshFailed
  <2>1. gen' = gen /\ state' = state
    BY <1>20 DEF RefreshFailed, memory
  <2> QED BY <2>1, OwnKept, RunMovesStep
<1>21. CASE RefreshRefused
  <2>1. CASE Finish("gone")
    BY <2>1, FinishGoes DEF Goes, RefreshesOwn
  <2>2. CASE run' = [run EXCEPT !.pc = "reauth"]
    <3>1. run'.pc = "reauth"
      BY <2>2 DEF Domains, RunFields
    <3> QED BY <3>1 DEF RefreshesOwn
  <2> QED BY <1>21, <2>1, <2>2 DEF RefreshRefused
<1>22. CASE ReauthStored
  BY <1>22, FlowsNonzero DEF ReauthStored, CanFail, Current, Fails, Finish, NoResume, NoRun,
    Works, memory, trakt, RefreshesOwn, Codes, Storing, Locks, RefreshLock, Refreshing,
    PollersRange, Domains, RowFields, TokenFields, PollerFields, RunFields
<1>23. CASE RefreshSaved
  <2>1. gen' = gen /\ state' = state
    BY <1>23 DEF RefreshSaved, memory
  <2> QED BY <2>1, OwnKept, RunMovesStep
<1>24. CASE Invalidate
  <2>1. gen' = gen
    BY <1>24 DEF Invalidate
  <2>2. CASE state' = state
    BY <2>1, <2>2, OwnKept, RunMovesStep
  <2>3. CASE run' = [run EXCEPT !.pc = "reauth"]
    <3>1. run'.pc = "reauth"
      BY <2>3 DEF Domains, RunFields
    <3> QED BY <3>1 DEF RefreshesOwn
  <2> QED BY <1>24, <2>2, <2>3 DEF Invalidate
<1>25. CASE RunAnswered
  <2>1. gen' = gen /\ state' = state
    BY <1>25 DEF RunAnswered, memory
  <2> QED BY <2>1, OwnKept, RunMovesStep
<1>26. CASE RunUnauthorized
  BY <1>26, FlowsNonzero DEF RunUnauthorized, CanFail, Fails, locks, memory, stored, RefreshesOwn,
    Codes, Storing, Locks, RefreshLock, Refreshing, PollersRange, Domains, RowFields, TokenFields,
    PollerFields, RunFields
<1>27. CASE RunFailed
  BY <1>27, FlowsNonzero DEF RunFailed, CanFail, Fails, Finish, NoResume, NoRun, locks, memory,
    stored, trakt, RefreshesOwn, Codes, Storing, Locks, RefreshLock, Refreshing, PollersRange,
    Domains, RowFields, TokenFields, PollerFields, RunFields
<1>28. CASE RunCancelled
  BY <1>28, FlowsNonzero DEF RunCancelled, Finish, NoResume, NoRun, bounds, locks, memory, stored,
    trakt, RefreshesOwn, Codes, Storing, Locks, RefreshLock, Refreshing, PollersRange, Domains,
    RowFields, TokenFields, PollerFields, RunFields
<1>29. CASE RunWrote
  <2>1. gen' = gen /\ state' = state
    BY <1>29 DEF RunWrote, memory
  <2> QED BY <2>1, OwnKept, RunMovesStep
<1>30. CASE RunDone
  BY <1>30, FlowsNonzero DEF RunDone, Current, Finish, NoResume, NoRun, bounds, locks, memory,
    trakt, RefreshesOwn, Codes, Storing, Locks, RefreshLock, Refreshing, PollersRange, Domains,
    RowFields, TokenFields, PollerFields, RunFields
<1>31. CASE Crash
  BY <1>31, FlowsNonzero DEF Crash, NoPoller, NoResume, NoRow, NoRun, NoSync, NoTokens, stored,
    RefreshesOwn, Codes, Storing, Locks, RefreshLock, Refreshing, PollersRange, Domains,
    RowFields, TokenFields, PollerFields, RunFields
<1>32. CASE Withdraw
  BY <1>32, FlowsNonzero DEF Withdraw, CanFail, Fails, locks, memory, stored, syncing,
    RefreshesOwn, Codes, Storing, Locks, RefreshLock, Refreshing, PollersRange, Domains,
    RowFields, TokenFields, PollerFields, RunFields
<1>33. CASE UNCHANGED vars
  BY <1>33 DEF vars, RefreshesOwn, Codes, Storing, Locks, RefreshLock, Refreshing, PollersRange,
    Domains, RowFields, TokenFields, PollerFields, RunFields
<1> QED
  BY <1>1, <1>2, <1>3, <1>4, <1>5, <1>6, <1>7, <1>8, <1>9, <1>10, <1>11, <1>12, <1>13, <1>14,
    <1>15, <1>16, <1>17, <1>18, <1>19, <1>20, <1>21, <1>22, <1>23, <1>24, <1>25, <1>26, <1>27,
    <1>28, <1>29, <1>30, <1>31, <1>32, <1>33 DEF Next

LEMMA GenerationsStep ==
    ASSUME Domains, Ranges, Locks, RefreshLock, Codes, Storing, Fresh, RefreshesOwn,
           ConnectedSince, Mirrored,
           Generations, [Next]_vars
    PROVE  Generations'
<1>1. RunMoves /\ GensMove
  BY RunMovesStep, GensMoveStep
<1>2. /\ run'.pc \in {"fetch", "asking", "write", "done", "invalid"} => run'.gen # 0
      /\ run'.pc \in {"refresh", "saving"} /\ run'.back # "token" => run'.gen # 0
      /\ run'.pc = "token" => run'.tokenGen = 0
  <2>0. /\ run.pc \in {"fetch", "asking", "write", "done", "invalid"} => run.gen # 0
        /\ run.pc \in {"refresh", "saving"} /\ run.back # "token" => run.gen # 0
        /\ run.pc = "token" => run.tokenGen = 0
    BY DEF Generations
  <2>1. CASE run' = run
    BY <2>0, <2>1
  <2>2. CASE Goes
    BY <2>2 DEF Goes
  <2>3. CASE MovesOn
    BY <2>0, <2>3 DEF RefreshesOwn, ConnectedSince, Connected, To, MovesOn, Stays, Next1,
      Refreshes, RefreshesRejected, Starts, Asks, Answered, HandedStarts,
        HandedAsks, Retries, Gets, Writes, SameToken, SameRest, Forgets, TakesToken
  <2> QED BY <1>1, <2>1, <2>2, <2>3 DEF RunMoves
<1>5. run'.pc \in {"asking", "invalid", "reauth"} => run'.tokenGen # 0
  <2>1. CASE run' = run
    BY <2>1 DEF Generations
  <2>2. CASE Goes
    BY <2>2 DEF Goes
  <2>3. CASE Asks \/ HandedAsks(run.token) \/ HandedAsks(run.next)
    <3>1. state = "connected" /\ run'.tokenGen = gen
      BY <2>3 DEF Asks, HandedAsks, TakesToken, Connected, RefreshesOwn
    <3> QED BY <3>1 DEF ConnectedSince
  <2>4. CASE Next1("refresh", "reauth")
    <3>1. run'.tokenGen = gen /\ state = "connected"
      BY <2>4 DEF Next1, SameToken, RefreshesOwn
    <3> QED BY <3>1 DEF ConnectedSince
  <2>5. CASE Next1("asking", "invalid") \/ Next1("invalid", "reauth") \/ Stays
    BY <2>5 DEF Next1, Stays, SameToken, To, Generations
  <2>6. CASE \/ Next1("reading", "planning") \/ Refreshes \/ RefreshesRejected \/ Starts \/ Answered
             \/ HandedStarts \/ Retries \/ Gets \/ Writes
    BY <2>6 DEF Next1, Refreshes, RefreshesRejected, Starts, Answered, HandedStarts, Retries,
      Gets, Writes, To
  <2> QED BY <1>1, <2>1, <2>2, <2>3, <2>4, <2>5, <2>6 DEF RunMoves, MovesOn
<1>3. state = "connected" => row.gen \in {0, gen}
  <2>1. state = "connected" => life # "finish"
    BY FlowsNonzero DEF Codes, Storing
  <2> QED BY <2>1 DEF Mirrored
<1>4. run'.gen # 0 /\ run'.gen = row'.gen => run'.tokenGen \in {0, run'.gen}
  <2>1. CASE Goes
    BY <2>1 DEF Goes
  <2>2. CASE MovesOn /\ Keeps
    <3>1. row'.gen = row.gen
      BY <2>2 DEF Keeps
    <3>2. CASE Refreshes \/ Asks \/ Starts \/ HandedStarts \/ HandedAsks(run.token) \/ HandedAsks(run.next)
      <4>1. state = "connected"
        BY <3>2 DEF Refreshes, Asks, Starts, HandedStarts, HandedAsks, Connected, RefreshesOwn
      <4>2. CASE Starts \/ HandedStarts
        <5>1. run'.tokenGen = 0
          BY <4>2 DEF Generations, Starts, HandedStarts, SameToken, Forgets
        <5> QED BY <5>1
      <4>3. CASE Refreshes \/ Asks \/ HandedAsks(run.token) \/ HandedAsks(run.next)
        <5>1. run'.tokenGen = gen /\ run'.gen = run.gen
          BY <4>3 DEF Refreshes, Asks, HandedAsks, TakesToken, SameRest
        <5> QED BY <1>3, <3>1, <4>1, <5>1
      <4> QED BY <3>2, <4>2, <4>3
    <3>3. CASE ~(Refreshes \/ Asks \/ Starts \/ HandedStarts \/ HandedAsks(run.token) \/ HandedAsks(run.next))
      BY <2>2, <3>1, <3>3 DEF Generations, MovesOn, Stays, Next1, RefreshesRejected, Answered,
        Retries, Gets,
        Writes, SameToken, SameRest, Forgets
    <3> QED BY <3>2, <3>3
  <2>3. CASE run' = run
    <3>1. CASE \E f \in Flows : FinishStored(f)
      <4>0. PICK f \in Flows : FinishStored(f)
        BY <3>1
      <4>1. poller[f].pc = "approved" /\ row'.gen = poller[f].pair
        BY <4>0 DEF FinishStored
      <4> QED BY <2>3, <4>1 DEF Fresh
    <3>2. CASE \E f \in Flows : FinishConnected(f)
      BY <2>3, <3>2 DEF FinishConnected, stored, Generations
    <3>3. CASE Crash
      BY <2>3, <3>3 DEF Crash, stored, Generations
    <3>4. CASE row' = NoRow \/ row'.gen = row.gen
      BY <2>3, <3>4 DEF NoRow, Generations
    <3> QED BY <1>1, <3>1, <3>2, <3>3, <3>4 DEF GensMove
  <2> QED BY <1>1, <2>1, <2>2, <2>3 DEF RunMoves
<1> QED BY <1>2, <1>4, <1>5 DEF Generations

LEMMA OwnersStay == ASSUME Grows, NEW p, Out(p), p # 0 PROVE owner'[p] = owner[p]
BY DEF Grows, Out

LEMMA AccountedStateStep ==
    ASSUME Domains, StateOut, RunOut, Storing, Fresh, AccountedState, AccountedRun, Generations,
           RefreshesOwn, ConnectedSince, [Next]_vars
    PROVE  AccountedState'
<1>0. Grows
  BY GrowsStep
<1>1. CASE Connect
  BY <1>1, FlowsNonzero DEF Connect, NoPoller, bounds, locks, stored, syncing, trakt,
    AccountedState, Domains, RowFields, TokenFields
<1>2. ASSUME NEW f \in Flows, PollApproved(f) PROVE AccountedState'
  <2>1. UNCHANGED <<row, tokens, gen>>
    BY <1>2 DEF PollApproved, stored, memory
  <2> QED BY <1>0, <2>1, OwnersStay DEF AccountedState, StateOut
<1>3. ASSUME NEW f \in Flows, PollEnded(f) PROVE AccountedState'
  BY <1>3, FlowsNonzero DEF PollEnded, EndFlow, NoPoller, bounds, locks, stored, syncing, trakt,
    AccountedState, Domains, RowFields, TokenFields
<1>4. ASSUME NEW f \in Flows, FinishUnread(f) PROVE AccountedState'
  BY <1>4, FlowsNonzero DEF FinishUnread, CanFail, EndFlow, Fails, NoPoller, Revoke, Works, locks,
    stored, syncing, AccountedState, Domains, RowFields, TokenFields
<1>5. ASSUME NEW f \in Flows, FinishCancelled(f) PROVE AccountedState'
  BY <1>5, FlowsNonzero DEF FinishCancelled, CanFail, Fails, NoPoller, Revoke, Works, locks,
    memory, stored, syncing, AccountedState, Domains, RowFields, TokenFields
<1>6. ASSUME NEW f \in Flows, FinishStored(f) PROVE AccountedState'
  <2> DEFINE p == poller[f].pair
  <2>1. row' = [gen |-> p, account |-> owner[p], pair |-> p, reauth |-> FALSE]
        /\ owner' = owner /\ tokens' = tokens /\ gen' = gen /\ poller[f].pc = "approved"
    BY <1>6 DEF FinishStored, memory
  <2>2. p # 0
    BY <2>1 DEF Fresh
  <2> QED BY <2>1, <2>2 DEF AccountedState
<1>7. ASSUME NEW f \in Flows, FinishRefused(f) PROVE AccountedState'
  BY <1>7, FlowsNonzero DEF FinishRefused, CanFail, EndFlow, Fails, NoPoller, Works, locks,
    stored, syncing, AccountedState, Domains, RowFields, TokenFields
<1>8. ASSUME NEW f \in Flows, FinishConnected(f) PROVE AccountedState'
  <2>1. row' = row /\ owner' = owner /\ gen' = row.gen /\ poller[f].pair = row.gen /\ poller[f].pair # 0
    BY <1>8 DEF FinishConnected, stored, trakt, Storing, Fresh
  <2>2. tokens'.pair = poller[f].pair
    BY <1>8 DEF FinishConnected, NoTokens
  <2> QED BY <2>1, <2>2 DEF AccountedState
<1>9. CASE Disconnect
  BY <1>9, FlowsNonzero DEF Disconnect, DropFlow, bounds, stored, syncing, trakt, AccountedState,
    Domains, RowFields, TokenFields
<1>10. CASE DisconnectStopSync
  BY <1>10, FlowsNonzero DEF DisconnectStopSync, NoResume, bounds, locks, memory, stored, trakt,
    AccountedState, Domains, RowFields, TokenFields
<1>11. CASE DisconnectPurged
  <2>1. row' = row \/ row' = NoRow
    BY <1>11 DEF DisconnectPurged, stored
  <2>2. UNCHANGED <<owner, tokens, gen>>
    BY <1>11 DEF DisconnectPurged, trakt, memory
  <2> QED BY <2>1, <2>2 DEF AccountedState, NoRow
<1>12. CASE DisconnectReset
  BY <1>12, FlowsNonzero DEF DisconnectReset, CanFail, Fails, NoTokens, Revoke, Works, syncing,
    AccountedState, Domains, RowFields, TokenFields
<1>13. CASE TriggerInitial
  BY <1>13, FlowsNonzero DEF TriggerInitial, NoResume, NoRun, Trigger, bounds, locks, memory,
    stored, trakt, AccountedState, Domains, RowFields, TokenFields
<1>14. CASE TriggerCheck
  BY <1>14, FlowsNonzero DEF TriggerCheck, NoResume, NoRun, Trigger, bounds, locks, memory,
    stored, trakt, AccountedState, Domains, RowFields, TokenFields
<1>15. CASE StartRead
  BY <1>15, FlowsNonzero DEF StartRead, CanFail, Fails, NoRun, Works, locks, memory, stored,
    trakt, AccountedState, Domains, RowFields, TokenFields
<1>16. CASE StartPlanned
  BY <1>16, FlowsNonzero DEF StartPlanned, NoResume, NoRun, Plans, bounds, locks, memory, stored,
    trakt, AccountedState, Domains, RowFields, TokenFields
<1>17. CASE RunAgain
  BY <1>17, FlowsNonzero DEF RunAgain, NoRun, bounds, locks, memory, stored, trakt,
    AccountedState, Domains, RowFields, TokenFields
<1>18. CASE Token
  <2>1. UNCHANGED <<owner, gen>>
    BY <1>18 DEF Token, trakt
  <2>2. tokens'.pair = tokens.pair
    BY <1>18 DEF Token, Domains, TokenFields
  <2>3. row' = row \/ (state = "connected" /\ row.gen = gen /\ row' = [row EXCEPT !.pair = tokens.pair])
    BY <1>18 DEF Token, Current
  <2>4. CASE row' = row
    BY <2>1, <2>2, <2>4 DEF AccountedState
  <2>5. CASE state = "connected" /\ row.gen = gen /\ row' = [row EXCEPT !.pair = tokens.pair]
    <3>1. row'.gen = row.gen /\ row'.pair = tokens.pair /\ row'.account = row.account
      BY <2>5 DEF Domains, RowFields
    <3> QED BY <2>1, <2>2, <2>5, <3>1 DEF AccountedState, ConnectedSince
  <2> QED BY <2>3, <2>4, <2>5
<1>19. CASE RefreshAnswered
  <2>1. UNCHANGED <<row, tokens, gen>>
    BY <1>19 DEF RefreshAnswered, stored, memory
  <2> QED BY <1>0, <2>1, OwnersStay DEF AccountedState, StateOut
<1>20. CASE RefreshFailed
  <2>1. UNCHANGED <<row, tokens, gen>>
    BY <1>20 DEF RefreshFailed, stored, memory
  <2> QED BY <1>0, <2>1, OwnersStay DEF AccountedState, StateOut
<1>21. CASE RefreshRefused
  BY <1>21, FlowsNonzero DEF RefreshRefused, Finish, NoResume, NoRun, bounds, stored, trakt,
    AccountedState, Domains, RowFields, TokenFields
<1>22. CASE ReauthStored
  <2>1. row' = row \/ (row.gen = run.tokenGen /\ row' = [row EXCEPT !.reauth = TRUE])
    BY <1>22 DEF ReauthStored, Current
  <2>2. UNCHANGED <<owner, tokens, gen>> /\ run.pc = "reauth"
    BY <1>22 DEF ReauthStored, trakt, memory
  <2>3. run.tokenGen # 0
    BY <2>2 DEF Generations
  <2>4. CASE row' = row
    BY <2>2, <2>4 DEF AccountedState
  <2>5. CASE row.gen = run.tokenGen /\ row' = [row EXCEPT !.reauth = TRUE]
    <3>1. row'.gen = row.gen /\ row'.pair = row.pair /\ row'.account = row.account
      BY <2>5 DEF Domains, RowFields
    <3> QED BY <2>2, <2>3, <2>5, <3>1 DEF AccountedState
  <2> QED BY <2>1, <2>4, <2>5
<1>23. CASE RefreshSaved
  <2>1. UNCHANGED <<owner, gen>> /\ run.pc = "saving"
    BY <1>23 DEF RefreshSaved, trakt
  <2>2. run.tokenGen = gen /\ gen # 0
    BY <2>1 DEF RefreshesOwn, ConnectedSince
  <2>3. tokens' = tokens \/ tokens' = Refreshed(FALSE) \/ tokens' = Refreshed(TRUE)
    BY <1>23 DEF RefreshSaved
  <2>4. tokens'.pair \in {tokens.pair, run.next}
    BY <2>3 DEF Refreshed, NextTokens
  <2>5. row' = row \/ (row.gen = gen /\ row' = [row EXCEPT !.pair = run.next])
    BY <1>23, <2>2 DEF RefreshSaved, Current
  <2>6. CASE row' = row
    BY <2>1, <2>2, <2>4, <2>6 DEF AccountedState, AccountedRun
  <2>7. CASE row.gen = gen /\ row' = [row EXCEPT !.pair = run.next]
    <3>1. row'.gen = row.gen /\ row'.pair = run.next /\ row'.account = row.account
      BY <2>7 DEF Domains, RowFields
    <3> QED BY <2>1, <2>2, <2>4, <2>7, <3>1 DEF AccountedState, AccountedRun
  <2> QED BY <2>5, <2>6, <2>7
<1>24. CASE Invalidate
  BY <1>24, FlowsNonzero DEF Invalidate, Finish, NoResume, NoRun, Retried, bounds, stored, trakt,
    AccountedState, Domains, RowFields, TokenFields
<1>25. CASE RunAnswered
  BY <1>25, FlowsNonzero DEF RunAnswered, bounds, locks, memory, stored, trakt, AccountedState,
    Domains, RowFields, TokenFields
<1>26. CASE RunUnauthorized
  BY <1>26, FlowsNonzero DEF RunUnauthorized, CanFail, Fails, locks, memory, stored,
    AccountedState, Domains, RowFields, TokenFields
<1>27. CASE RunFailed
  BY <1>27, FlowsNonzero DEF RunFailed, CanFail, Fails, Finish, NoResume, NoRun, locks, memory,
    stored, trakt, AccountedState, Domains, RowFields, TokenFields
<1>28. CASE RunCancelled
  BY <1>28, FlowsNonzero DEF RunCancelled, Finish, NoResume, NoRun, bounds, locks, memory, stored,
    trakt, AccountedState, Domains, RowFields, TokenFields
<1>29. CASE RunWrote
  BY <1>29, FlowsNonzero DEF RunWrote, Current, Finish, NoResume, NoRun, bounds, locks, memory,
    trakt, AccountedState, Domains, RowFields, TokenFields
<1>30. CASE RunDone
  BY <1>30, FlowsNonzero DEF RunDone, Current, Finish, NoResume, NoRun, bounds, locks, memory,
    trakt, AccountedState, Domains, RowFields, TokenFields
<1>31. CASE Crash
  BY <1>31, FlowsNonzero DEF Crash, NoPoller, NoResume, NoRow, NoRun, NoSync, NoTokens, stored,
    AccountedState, Domains, RowFields, TokenFields
<1>32. CASE Withdraw
  BY <1>32, FlowsNonzero DEF Withdraw, CanFail, Fails, locks, memory, stored, syncing,
    AccountedState, Domains, RowFields, TokenFields
<1>33. CASE UNCHANGED vars
  BY <1>33 DEF vars, AccountedState, Domains, RowFields, TokenFields
<1> QED
  BY <1>1, <1>2, <1>3, <1>4, <1>5, <1>6, <1>7, <1>8, <1>9, <1>10, <1>11, <1>12, <1>13, <1>14,
    <1>15, <1>16, <1>17, <1>18, <1>19, <1>20, <1>21, <1>22, <1>23, <1>24, <1>25, <1>26, <1>27,
    <1>28, <1>29, <1>30, <1>31, <1>32, <1>33 DEF Next

LEMMA AccountedRunStep ==
    ASSUME Domains, Ranges, LiveOut, StateOut, RunOut, Locks, RefreshLock, Codes, Storing, Fresh,
           AccountedState,
           AccountedRun, Generations, RefreshesOwn, ConnectedSince, Mirrored, [Next]_vars
    PROVE  AccountedRun'
<1>1. RunMoves /\ GensMove /\ Grows
  BY RunMovesStep, GensMoveStep, GrowsStep
<1>2. ASSUME NEW p, Out(p), p # 0 PROVE owner'[p] = owner[p]
  BY <1>1, <1>2 DEF Grows, Out
<1>3. CASE Goes
  BY <1>3 DEF Goes, AccountedRun
<1>4. CASE run' = run
  <2>1. /\ run'.token # 0 => run'.tokenGen # 0 /\ owner'[run'.token] = owner'[run'.tokenGen]
        /\ run'.next # 0 => /\ run'.pc = "saving" /\ run'.tokenGen # 0
                            /\ owner'[run'.next] = owner'[run'.tokenGen]
        /\ run'.got # {} => run'.pc = "write"
    BY <1>2, <1>4 DEF AccountedRun, RunOut
  <2>2. CASE \E f \in Flows : FinishStored(f)
    <3>1. run'.gen # row'.gen
      <4>0. PICK f \in Flows : FinishStored(f)
        BY <2>2
      <4>1. poller[f].pc = "approved" /\ row'.gen = poller[f].pair
        BY <4>0 DEF FinishStored
      <4> QED BY <1>4, <4>1 DEF Fresh
    <3> QED BY <2>1, <3>1 DEF AccountedRun
  <2>3. CASE row' = NoRow
    BY <2>1, <2>3 DEF NoRow, AccountedRun
  <2>4. CASE row'.gen = row.gen /\ row'.account = row.account
    BY <1>4, <2>1, <2>4 DEF AccountedRun
  <2>5. CASE row' = row
    BY <1>4, <2>1, <2>5 DEF AccountedRun
  <2> QED BY <1>1, <2>2, <2>3, <2>4, <2>5 DEF GensMove, FinishConnected, Crash, stored
<1>5. CASE MovesOn /\ Keeps
  <2>1. row'.gen = row.gen /\ row'.account = row.account
    BY <1>5 DEF Keeps
  <2>2. CASE Answered
    <3>1. run.token # 0 /\ run.tokenGen # 0 /\ owner'[run.tokenGen] = owner[run.token]
      BY <1>2, <2>2 DEF Answered, LiveOut, AccountedRun, RunOut
    <3>2. owner'[run.token] = owner[run.token] /\ owner'[run'.next] = owner[run.token]
      BY <1>2, <2>2, <3>1 DEF Answered, RunOut
    <3>3. run'.got = {} /\ run'.pc = "saving" /\ SameToken
      BY <2>2 DEF Answered, To, AccountedRun
    <3>4. run'.next # 0 /\ owner'[run'.next] = owner'[run'.tokenGen]
      BY <2>2, <3>1, <3>2, <3>3, NewPair DEF Answered, SameToken
    <3> QED BY <3>1, <3>2, <3>3, <3>4 DEF SameToken, AccountedRun
  <2>3. CASE Gets
    <3>1. run'.got = run.got \/ (run.token \in live /\ run'.got = owner[run.token])
      BY <2>3 DEF Gets
    <3>2. run.gen # 0 /\ run.gen = row.gen /\ run.token \in live => owner[run.token] = row.account
      BY DEF LiveOut, AccountedRun, AccountedState, Generations
    <3>3. run'.gen # 0 /\ run'.gen = row'.gen => run'.got \subseteq row'.account
      BY <2>1, <2>3, <3>1, <3>2 DEF Gets, AccountedRun
    <3>4. run'.next # 0 => FALSE
      BY <2>3 DEF Gets, AccountedRun
    <3>5. run'.got # {} => run'.pc = "write"
      BY <2>3 DEF Gets, AccountedRun
    <3> QED BY <2>3, <3>3, <3>4, <3>5 DEF Gets, AccountedRun
  <2>4. CASE Refreshes \/ Asks
    <3>1. run'.token = tokens.pair /\ run'.tokenGen = gen /\ state = "connected" /\ SameRest
      BY <2>4 DEF Refreshes, Asks, TakesToken, Connected
    <3>2. run'.token # 0 => run'.tokenGen # 0 /\ owner'[run'.token] = owner'[run'.tokenGen]
      BY <1>2, <3>1 DEF AccountedState, StateOut
    <3>3. run'.next # 0 => FALSE
      BY <2>4 DEF Refreshes, Asks, SameRest, AccountedRun
    <3>4. run'.got = {}
      BY <2>4 DEF Refreshes, Asks, SameRest, AccountedRun
    <3> QED BY <3>2, <3>3, <3>4 DEF AccountedRun
  <2>5. CASE ~(Answered \/ Gets \/ Refreshes \/ Asks)
    <3>1. run'.token # 0 => run'.tokenGen # 0 /\ owner'[run'.token] = owner'[run'.tokenGen]
      BY <1>2, <1>5, <2>5 DEF RunOut, AccountedRun, RefreshesOwn, MovesOn, Stays, Next1,
        Refreshes, RefreshesRejected, Starts, Asks, Answered, HandedStarts,
        HandedAsks, Retries, Gets, Writes, SameToken, SameRest, Forgets, TakesToken
    <3>2. run'.next # 0 => run'.pc = "saving" /\ run'.tokenGen # 0 /\ owner'[run'.next] = owner'[run'.tokenGen]
      BY <1>2, <1>5, <2>5 DEF RunOut, AccountedRun, To, MovesOn, Stays, Next1, Refreshes,
        RefreshesRejected, Starts, Asks, Answered, HandedStarts,
        HandedAsks, Retries, Gets, Writes, SameToken, SameRest, Forgets, TakesToken
    <3>3. run'.gen # 0 /\ run'.gen = row'.gen => run'.got \subseteq row'.account
      BY <2>1, <1>5, <2>5 DEF AccountedRun, MovesOn, Stays, Next1, Refreshes, RefreshesRejected,
        Starts, Asks, Answered, HandedStarts,
        HandedAsks, Retries, Gets, Writes, SameToken, SameRest, Forgets, TakesToken
    <3>4. run'.got # {} => run'.pc = "write"
      BY <1>5, <2>5 DEF AccountedRun, To, MovesOn, Stays, Next1, Refreshes, RefreshesRejected,
        Starts, Asks, Answered, HandedStarts,
        HandedAsks, Retries, Gets, Writes, SameToken, SameRest, Forgets, TakesToken
    <3> QED BY <3>1, <3>2, <3>3, <3>4 DEF AccountedRun
  <2> QED BY <2>2, <2>3, <2>4, <2>5
<1> QED BY <1>1, <1>3, <1>4, <1>5 DEF RunMoves

\* A linked member stays linked, but for the steps that connect and disconnect.
LinkKept == Linked' <=> Linked
LinkKeeps == LinkKept \/ Crash \/ DisconnectReset \/ \E f \in Flows : FinishConnected(f)

LEMMA EndFlowLinks ==
    ASSUME Domains, Ranges, PollersRange, Codes, NEW f \in Flows, poller[f].pc # "none", EndFlow(f)
    PROVE  LinkKept
<1>1. CASE flow = f
  <2>1. flow' = 0 /\ state' = poller[f].from /\ state = "pending"
    BY <1>1, FlowsNonzero DEF EndFlow, Codes
  <2> QED BY <1>1, <2>1, FlowsNonzero DEF LinkKept, Linked, PollersRange
<1>2. CASE flow # f
  <2>1. poller' = [poller EXCEPT ![f] = NoPoller] /\ UNCHANGED <<flow, state>>
    BY <1>2 DEF EndFlow
  <2>2. \A g \in Flows \ {f} : poller'[g] = poller[g]
    BY <2>1 DEF Domains
  <2> QED BY <1>2, <2>1, <2>2 DEF LinkKept, Linked, Ranges
<1> QED BY <1>1, <1>2

LEMMA LinkedStep ==
    ASSUME Domains, Ranges, PollersRange, Codes, [Next]_vars
    PROVE  LinkKeeps
<1>1. CASE Connect
  <2> DEFINE back == IF flow = 0 THEN state ELSE poller[flow].from
             ended == IF flow = 0 THEN poller ELSE [poller EXCEPT ![flow].cancelled = TRUE]
  <2>1. Linked <=> back = "reauth"
    BY <1>1 DEF Connect, Linked, Codes
  <2>2. back # "connected" /\ back # "pending"
    BY <1>1, FlowsNonzero DEF Connect, Codes, Ranges, PollersRange
  <2>3. DOMAIN ended = Flows
    BY DEF Domains
  <2>4. CASE poller' = ended /\ flow' = 0 /\ state' = back
    BY <2>1, <2>2, <2>4 DEF LinkKeeps, LinkKept, Linked
  <2>5. CASE \E f \in Flows : /\ poller' = [ended EXCEPT ![f] = [NoPoller EXCEPT !.pc = "polling", !.from = back]]
                              /\ flow' = f /\ state' = "pending"
    <3>1. PICK f \in Flows : /\ poller' = [ended EXCEPT ![f] = [NoPoller EXCEPT !.pc = "polling", !.from = back]]
                            /\ flow' = f /\ state' = "pending"
      BY <2>5
    <3> DEFINE new == [NoPoller EXCEPT !.pc = "polling", !.from = back]
    <3>2. new.from = back
      BY DEF NoPoller
    <3> HIDE DEF ended, new
    <3>3. poller'[f] = new
      BY <2>3, <3>1 DEF new
    <3> QED BY <2>1, <3>1, <3>2, <3>3, FlowsNonzero DEF LinkKeeps, LinkKept, Linked
  <2> QED BY <1>1, <2>4, <2>5 DEF Connect
<1>2. ASSUME NEW f \in Flows, PollApproved(f) PROVE LinkKeeps
  <2>1. \A g \in Flows : poller'[g].from = poller[g].from
    BY <1>2 DEF PollApproved, Domains, PollerFields
  <2>2. UNCHANGED <<state, flow>>
    BY <1>2 DEF PollApproved, memory
  <2> QED BY <2>1, <2>2 DEF LinkKeeps, LinkKept, Linked, Ranges
<1>3. ASSUME NEW f \in Flows, PollEnded(f) PROVE LinkKeeps
  <2>1. CASE poller[f].cancelled
    <3>1. poller' = [poller EXCEPT ![f] = NoPoller] /\ UNCHANGED <<flow, state>>
      BY <1>3, <2>1 DEF PollEnded, memory
    <3>2. flow # f
      BY <2>1, FlowsNonzero DEF Codes
    <3>3. \A g \in Flows \ {f} : poller'[g] = poller[g]
      BY <3>1 DEF Domains
    <3> QED BY <3>1, <3>2, <3>3 DEF LinkKeeps, LinkKept, Linked, Ranges
  <2>2. CASE ~poller[f].cancelled
    <3>1. EndFlow(f) /\ poller[f].pc # "none"
      BY <1>3, <2>2 DEF PollEnded
    <3> QED BY <3>1, EndFlowLinks DEF LinkKeeps
  <2> QED BY <2>1, <2>2
<1>4. ASSUME NEW f \in Flows, FinishUnread(f) PROVE LinkKeeps
  <2>1. EndFlow(f) /\ poller[f].pc # "none"
    BY <1>4 DEF FinishUnread
  <2> QED BY <2>1, EndFlowLinks DEF LinkKeeps
<1>5. ASSUME NEW f \in Flows, FinishCancelled(f) PROVE LinkKeeps
  <2>1. poller[f].cancelled
    BY <1>5 DEF FinishCancelled
  <2>2. LinkKept
    <3>1. poller' = [poller EXCEPT ![f] = NoPoller] /\ UNCHANGED <<flow, state>>
      BY <1>5, <2>1 DEF FinishCancelled, memory
    <3>2. flow # f
      BY <2>1, FlowsNonzero DEF Codes
    <3>3. \A g \in Flows \ {f} : poller'[g] = poller[g]
      BY <3>1 DEF Domains
    <3> QED BY <3>1, <3>2, <3>3 DEF LinkKeeps, LinkKept, Linked, Ranges
  <2> QED BY <2>2 DEF LinkKeeps
<1>6. ASSUME NEW f \in Flows, FinishStored(f) PROVE LinkKeeps
  <2>1. \A g \in Flows : poller'[g].from = poller[g].from
    BY <1>6 DEF FinishStored, Domains, PollerFields
  <2>2. UNCHANGED <<state, flow>>
    BY <1>6 DEF FinishStored, memory
  <2> QED BY <2>1, <2>2 DEF LinkKeeps, LinkKept, Linked, Ranges
<1>7. ASSUME NEW f \in Flows, FinishRefused(f) PROVE LinkKeeps
  <2>1. EndFlow(f) /\ poller[f].pc # "none"
    BY <1>7 DEF FinishRefused
  <2> QED BY <2>1, EndFlowLinks DEF LinkKeeps
<1>8. ASSUME NEW f \in Flows, FinishConnected(f) PROVE LinkKeeps
  BY <1>8 DEF LinkKeeps
<1>9. CASE Disconnect
  <2>1. CASE flow # 0
    <3>1. flow' = 0 /\ state' = poller[flow].from /\ state = "pending"
      BY <1>9, <2>1 DEF Disconnect, DropFlow, Codes
    <3> QED BY <2>1, <3>1 DEF LinkKeeps, LinkKept, Linked, PollersRange, Ranges
  <2>2. CASE flow = 0
    <3>1. UNCHANGED <<poller, flow, state>>
      BY <1>9, <2>2 DEF Disconnect
    <3> QED BY <3>1 DEF LinkKeeps, LinkKept, Linked
  <2> QED BY <2>1, <2>2
<1>10. CASE DisconnectStopSync
  BY <1>10, FlowsNonzero DEF DisconnectStopSync, NoResume, bounds, locks, memory, stored, trakt,
    LinkKeeps, LinkKept, Linked, Codes, Domains, PollerFields
<1>11. CASE DisconnectPurged
  BY <1>11, FlowsNonzero DEF DisconnectPurged, CanFail, Fails, NoRow, Purged, Works, memory,
    stored, syncing, trakt, LinkKeeps, LinkKept, Linked, Codes, Domains, PollerFields
<1>12. CASE DisconnectReset
  BY <1>12 DEF LinkKeeps
<1>13. CASE TriggerInitial
  BY <1>13, FlowsNonzero DEF TriggerInitial, NoResume, NoRun, Trigger, bounds, locks, memory,
    stored, trakt, LinkKeeps, LinkKept, Linked, Codes, Domains, PollerFields
<1>14. CASE TriggerCheck
  BY <1>14, FlowsNonzero DEF TriggerCheck, NoResume, NoRun, Trigger, bounds, locks, memory,
    stored, trakt, LinkKeeps, LinkKept, Linked, Codes, Domains, PollerFields
<1>15. CASE StartRead
  BY <1>15, FlowsNonzero DEF StartRead, CanFail, Fails, NoRun, Works, locks, memory, stored,
    trakt, LinkKeeps, LinkKept, Linked, Codes, Domains, PollerFields
<1>16. CASE StartPlanned
  BY <1>16, FlowsNonzero DEF StartPlanned, NoResume, NoRun, Plans, bounds, locks, memory, stored,
    trakt, LinkKeeps, LinkKept, Linked, Codes, Domains, PollerFields
<1>17. CASE RunAgain
  BY <1>17, FlowsNonzero DEF RunAgain, NoRun, bounds, locks, memory, stored, trakt, LinkKeeps,
    LinkKept, Linked, Codes, Domains, PollerFields
<1>18. CASE Token
  BY <1>18, FlowsNonzero DEF Token, AfterToken, CanFail, Current, Fails, Finish, NoResume, NoRun,
    Works, trakt, LinkKeeps, LinkKept, Linked, Codes, Domains, PollerFields
<1>19. CASE RefreshAnswered
  BY <1>19, FlowsNonzero DEF RefreshAnswered, Rotated, bounds, locks, memory, stored, LinkKeeps,
    LinkKept, Linked, Codes, Domains, PollerFields
<1>20. CASE RefreshFailed
  BY <1>20, FlowsNonzero DEF RefreshFailed, AfterToken, CanFail, Fails, Finish, Handed, NoResume,
    NoRun, Rotated, memory, stored, trakt, LinkKeeps, LinkKept, Linked, Codes, Domains,
    PollerFields
<1>21. CASE RefreshRefused
  BY <1>21, FlowsNonzero DEF RefreshRefused, Finish, NoResume, NoRun, bounds, stored, trakt,
    LinkKeeps, LinkKept, Linked, Codes, Domains, PollerFields
<1>22. CASE ReauthStored
  BY <1>22, FlowsNonzero DEF ReauthStored, CanFail, Current, Fails, Finish, NoResume, NoRun,
    Works, memory, trakt, LinkKeeps, LinkKept, Linked, Codes, Domains, PollerFields
<1>23. CASE RefreshSaved
  BY <1>23, FlowsNonzero DEF RefreshSaved, AfterToken, CanFail, Current, Fails, Finish, Handed,
    NextTokens, NoResume, NoRun, Refreshed, Retried, Works, trakt, LinkKeeps, LinkKept, Linked,
    Codes, Domains, PollerFields
<1>24. CASE Invalidate
  BY <1>24, FlowsNonzero DEF Invalidate, Finish, NoResume, NoRun, Retried, bounds, stored, trakt,
    LinkKeeps, LinkKept, Linked, Codes, Domains, PollerFields
<1>25. CASE RunAnswered
  BY <1>25, FlowsNonzero DEF RunAnswered, bounds, locks, memory, stored, trakt, LinkKeeps,
    LinkKept, Linked, Codes, Domains, PollerFields
<1>26. CASE RunUnauthorized
  BY <1>26, FlowsNonzero DEF RunUnauthorized, CanFail, Fails, locks, memory, stored, LinkKeeps,
    LinkKept, Linked, Codes, Domains, PollerFields
<1>27. CASE RunFailed
  BY <1>27, FlowsNonzero DEF RunFailed, CanFail, Fails, Finish, NoResume, NoRun, locks, memory,
    stored, trakt, LinkKeeps, LinkKept, Linked, Codes, Domains, PollerFields
<1>28. CASE RunCancelled
  BY <1>28, FlowsNonzero DEF RunCancelled, Finish, NoResume, NoRun, bounds, locks, memory, stored,
    trakt, LinkKeeps, LinkKept, Linked, Codes, Domains, PollerFields
<1>29. CASE RunWrote
  BY <1>29, FlowsNonzero DEF RunWrote, Current, Finish, NoResume, NoRun, bounds, locks, memory,
    trakt, LinkKeeps, LinkKept, Linked, Codes, Domains, PollerFields
<1>30. CASE RunDone
  BY <1>30, FlowsNonzero DEF RunDone, Current, Finish, NoResume, NoRun, bounds, locks, memory,
    trakt, LinkKeeps, LinkKept, Linked, Codes, Domains, PollerFields
<1>31. CASE Crash
  BY <1>31 DEF LinkKeeps
<1>32. CASE Withdraw
  BY <1>32, FlowsNonzero DEF Withdraw, CanFail, Fails, locks, memory, stored, syncing, LinkKeeps,
    LinkKept, Linked, Codes, Domains, PollerFields
<1>33. CASE UNCHANGED vars
  BY <1>33 DEF vars, LinkKeeps, LinkKept, Linked, Codes, Domains, PollerFields
<1> QED
  BY <1>1, <1>2, <1>3, <1>4, <1>5, <1>6, <1>7, <1>8, <1>9, <1>10, <1>11, <1>12, <1>13, <1>14,
    <1>15, <1>16, <1>17, <1>18, <1>19, <1>20, <1>21, <1>22, <1>23, <1>24, <1>25, <1>26, <1>27,
    <1>28, <1>29, <1>30, <1>31, <1>32, <1>33 DEF Next

LEMMA MirroredKept ==
    ASSUME Mirrored, LinkKept, UNCHANGED <<gen, row, tokens>>, life' = life \/ life # "finish",
           disconnect' = disconnect \/ (disconnect # "resetting" /\ disconnect' # "resetting")
    PROVE  Mirrored'
BY DEF Mirrored, LinkKept

LEMMA MirroredJumps ==
    ASSUME Domains, Ranges, PollersRange, Locks, Codes, Storing, AccountedState, Fresh,
           RefreshesOwn, Mirrored,
           Crash \/ DisconnectReset \/ \E f \in Flows : FinishConnected(f)
    PROVE  Mirrored'
<1>1. CASE Crash
  <2>1. row' = row /\ gen' = row.gen /\ flow' = 0 /\ disconnect' = "none"
    BY <1>1 DEF Crash, stored
  <2>2. tokens'.pair = row.pair
    BY <1>1 DEF Crash, NoTokens
  <2>3. state' \in {"connected", "reauth"} <=> row # NoRow
    BY <1>1 DEF Crash
  <2>4. row # NoRow <=> row.gen # 0
    BY DEF AccountedState, NoRow
  <2> QED BY <2>1, <2>2, <2>3, <2>4 DEF Mirrored, Linked
<1>2. CASE DisconnectReset
  <2>1. /\ row' = row /\ gen' = 0 /\ state' = "off" /\ flow' = flow /\ disconnect' = "none"
        /\ disconnect = "resetting"
    BY <1>2 DEF DisconnectReset
  <2>2. row.gen = 0 /\ row.pair = 0 /\ flow = 0
    BY <2>1 DEF Mirrored, AccountedState, NoRow, Locks
  <2>3. tokens'.pair = 0
    BY <1>2 DEF DisconnectReset, NoTokens
  <2> QED BY <2>1, <2>2, <2>3 DEF Mirrored, Linked
<1>3. ASSUME NEW f \in Flows, FinishConnected(f) PROVE Mirrored'
  <2>1. /\ state' = "connected" /\ gen' = row.gen /\ row' = row /\ disconnect' = disconnect
        /\ poller[f].pc = "stored"
    BY <1>3 DEF FinishConnected, stored
  <2>2. /\ life = "finish" /\ poller[f].pair = row.gen /\ row.pair = row.gen
        /\ row.gen # 0
    BY <2>1 DEF Storing, Fresh
  <2>3. tokens'.pair = row.gen
    BY <1>3, <2>2 DEF FinishConnected, NoTokens
  <2>4. disconnect # "resetting"
    BY <2>2 DEF Locks
  <2> QED BY <2>1, <2>2, <2>3, <2>4 DEF Mirrored, Linked
<1> QED BY <1>1, <1>2, <1>3

LEMMA MirroredStep ==
    ASSUME Domains, Ranges, PollersRange, Locks, Codes, Storing, AccountedState, Fresh,
           RefreshesOwn, Mirrored, [Next]_vars
    PROVE  Mirrored'
<1>1. CASE Connect
  <2>1. UNCHANGED <<gen, row, tokens>>
    BY <1>1 DEF Connect, memory, stored
  <2>2. life' = life \/ life # "finish"
    BY <1>1 DEF Connect, locks
  <2>3. disconnect' = disconnect \/ (disconnect # "resetting" /\ disconnect' # "resetting")
    BY <1>1 DEF Connect
  <2>4. CASE LinkKept
    BY <2>1, <2>2, <2>3, <2>4, MirroredKept
  <2> QED BY <2>4, LinkedStep, MirroredJumps DEF LinkKeeps
<1>2. ASSUME NEW f \in Flows, PollApproved(f) PROVE Mirrored'
  <2>1. UNCHANGED <<gen, row, tokens>>
    BY <1>2 DEF PollApproved, memory, stored
  <2>2. life' = life \/ life # "finish"
    BY <1>2 DEF PollApproved, locks
  <2>3. disconnect' = disconnect \/ (disconnect # "resetting" /\ disconnect' # "resetting")
    BY <1>2 DEF PollApproved
  <2>4. CASE LinkKept
    BY <2>1, <2>2, <2>3, <2>4, MirroredKept
  <2> QED BY <2>4, LinkedStep, MirroredJumps DEF LinkKeeps
<1>3. ASSUME NEW f \in Flows, PollEnded(f) PROVE Mirrored'
  <2>1. UNCHANGED <<gen, row, tokens>>
    BY <1>3 DEF PollEnded, memory, stored
  <2>2. life' = life \/ life # "finish"
    BY <1>3 DEF PollEnded, locks
  <2>3. disconnect' = disconnect \/ (disconnect # "resetting" /\ disconnect' # "resetting")
    BY <1>3 DEF PollEnded
  <2>4. CASE LinkKept
    BY <2>1, <2>2, <2>3, <2>4, MirroredKept
  <2> QED BY <2>4, LinkedStep, MirroredJumps DEF LinkKeeps
<1>4. ASSUME NEW f \in Flows, FinishUnread(f) PROVE Mirrored'
  <2>1. UNCHANGED <<gen, row, tokens>>
    BY <1>4 DEF FinishUnread, memory, stored
  <2>2. life' = life \/ life # "finish"
    BY <1>4 DEF FinishUnread, locks
  <2>3. disconnect' = disconnect \/ (disconnect # "resetting" /\ disconnect' # "resetting")
    BY <1>4 DEF FinishUnread
  <2>4. CASE LinkKept
    BY <2>1, <2>2, <2>3, <2>4, MirroredKept
  <2> QED BY <2>4, LinkedStep, MirroredJumps DEF LinkKeeps
<1>5. ASSUME NEW f \in Flows, FinishCancelled(f) PROVE Mirrored'
  <2>1. UNCHANGED <<gen, row, tokens>>
    BY <1>5 DEF FinishCancelled, memory, stored
  <2>2. life' = life \/ life # "finish"
    BY <1>5 DEF FinishCancelled, locks
  <2>3. disconnect' = disconnect \/ (disconnect # "resetting" /\ disconnect' # "resetting")
    BY <1>5 DEF FinishCancelled
  <2>4. CASE LinkKept
    BY <2>1, <2>2, <2>3, <2>4, MirroredKept
  <2> QED BY <2>4, LinkedStep, MirroredJumps DEF LinkKeeps
<1>6. ASSUME NEW f \in Flows, FinishStored(f) PROVE Mirrored'
  <2>1. life = "" /\ life' = "finish" /\ disconnect' = disconnect
    BY <1>6 DEF FinishStored
  <2> QED BY <2>1 DEF Mirrored, Locks
<1>7. ASSUME NEW f \in Flows, FinishRefused(f) PROVE Mirrored'
  <2>1. UNCHANGED <<gen, row, tokens>>
    BY <1>7 DEF FinishRefused, memory, stored
  <2>2. life' = life \/ life # "finish"
    BY <1>7 DEF FinishRefused, locks
  <2>3. disconnect' = disconnect \/ (disconnect # "resetting" /\ disconnect' # "resetting")
    BY <1>7 DEF FinishRefused
  <2>4. CASE LinkKept
    BY <2>1, <2>2, <2>3, <2>4, MirroredKept
  <2> QED BY <2>4, LinkedStep, MirroredJumps DEF LinkKeeps
<1>8. ASSUME NEW f \in Flows, FinishConnected(f) PROVE Mirrored'
  BY <1>8, MirroredJumps
<1>9. CASE Disconnect
  <2>1. UNCHANGED <<gen, row, tokens>>
    BY <1>9 DEF Disconnect, memory, stored
  <2>2. life' = life \/ life # "finish"
    BY <1>9 DEF Disconnect, locks
  <2>3. disconnect' = disconnect \/ (disconnect # "resetting" /\ disconnect' # "resetting")
    BY <1>9 DEF Disconnect
  <2>4. CASE LinkKept
    BY <2>1, <2>2, <2>3, <2>4, MirroredKept
  <2> QED BY <2>4, LinkedStep, MirroredJumps DEF LinkKeeps
<1>10. CASE DisconnectStopSync
  <2>1. UNCHANGED <<gen, row, tokens>>
    BY <1>10 DEF DisconnectStopSync, memory, stored
  <2>2. life' = life \/ life # "finish"
    BY <1>10 DEF DisconnectStopSync, locks
  <2>3. disconnect' = disconnect \/ (disconnect # "resetting" /\ disconnect' # "resetting")
    BY <1>10 DEF DisconnectStopSync
  <2>4. CASE LinkKept
    BY <2>1, <2>2, <2>3, <2>4, MirroredKept
  <2> QED BY <2>4, LinkedStep, MirroredJumps DEF LinkKeeps
<1>11. CASE DisconnectPurged
  <2>1. UNCHANGED <<gen, tokens>> /\ disconnect = "locking" /\ life = "disconnect"
    BY <1>11 DEF DisconnectPurged, memory, Locks
  <2>2. CASE row' = NoRow /\ disconnect' = "resetting"
    BY <2>2 DEF Mirrored, NoRow
  <2>3. CASE row' = row /\ disconnect' = "none"
    <3>1. LinkKept
      BY <1>11 DEF DisconnectPurged, memory, LinkKept, Linked
    <3> QED BY <2>1, <2>3, <3>1, MirroredKept
  <2> QED BY <1>11, <2>2, <2>3 DEF DisconnectPurged, stored
<1>12. CASE DisconnectReset
  BY <1>12, MirroredJumps
<1>13. CASE TriggerInitial
  <2>1. UNCHANGED <<gen, row, tokens>>
    BY <1>13 DEF TriggerInitial, memory, stored
  <2>2. life' = life \/ life # "finish"
    BY <1>13 DEF TriggerInitial, locks
  <2>3. disconnect' = disconnect \/ (disconnect # "resetting" /\ disconnect' # "resetting")
    BY <1>13 DEF TriggerInitial
  <2>4. CASE LinkKept
    BY <2>1, <2>2, <2>3, <2>4, MirroredKept
  <2> QED BY <2>4, LinkedStep, MirroredJumps DEF LinkKeeps
<1>14. CASE TriggerCheck
  <2>1. UNCHANGED <<gen, row, tokens>>
    BY <1>14 DEF TriggerCheck, memory, stored
  <2>2. life' = life \/ life # "finish"
    BY <1>14 DEF TriggerCheck, locks
  <2>3. disconnect' = disconnect \/ (disconnect # "resetting" /\ disconnect' # "resetting")
    BY <1>14 DEF TriggerCheck
  <2>4. CASE LinkKept
    BY <2>1, <2>2, <2>3, <2>4, MirroredKept
  <2> QED BY <2>4, LinkedStep, MirroredJumps DEF LinkKeeps
<1>15. CASE StartRead
  <2>1. UNCHANGED <<gen, row, tokens>>
    BY <1>15 DEF StartRead, memory, stored
  <2>2. life' = life \/ life # "finish"
    BY <1>15 DEF StartRead, locks
  <2>3. disconnect' = disconnect \/ (disconnect # "resetting" /\ disconnect' # "resetting")
    BY <1>15 DEF StartRead
  <2>4. CASE LinkKept
    BY <2>1, <2>2, <2>3, <2>4, MirroredKept
  <2> QED BY <2>4, LinkedStep, MirroredJumps DEF LinkKeeps
<1>16. CASE StartPlanned
  <2>1. UNCHANGED <<gen, row, tokens>>
    BY <1>16 DEF StartPlanned, memory, stored
  <2>2. life' = life \/ life # "finish"
    BY <1>16 DEF StartPlanned, locks
  <2>3. disconnect' = disconnect \/ (disconnect # "resetting" /\ disconnect' # "resetting")
    BY <1>16 DEF StartPlanned
  <2>4. CASE LinkKept
    BY <2>1, <2>2, <2>3, <2>4, MirroredKept
  <2> QED BY <2>4, LinkedStep, MirroredJumps DEF LinkKeeps
<1>17. CASE RunAgain
  <2>1. UNCHANGED <<gen, row, tokens>>
    BY <1>17 DEF RunAgain, memory, stored
  <2>2. life' = life \/ life # "finish"
    BY <1>17 DEF RunAgain, locks
  <2>3. disconnect' = disconnect \/ (disconnect # "resetting" /\ disconnect' # "resetting")
    BY <1>17 DEF RunAgain
  <2>4. CASE LinkKept
    BY <2>1, <2>2, <2>3, <2>4, MirroredKept
  <2> QED BY <2>4, LinkedStep, MirroredJumps DEF LinkKeeps
<1>18. CASE Token
  <2>1. UNCHANGED <<state, flow, poller, gen, life, disconnect>>
    BY <1>18 DEF Token, memory
  <2>2. LinkKept
    BY <2>1 DEF LinkKept, Linked
  <2>3. row'.gen = row.gen
    BY <1>18 DEF Token, Domains, RowFields
  <2>4. \/ tokens' = tokens /\ row' = row
        \/ tokens'.pair = tokens.pair /\ row'.pair = tokens.pair
        \/ tokens'.unsaved
    BY <1>18 DEF Token, Domains, RowFields, TokenFields
  <2> QED BY <2>1, <2>2, <2>3, <2>4 DEF Mirrored, LinkKept
<1>19. CASE RefreshAnswered
  <2>1. UNCHANGED <<gen, row, tokens>>
    BY <1>19 DEF RefreshAnswered, memory, stored
  <2>2. life' = life \/ life # "finish"
    BY <1>19 DEF RefreshAnswered, locks
  <2>3. disconnect' = disconnect \/ (disconnect # "resetting" /\ disconnect' # "resetting")
    BY <1>19 DEF RefreshAnswered
  <2>4. CASE LinkKept
    BY <2>1, <2>2, <2>3, <2>4, MirroredKept
  <2> QED BY <2>4, LinkedStep, MirroredJumps DEF LinkKeeps
<1>20. CASE RefreshFailed
  <2>1. UNCHANGED <<gen, row, tokens>>
    BY <1>20 DEF RefreshFailed, memory, stored
  <2>2. life' = life \/ life # "finish"
    BY <1>20 DEF RefreshFailed, locks
  <2>3. disconnect' = disconnect \/ (disconnect # "resetting" /\ disconnect' # "resetting")
    BY <1>20 DEF RefreshFailed
  <2>4. CASE LinkKept
    BY <2>1, <2>2, <2>3, <2>4, MirroredKept
  <2> QED BY <2>4, LinkedStep, MirroredJumps DEF LinkKeeps
<1>21. CASE RefreshRefused
  <2>1. UNCHANGED <<gen, row, tokens>>
    BY <1>21 DEF RefreshRefused, memory, stored
  <2>2. life' = life \/ life # "finish"
    BY <1>21 DEF RefreshRefused, locks
  <2>3. disconnect' = disconnect \/ (disconnect # "resetting" /\ disconnect' # "resetting")
    BY <1>21 DEF RefreshRefused
  <2>4. CASE LinkKept
    BY <2>1, <2>2, <2>3, <2>4, MirroredKept
  <2> QED BY <2>4, LinkedStep, MirroredJumps DEF LinkKeeps
<1>22. CASE ReauthStored
  <2>1. UNCHANGED <<state, flow, poller, gen, life, disconnect>>
    BY <1>22 DEF ReauthStored, memory
  <2>2. LinkKept
    BY <2>1 DEF LinkKept, Linked
  <2>3. row'.gen = row.gen /\ row'.pair = row.pair /\ tokens' = tokens
    BY <1>22 DEF ReauthStored, memory, Domains, RowFields
  <2> QED BY <2>1, <2>2, <2>3 DEF Mirrored, LinkKept
<1>23. CASE RefreshSaved
  <2>1. UNCHANGED <<state, flow, poller, gen, life, disconnect>>
    BY <1>23 DEF RefreshSaved, memory
  <2>2. LinkKept
    BY <2>1 DEF LinkKept, Linked
  <2>3. row'.gen = row.gen
    BY <1>23 DEF RefreshSaved, Domains, RowFields
  <2>4. state = "connected" /\ run.tokenGen = gen
    BY <1>23 DEF RefreshSaved, RefreshesOwn
  <2>5. /\ Refreshed(FALSE).pair = run.next /\ Refreshed(TRUE).unsaved
    BY DEF Refreshed, NextTokens
  <2>6. \/ tokens' = tokens /\ row' = row
        \/ tokens' = Refreshed(FALSE) /\ row'.pair = run.next
        \/ tokens' = Refreshed(TRUE)
    BY <1>23, <2>4 DEF RefreshSaved, Domains, RowFields
  <2> QED BY <2>1, <2>2, <2>3, <2>5, <2>6 DEF Mirrored, LinkKept
<1>24. CASE Invalidate
  <2>1. UNCHANGED <<flow, poller, gen, row, life, disconnect>>
    BY <1>24 DEF Invalidate, stored
  <2>2. state' = state \/ (state = "connected" /\ state' = "reauth")
    BY <1>24 DEF Invalidate
  <2>3. tokens'.pair = tokens.pair /\ tokens'.unsaved = tokens.unsaved
    BY <1>24 DEF Invalidate, Domains, TokenFields
  <2>4. LinkKept
    BY <2>1, <2>2 DEF LinkKept, Linked
  <2> QED BY <2>1, <2>3, <2>4 DEF Mirrored, LinkKept
<1>25. CASE RunAnswered
  <2>1. UNCHANGED <<gen, row, tokens>>
    BY <1>25 DEF RunAnswered, memory, stored
  <2>2. life' = life \/ life # "finish"
    BY <1>25 DEF RunAnswered, locks
  <2>3. disconnect' = disconnect \/ (disconnect # "resetting" /\ disconnect' # "resetting")
    BY <1>25 DEF RunAnswered
  <2>4. CASE LinkKept
    BY <2>1, <2>2, <2>3, <2>4, MirroredKept
  <2> QED BY <2>4, LinkedStep, MirroredJumps DEF LinkKeeps
<1>26. CASE RunUnauthorized
  <2>1. UNCHANGED <<gen, row, tokens>>
    BY <1>26 DEF RunUnauthorized, memory, stored
  <2>2. life' = life \/ life # "finish"
    BY <1>26 DEF RunUnauthorized, locks
  <2>3. disconnect' = disconnect \/ (disconnect # "resetting" /\ disconnect' # "resetting")
    BY <1>26 DEF RunUnauthorized
  <2>4. CASE LinkKept
    BY <2>1, <2>2, <2>3, <2>4, MirroredKept
  <2> QED BY <2>4, LinkedStep, MirroredJumps DEF LinkKeeps
<1>27. CASE RunFailed
  <2>1. UNCHANGED <<gen, row, tokens>>
    BY <1>27 DEF RunFailed, memory, stored
  <2>2. life' = life \/ life # "finish"
    BY <1>27 DEF RunFailed, locks
  <2>3. disconnect' = disconnect \/ (disconnect # "resetting" /\ disconnect' # "resetting")
    BY <1>27 DEF RunFailed
  <2>4. CASE LinkKept
    BY <2>1, <2>2, <2>3, <2>4, MirroredKept
  <2> QED BY <2>4, LinkedStep, MirroredJumps DEF LinkKeeps
<1>28. CASE RunCancelled
  <2>1. UNCHANGED <<gen, row, tokens>>
    BY <1>28 DEF RunCancelled, memory, stored
  <2>2. life' = life \/ life # "finish"
    BY <1>28 DEF RunCancelled, locks
  <2>3. disconnect' = disconnect \/ (disconnect # "resetting" /\ disconnect' # "resetting")
    BY <1>28 DEF RunCancelled
  <2>4. CASE LinkKept
    BY <2>1, <2>2, <2>3, <2>4, MirroredKept
  <2> QED BY <2>4, LinkedStep, MirroredJumps DEF LinkKeeps
<1>29. CASE RunWrote
  <2>1. UNCHANGED <<gen, row, tokens>>
    BY <1>29 DEF RunWrote, memory, stored
  <2>2. life' = life \/ life # "finish"
    BY <1>29 DEF RunWrote, locks
  <2>3. disconnect' = disconnect \/ (disconnect # "resetting" /\ disconnect' # "resetting")
    BY <1>29 DEF RunWrote
  <2>4. CASE LinkKept
    BY <2>1, <2>2, <2>3, <2>4, MirroredKept
  <2> QED BY <2>4, LinkedStep, MirroredJumps DEF LinkKeeps
<1>30. CASE RunDone
  <2>1. UNCHANGED <<gen, row, tokens>>
    BY <1>30 DEF RunDone, memory, stored
  <2>2. life' = life \/ life # "finish"
    BY <1>30 DEF RunDone, locks
  <2>3. disconnect' = disconnect \/ (disconnect # "resetting" /\ disconnect' # "resetting")
    BY <1>30 DEF RunDone
  <2>4. CASE LinkKept
    BY <2>1, <2>2, <2>3, <2>4, MirroredKept
  <2> QED BY <2>4, LinkedStep, MirroredJumps DEF LinkKeeps
<1>31. CASE Crash
  BY <1>31, MirroredJumps
<1>32. CASE Withdraw
  <2>1. UNCHANGED <<gen, row, tokens>>
    BY <1>32 DEF Withdraw, memory, stored
  <2>2. life' = life \/ life # "finish"
    BY <1>32 DEF Withdraw, locks
  <2>3. disconnect' = disconnect \/ (disconnect # "resetting" /\ disconnect' # "resetting")
    BY <1>32 DEF Withdraw
  <2>4. CASE LinkKept
    BY <2>1, <2>2, <2>3, <2>4, MirroredKept
  <2> QED BY <2>4, LinkedStep, MirroredJumps DEF LinkKeeps
<1>33. CASE UNCHANGED vars
  BY <1>33 DEF vars, Mirrored, Linked, Domains
<1> QED
  BY <1>1, <1>2, <1>3, <1>4, <1>5, <1>6, <1>7, <1>8, <1>9, <1>10, <1>11, <1>12, <1>13, <1>14,
    <1>15, <1>16, <1>17, <1>18, <1>19, <1>20, <1>21, <1>22, <1>23, <1>24, <1>25, <1>26, <1>27,
    <1>28, <1>29, <1>30, <1>31, <1>32, <1>33 DEF Next

LEMMA DataStep ==
    ASSUME Domains, AccountedState, AccountedRun, Generations, DataIsTheAccounts, [Next]_vars
    PROVE  DataIsTheAccounts'
<1>1. CASE Connect
  BY <1>1 DEF Connect, NoPoller, bounds, locks, stored, syncing, trakt, DataIsTheAccounts,
    AccountedState, AccountedRun, Generations, Domains, RowFields
<1>2. ASSUME NEW f \in Flows, PollApproved(f) PROVE DataIsTheAccounts'
  BY <1>2 DEF PollApproved, CanFail, Fails, Works, locks, memory, stored, syncing,
    DataIsTheAccounts, AccountedState, AccountedRun, Generations, Domains, RowFields
<1>3. ASSUME NEW f \in Flows, PollEnded(f) PROVE DataIsTheAccounts'
  BY <1>3 DEF PollEnded, EndFlow, NoPoller, bounds, locks, stored, syncing, trakt,
    DataIsTheAccounts, AccountedState, AccountedRun, Generations, Domains, RowFields
<1>4. ASSUME NEW f \in Flows, FinishUnread(f) PROVE DataIsTheAccounts'
  BY <1>4 DEF FinishUnread, CanFail, EndFlow, Fails, NoPoller, Revoke, Works, locks, stored,
    syncing, DataIsTheAccounts, AccountedState, AccountedRun, Generations, Domains, RowFields
<1>5. ASSUME NEW f \in Flows, FinishCancelled(f) PROVE DataIsTheAccounts'
  BY <1>5 DEF FinishCancelled, CanFail, Fails, NoPoller, Revoke, Works, locks, memory, stored,
    syncing, DataIsTheAccounts, AccountedState, AccountedRun, Generations, Domains, RowFields
<1>6. ASSUME NEW f \in Flows, FinishStored(f) PROVE DataIsTheAccounts'
  <2> DEFINE p == poller[f].pair
  <2>1. row'.account = owner[p]
    BY <1>6 DEF FinishStored
  <2>2. (data' = data /\ row.account = owner[p]) \/ data' = Purged
    BY <1>6 DEF FinishStored
  <2> QED BY <2>1, <2>2 DEF DataIsTheAccounts, Purged
<1>7. ASSUME NEW f \in Flows, FinishRefused(f) PROVE DataIsTheAccounts'
  BY <1>7 DEF FinishRefused, CanFail, EndFlow, Fails, NoPoller, Works, locks, stored, syncing,
    DataIsTheAccounts, AccountedState, AccountedRun, Generations, Domains, RowFields
<1>8. ASSUME NEW f \in Flows, FinishConnected(f) PROVE DataIsTheAccounts'
  BY <1>8 DEF FinishConnected, NoPoller, NoTokens, bounds, stored, trakt, DataIsTheAccounts,
    AccountedState, AccountedRun, Generations, Domains, RowFields
<1>9. CASE Disconnect
  BY <1>9 DEF Disconnect, DropFlow, bounds, stored, syncing, trakt, DataIsTheAccounts,
    AccountedState, AccountedRun, Generations, Domains, RowFields
<1>10. CASE DisconnectStopSync
  BY <1>10 DEF DisconnectStopSync, NoResume, bounds, locks, memory, stored, trakt,
    DataIsTheAccounts, AccountedState, AccountedRun, Generations, Domains, RowFields
<1>11. CASE DisconnectPurged
  <2>1. (row' = row /\ data' = data) \/ data' = Purged
    BY <1>11 DEF DisconnectPurged, stored
  <2> QED BY <2>1 DEF DataIsTheAccounts, Purged
<1>12. CASE DisconnectReset
  BY <1>12 DEF DisconnectReset, CanFail, Fails, NoTokens, Revoke, Works, syncing,
    DataIsTheAccounts, AccountedState, AccountedRun, Generations, Domains, RowFields
<1>13. CASE TriggerInitial
  BY <1>13 DEF TriggerInitial, NoResume, NoRun, Trigger, bounds, locks, memory, stored, trakt,
    DataIsTheAccounts, AccountedState, AccountedRun, Generations, Domains, RowFields
<1>14. CASE TriggerCheck
  BY <1>14 DEF TriggerCheck, NoResume, NoRun, Trigger, bounds, locks, memory, stored, trakt,
    DataIsTheAccounts, AccountedState, AccountedRun, Generations, Domains, RowFields
<1>15. CASE StartRead
  BY <1>15 DEF StartRead, CanFail, Fails, NoRun, Works, locks, memory, stored, trakt,
    DataIsTheAccounts, AccountedState, AccountedRun, Generations, Domains, RowFields
<1>16. CASE StartPlanned
  BY <1>16 DEF StartPlanned, NoResume, NoRun, Plans, bounds, locks, memory, stored, trakt,
    DataIsTheAccounts, AccountedState, AccountedRun, Generations, Domains, RowFields
<1>17. CASE RunAgain
  BY <1>17 DEF RunAgain, NoRun, bounds, locks, memory, stored, trakt, DataIsTheAccounts,
    AccountedState, AccountedRun, Generations, Domains, RowFields
<1>18. CASE Token
  BY <1>18 DEF Token, AfterToken, CanFail, Current, Fails, Finish, NoResume, NoRun, Works, trakt,
    DataIsTheAccounts, AccountedState, AccountedRun, Generations, Domains, RowFields
<1>19. CASE RefreshAnswered
  BY <1>19 DEF RefreshAnswered, Rotated, bounds, locks, memory, stored, DataIsTheAccounts,
    AccountedState, AccountedRun, Generations, Domains, RowFields
<1>20. CASE RefreshFailed
  BY <1>20 DEF RefreshFailed, AfterToken, CanFail, Fails, Finish, Handed, NoResume, NoRun,
    Rotated, memory, stored, trakt, DataIsTheAccounts, AccountedState, AccountedRun, Generations,
    Domains, RowFields
<1>21. CASE RefreshRefused
  BY <1>21 DEF RefreshRefused, Finish, NoResume, NoRun, bounds, stored, trakt, DataIsTheAccounts,
    AccountedState, AccountedRun, Generations, Domains, RowFields
<1>22. CASE ReauthStored
  BY <1>22 DEF ReauthStored, CanFail, Current, Fails, Finish, NoResume, NoRun, Works, memory,
    trakt, DataIsTheAccounts, AccountedState, AccountedRun, Generations, Domains, RowFields
<1>23. CASE RefreshSaved
  BY <1>23 DEF RefreshSaved, AfterToken, CanFail, Current, Fails, Finish, Handed, NextTokens,
    NoResume, NoRun, Refreshed, Retried, Works, trakt, DataIsTheAccounts, AccountedState,
    AccountedRun, Generations, Domains, RowFields
<1>24. CASE Invalidate
  BY <1>24 DEF Invalidate, Finish, NoResume, NoRun, Retried, bounds, stored, trakt,
    DataIsTheAccounts, AccountedState, AccountedRun, Generations, Domains, RowFields
<1>25. CASE RunAnswered
  BY <1>25 DEF RunAnswered, bounds, locks, memory, stored, trakt, DataIsTheAccounts,
    AccountedState, AccountedRun, Generations, Domains, RowFields
<1>26. CASE RunUnauthorized
  BY <1>26 DEF RunUnauthorized, CanFail, Fails, locks, memory, stored, DataIsTheAccounts,
    AccountedState, AccountedRun, Generations, Domains, RowFields
<1>27. CASE RunFailed
  BY <1>27 DEF RunFailed, CanFail, Fails, Finish, NoResume, NoRun, locks, memory, stored, trakt,
    DataIsTheAccounts, AccountedState, AccountedRun, Generations, Domains, RowFields
<1>28. CASE RunCancelled
  BY <1>28 DEF RunCancelled, Finish, NoResume, NoRun, bounds, locks, memory, stored, trakt,
    DataIsTheAccounts, AccountedState, AccountedRun, Generations, Domains, RowFields
<1>29. CASE RunWrote
  BY <1>29 DEF RunWrote, Current, Finish, NoResume, NoRun, bounds, locks, memory, trakt,
    DataIsTheAccounts, AccountedState, AccountedRun, Generations, Domains, RowFields
<1>30. CASE RunDone
  BY <1>30 DEF RunDone, Current, Finish, NoResume, NoRun, bounds, locks, memory, trakt,
    DataIsTheAccounts, AccountedState, AccountedRun, Generations, Domains, RowFields
<1>31. CASE Crash
  BY <1>31 DEF Crash, NoPoller, NoResume, NoRow, NoRun, NoSync, NoTokens, stored,
    DataIsTheAccounts, AccountedState, AccountedRun, Generations, Domains, RowFields
<1>32. CASE Withdraw
  BY <1>32 DEF Withdraw, CanFail, Fails, locks, memory, stored, syncing, DataIsTheAccounts,
    AccountedState, AccountedRun, Generations, Domains, RowFields
<1>33. CASE UNCHANGED vars
  BY <1>33 DEF vars, DataIsTheAccounts, AccountedState, AccountedRun, Generations, Domains,
    RowFields
<1> QED
  BY <1>1, <1>2, <1>3, <1>4, <1>5, <1>6, <1>7, <1>8, <1>9, <1>10, <1>11, <1>12, <1>13, <1>14,
    <1>15, <1>16, <1>17, <1>18, <1>19, <1>20, <1>21, <1>22, <1>23, <1>24, <1>25, <1>26, <1>27,
    <1>28, <1>29, <1>30, <1>31, <1>32, <1>33 DEF Next

LEMMA InitInv == Init => IInv
<1> SUFFICES ASSUME Init PROVE IInv
  OBVIOUS
<1>1. \A f \in Flows : poller[f] = NoPoller
  BY DEF Init
<1>2. Domains
  BY <1>1 DEF Init, Domains, NoRow, NoTokens, NoPoller, NoRun, RowFields, TokenFields, PollerFields,
    RunFields
<1>3. Ranges /\ PollersRange
  BY <1>1 DEF Init, Ranges, PollersRange, NoTokens, NoPoller
<1>4. LiveOut /\ StateOut /\ RunOut /\ PollersOut
  BY <1>1 DEF Init, LiveOut, StateOut, RunOut, PollersOut, Out, NoRow, NoTokens, NoPoller, NoRun
<1>5. Locks /\ RefreshLock /\ Codes /\ Storing
  BY <1>1 DEF Init, Locks, RefreshLock, Refreshing, Codes, Storing, NoPoller, NoRun
<1>6. Fresh /\ Generations /\ RefreshesOwn /\ ConnectedSince
  BY <1>1 DEF Init, Fresh, Generations, RefreshesOwn, ConnectedSince, NoPoller, NoRun
<1>7. AccountedState /\ AccountedRun
  BY DEF Init, AccountedState, AccountedRun, NoRow, NoTokens, NoRun
<1>8. ~Linked /\ row.gen = 0 /\ row.pair = 0 /\ tokens.pair = 0
  BY DEF Init, Linked, NoRow, NoTokens
<1>9. Mirrored
  BY <1>8 DEF Init, Mirrored
<1>10. DataIsTheAccounts
  <2>0. 1 \in 0..1
    OBVIOUS
  <2>1. data = [s \in 0..1 |-> {}]
    BY DEF Init
  <2>2. data[1] = {}
    BY <2>0, <2>1
  <2> QED BY <2>2 DEF DataIsTheAccounts
<1> QED BY <1>2, <1>3, <1>4, <1>5, <1>6, <1>7, <1>9, <1>10 DEF IInv

LEMMA NextInv == IInv /\ [Next]_vars => IInv'
<1> SUFFICES ASSUME IInv, [Next]_vars PROVE IInv'
  OBVIOUS
<1>1. Domains' /\ Ranges' /\ PollersRange'
  BY DomainsStep, RangesStep, PollersRangeStep DEF IInv
<1>2. LiveOut' /\ StateOut' /\ RunOut' /\ PollersOut'
  <2>1. flow \in Flows \cup {0}
    BY DEF IInv, Ranges
  <2> QED BY <2>1, LiveOutStep, StateOutStep, RunOutStep, PollersOutStep DEF IInv
<1>3. Locks' /\ RefreshLock' /\ Codes' /\ Storing'
  BY LocksStep, RefreshLockStep, CodesStep, StoringStep DEF IInv
<1>4. Fresh' /\ Generations' /\ RefreshesOwn' /\ ConnectedSince'
  BY FreshStep, GenerationsStep, RefreshesOwnStep, ConnectedSinceStep DEF IInv
<1>5. AccountedState' /\ AccountedRun' /\ Mirrored' /\ DataIsTheAccounts'
  BY AccountedStateStep, AccountedRunStep, MirroredStep, DataStep DEF IInv
<1> QED BY <1>1, <1>2, <1>3, <1>4, <1>5 DEF IInv

LEMMA Inductive == Spec => []IInv
BY InitInv, NextInv, PTL DEF Spec

(* Whatever sync still runs, nothing of one account lands under another or *)
(* after a disconnect (TraktSyncStore.write, TraktAuthRepository.Connect,  *)
(* Purge).                                                                 *)
THEOREM RowsAreTheAccounts == Spec => []DataIsTheAccounts
<1>1. IInv => DataIsTheAccounts
  BY DEF IInv
<1> QED BY <1>1, Inductive, PTL

(* With no connect, disconnect or refresh under way, memory and database   *)
(* name the same connection and pair (finishConnect, disconnect,           *)
(* refreshAndSave, setReauth, Load).                                       *)
THEOREM MemoryMatches == Spec => []MemoryIsStored
<1>1. IInv => MemoryIsStored
  <2> SUFFICES ASSUME IInv, life = "", refreshMu = ""
               PROVE  /\ Linked <=> row # NoRow
                      /\ gen = row.gen
                      /\ tokens.unsaved \/ tokens.pair = row.pair
    BY DEF MemoryIsStored
  <2>1. disconnect # "resetting"
    BY DEF IInv, Locks
  <2>2. row # NoRow <=> row.gen # 0
    <3>1. row.gen = 0 => row = NoRow
      BY DEF IInv, AccountedState
    <3>2. NoRow.gen = 0
      BY DEF NoRow
    <3> QED BY <3>1, <3>2
  <2> QED BY <2>1, <2>2 DEF IInv, Mirrored
<1> QED BY <1>1, Inductive, PTL

(***************************************************************************)
(* Grants: who holds a pair Trakt still accepts                            *)
(***************************************************************************)
\* Trakt accepts a pair anew only when it hands it out, and what is lost stays so.
Shrinks == lost \subseteq lost' /\ \A p \in live' : p \in live \/ (Unused # {} /\ p = NextPair)
\* Nobody has to hold the pair any more.
Dead(p) == p \notin live \/ p \in lost

LEMMA ShrinksStep ==
    ASSUME Domains, [Next]_vars
    PROVE  Shrinks
<1>1. CASE Connect
  BY <1>1 DEF Connect, NoPoller, bounds, locks, stored, syncing, trakt, Shrinks, Domains,
    RowFields, TokenFields, PollerFields, RunFields
<1>2. ASSUME NEW f \in Flows, PollApproved(f) PROVE Shrinks
  BY <1>2 DEF PollApproved, CanFail, Fails, Works, locks, memory, stored, syncing, Shrinks,
    Domains, RowFields, TokenFields, PollerFields, RunFields
<1>3. ASSUME NEW f \in Flows, PollEnded(f) PROVE Shrinks
  BY <1>3 DEF PollEnded, EndFlow, NoPoller, bounds, locks, stored, syncing, trakt, Shrinks,
    Domains, RowFields, TokenFields, PollerFields, RunFields
<1>4. ASSUME NEW f \in Flows, FinishUnread(f) PROVE Shrinks
  BY <1>4 DEF FinishUnread, CanFail, EndFlow, Fails, NoPoller, Revoke, Works, locks, stored,
    syncing, Shrinks, Domains, RowFields, TokenFields, PollerFields, RunFields
<1>5. ASSUME NEW f \in Flows, FinishCancelled(f) PROVE Shrinks
  BY <1>5 DEF FinishCancelled, CanFail, Fails, NoPoller, Revoke, Works, locks, memory, stored,
    syncing, Shrinks, Domains, RowFields, TokenFields, PollerFields, RunFields
<1>6. ASSUME NEW f \in Flows, FinishStored(f) PROVE Shrinks
  BY <1>6 DEF FinishStored, Purged, bounds, memory, stored, syncing, Shrinks, Domains, RowFields,
    TokenFields, PollerFields, RunFields
<1>7. ASSUME NEW f \in Flows, FinishRefused(f) PROVE Shrinks
  BY <1>7 DEF FinishRefused, CanFail, EndFlow, Fails, NoPoller, Works, locks, stored, syncing,
    Shrinks, Domains, RowFields, TokenFields, PollerFields, RunFields
<1>8. ASSUME NEW f \in Flows, FinishConnected(f) PROVE Shrinks
  BY <1>8 DEF FinishConnected, NoPoller, NoTokens, bounds, stored, trakt, Shrinks, Domains,
    RowFields, TokenFields, PollerFields, RunFields
<1>9. CASE Disconnect
  BY <1>9 DEF Disconnect, DropFlow, bounds, stored, syncing, trakt, Shrinks, Domains, RowFields,
    TokenFields, PollerFields, RunFields
<1>10. CASE DisconnectStopSync
  BY <1>10 DEF DisconnectStopSync, NoResume, bounds, locks, memory, stored, trakt, Shrinks,
    Domains, RowFields, TokenFields, PollerFields, RunFields
<1>11. CASE DisconnectPurged
  BY <1>11 DEF DisconnectPurged, CanFail, Fails, NoRow, Purged, Works, memory, stored, syncing,
    trakt, Shrinks, Domains, RowFields, TokenFields, PollerFields, RunFields
<1>12. CASE DisconnectReset
  BY <1>12 DEF DisconnectReset, CanFail, Fails, NoTokens, Revoke, Works, syncing, Shrinks,
    Domains, RowFields, TokenFields, PollerFields, RunFields
<1>13. CASE TriggerInitial
  BY <1>13 DEF TriggerInitial, NoResume, NoRun, Trigger, bounds, locks, memory, stored, trakt,
    Shrinks, Domains, RowFields, TokenFields, PollerFields, RunFields
<1>14. CASE TriggerCheck
  BY <1>14 DEF TriggerCheck, NoResume, NoRun, Trigger, bounds, locks, memory, stored, trakt,
    Shrinks, Domains, RowFields, TokenFields, PollerFields, RunFields
<1>15. CASE StartRead
  BY <1>15 DEF StartRead, CanFail, Fails, NoRun, Works, locks, memory, stored, trakt, Shrinks,
    Domains, RowFields, TokenFields, PollerFields, RunFields
<1>16. CASE StartPlanned
  BY <1>16 DEF StartPlanned, NoResume, NoRun, Plans, bounds, locks, memory, stored, trakt,
    Shrinks, Domains, RowFields, TokenFields, PollerFields, RunFields
<1>17. CASE RunAgain
  BY <1>17 DEF RunAgain, NoRun, bounds, locks, memory, stored, trakt, Shrinks, Domains, RowFields,
    TokenFields, PollerFields, RunFields
<1>18. CASE Token
  BY <1>18 DEF Token, AfterToken, CanFail, Current, Fails, Finish, NoResume, NoRun, Works, trakt,
    Shrinks, Domains, RowFields, TokenFields, PollerFields, RunFields
<1>19. CASE RefreshAnswered
  BY <1>19 DEF RefreshAnswered, Rotated, bounds, locks, memory, stored, Shrinks, Domains,
    RowFields, TokenFields, PollerFields, RunFields
<1>20. CASE RefreshFailed
  BY <1>20 DEF RefreshFailed, AfterToken, CanFail, Fails, Finish, Handed, NoResume, NoRun,
    Rotated, memory, stored, trakt, Shrinks, Domains, RowFields, TokenFields, PollerFields,
    RunFields
<1>21. CASE RefreshRefused
  BY <1>21 DEF RefreshRefused, Finish, NoResume, NoRun, bounds, stored, trakt, Shrinks, Domains,
    RowFields, TokenFields, PollerFields, RunFields
<1>22. CASE ReauthStored
  BY <1>22 DEF ReauthStored, CanFail, Current, Fails, Finish, NoResume, NoRun, Works, memory,
    trakt, Shrinks, Domains, RowFields, TokenFields, PollerFields, RunFields
<1>23. CASE RefreshSaved
  BY <1>23 DEF RefreshSaved, AfterToken, CanFail, Current, Fails, Finish, Handed, NextTokens,
    NoResume, NoRun, Refreshed, Retried, Works, trakt, Shrinks, Domains, RowFields, TokenFields,
    PollerFields, RunFields
<1>24. CASE Invalidate
  BY <1>24 DEF Invalidate, Finish, NoResume, NoRun, Retried, bounds, stored, trakt, Shrinks,
    Domains, RowFields, TokenFields, PollerFields, RunFields
<1>25. CASE RunAnswered
  BY <1>25 DEF RunAnswered, bounds, locks, memory, stored, trakt, Shrinks, Domains, RowFields,
    TokenFields, PollerFields, RunFields
<1>26. CASE RunUnauthorized
  BY <1>26 DEF RunUnauthorized, CanFail, Fails, locks, memory, stored, Shrinks, Domains,
    RowFields, TokenFields, PollerFields, RunFields
<1>27. CASE RunFailed
  BY <1>27 DEF RunFailed, CanFail, Fails, Finish, NoResume, NoRun, locks, memory, stored, trakt,
    Shrinks, Domains, RowFields, TokenFields, PollerFields, RunFields
<1>28. CASE RunCancelled
  BY <1>28 DEF RunCancelled, Finish, NoResume, NoRun, bounds, locks, memory, stored, trakt,
    Shrinks, Domains, RowFields, TokenFields, PollerFields, RunFields
<1>29. CASE RunWrote
  BY <1>29 DEF RunWrote, Current, Finish, NoResume, NoRun, bounds, locks, memory, trakt, Shrinks,
    Domains, RowFields, TokenFields, PollerFields, RunFields
<1>30. CASE RunDone
  BY <1>30 DEF RunDone, Current, Finish, NoResume, NoRun, bounds, locks, memory, trakt, Shrinks,
    Domains, RowFields, TokenFields, PollerFields, RunFields
<1>31. CASE Crash
  BY <1>31 DEF Crash, NoPoller, NoResume, NoRow, NoRun, NoSync, NoTokens, stored, Shrinks,
    Domains, RowFields, TokenFields, PollerFields, RunFields
<1>32. CASE Withdraw
  BY <1>32 DEF Withdraw, CanFail, Fails, locks, memory, stored, syncing, Shrinks, Domains,
    RowFields, TokenFields, PollerFields, RunFields
<1>33. CASE UNCHANGED vars
  BY <1>33 DEF vars, Shrinks, Domains, RowFields, TokenFields, PollerFields, RunFields
<1> QED
  BY <1>1, <1>2, <1>3, <1>4, <1>5, <1>6, <1>7, <1>8, <1>9, <1>10, <1>11, <1>12, <1>13, <1>14,
    <1>15, <1>16, <1>17, <1>18, <1>19, <1>20, <1>21, <1>22, <1>23, <1>24, <1>25, <1>26, <1>27,
    <1>28, <1>29, <1>30, <1>31, <1>32, <1>33 DEF Next

LEMMA DeadStays ==
    ASSUME Domains, LiveOut, Shrinks, NEW p, Dead(p), Out(p)
    PROVE  p \notin live' \/ p \in lost'
<1>1. CASE p = 0
  BY <1>1, NewPair DEF Shrinks, LiveOut, Dead
<1>2. CASE p # 0
  BY <1>2, NewPair DEF Shrinks, Dead, Out
<1> QED BY <1>1, <1>2

\* A pair that was replaced is dead: memory and row name the same pair, or the row's is
\* dead; away from a connection both are.
DeadRow ==
  /\ row.pair = tokens.pair \/ Dead(row.pair) \/ life = "finish"
  /\ state # "connected" => Dead(tokens.pair)
  /\ state # "connected" /\ life # "finish" => Dead(row.pair)
\* Reauth is asked for a connection only once it is not connected.
AsksAgain ==
  /\ row.reauth => state # "connected" /\ life # "finish"
  /\ run.pc = "reauth" /\ Current(run.tokenGen) => state # "connected" /\ life # "finish"
\* A refresh trades the memory's pair, and once it has, that pair is dead.
RunPair ==
  /\ run.pc \in {"refresh", "saving"} => run.token = tokens.pair
  /\ run.pc \in {"saving", "invalid"} => Dead(run.token)
\* A poller holds no pair before the user approves; one whose answer was lost is lost.
PollerPairs ==
  \A f \in Flows : /\ poller[f].pc = "none" => poller[f].pair = 0
                   /\ poller[f].pc = "polling" => Dead(poller[f].pair)

LEMMA RunPairKept ==
    ASSUME Domains, LiveOut, RunOut, RefreshLock, RunPair, RunMoves, Shrinks,
           tokens'.pair = tokens.pair \/ run'.pc \notin {"refresh", "saving"}
    PROVE  RunPair'
<1>1. Dead(run.token) => run.token \notin live' \/ run.token \in lost'
  BY DeadStays DEF RunOut
<1>2. CASE run' = run
  BY <1>1, <1>2 DEF RunPair, Dead
<1>3. CASE Goes
  BY <1>3 DEF Goes, RunPair
<1>4. CASE MovesOn
  <2>1. CASE Next1("asking", "invalid") /\ RunUnauthorized
    <3>1. run'.pc = "invalid" /\ run'.token = run.token
      BY <2>1 DEF Next1, To, SameToken
    <3>2. run.token \notin live' \/ run.token \in lost'
      BY <1>1, <2>1 DEF RunUnauthorized, Dead
    <3> QED BY <3>1, <3>2 DEF RunPair, Dead
  <2>2. CASE Answered
    <3>1. run.pc = "refresh" /\ run'.pc = "saving" /\ run'.token = run.token /\ run.token # NextPair
      BY <2>2, NewPair DEF Answered, To, SameToken, RunOut, Out
    <3>2. run.token \notin live'
      BY <2>2, <3>1 DEF Answered, RefreshAnswered, Rotated
    <3> QED BY <3>1, <3>2 DEF RunPair, Dead
  <2>3. CASE MovesOn /\ ~Answered /\ ~(Next1("asking", "invalid") /\ RunUnauthorized)
    <3>1. run'.pc \in {"refresh", "saving"} => run'.token = tokens.pair
      BY <2>3 DEF RunPair, MovesOn, Stays, Next1, Refreshes, RefreshesRejected, Starts, Asks,
       HandedStarts, HandedAsks, Retries, Gets, Writes, SameToken, TakesToken, To
    <3>2. CASE Stays
      BY <1>1, <3>1, <3>2 DEF Stays, To, SameToken, RunPair, Dead
    <3>3. CASE run'.pc \notin {"saving", "invalid"}
      BY <3>1, <3>3 DEF RunPair
    <3>4. Stays \/ run'.pc \notin {"saving", "invalid"}
      BY <2>3 DEF MovesOn, Next1, Refreshes, RefreshesRejected, Starts, Asks,
       HandedStarts, HandedAsks, Retries, Gets, Writes, To
    <3> QED BY <3>2, <3>3, <3>4
  <2> QED BY <1>4, <2>1, <2>2, <2>3
<1> QED BY <1>2, <1>3, <1>4 DEF RunMoves

\* The memory's pair changes only while no refresh is under way.
TokenPair == tokens'.pair = tokens.pair \/ run'.pc \notin {"refresh", "saving"}

LEMMA TokenPairStep ==
    ASSUME Domains, Ranges, Locks, RefreshLock, Codes, Storing, RefreshesOwn, [Next]_vars
    PROVE  TokenPair
<1>1. CASE Connect
  BY <1>1, FlowsNonzero DEF Connect, NoPoller, bounds, locks, stored, syncing, trakt, TokenPair,
    Locks, RefreshLock, Refreshing, Codes, Storing, RefreshesOwn, Domains, RowFields, TokenFields,
    PollerFields, RunFields
<1>2. ASSUME NEW f \in Flows, PollApproved(f) PROVE TokenPair
  BY <1>2, FlowsNonzero DEF PollApproved, CanFail, Fails, Works, locks, memory, stored, syncing,
    TokenPair, Locks, RefreshLock, Refreshing, Codes, Storing, RefreshesOwn, Domains, RowFields,
    TokenFields, PollerFields, RunFields
<1>3. ASSUME NEW f \in Flows, PollEnded(f) PROVE TokenPair
  BY <1>3, FlowsNonzero DEF PollEnded, EndFlow, NoPoller, bounds, locks, stored, syncing, trakt,
    TokenPair, Locks, RefreshLock, Refreshing, Codes, Storing, RefreshesOwn, Domains, RowFields,
    TokenFields, PollerFields, RunFields
<1>4. ASSUME NEW f \in Flows, FinishUnread(f) PROVE TokenPair
  BY <1>4, FlowsNonzero DEF FinishUnread, CanFail, EndFlow, Fails, NoPoller, Revoke, Works, locks,
    stored, syncing, TokenPair, Locks, RefreshLock, Refreshing, Codes, Storing, RefreshesOwn,
    Domains, RowFields, TokenFields, PollerFields, RunFields
<1>5. ASSUME NEW f \in Flows, FinishCancelled(f) PROVE TokenPair
  BY <1>5, FlowsNonzero DEF FinishCancelled, CanFail, Fails, NoPoller, Revoke, Works, locks,
    memory, stored, syncing, TokenPair, Locks, RefreshLock, Refreshing, Codes, Storing,
    RefreshesOwn, Domains, RowFields, TokenFields, PollerFields, RunFields
<1>6. ASSUME NEW f \in Flows, FinishStored(f) PROVE TokenPair
  BY <1>6, FlowsNonzero DEF FinishStored, Purged, bounds, memory, stored, syncing, TokenPair,
    Locks, RefreshLock, Refreshing, Codes, Storing, RefreshesOwn, Domains, RowFields, TokenFields,
    PollerFields, RunFields
<1>7. ASSUME NEW f \in Flows, FinishRefused(f) PROVE TokenPair
  BY <1>7, FlowsNonzero DEF FinishRefused, CanFail, EndFlow, Fails, NoPoller, Works, locks,
    stored, syncing, TokenPair, Locks, RefreshLock, Refreshing, Codes, Storing, RefreshesOwn,
    Domains, RowFields, TokenFields, PollerFields, RunFields
<1>8. ASSUME NEW f \in Flows, FinishConnected(f) PROVE TokenPair
  BY <1>8, FlowsNonzero DEF FinishConnected, NoPoller, NoTokens, bounds, stored, trakt, TokenPair,
    Locks, RefreshLock, Refreshing, Codes, Storing, RefreshesOwn, Domains, RowFields, TokenFields,
    PollerFields, RunFields
<1>9. CASE Disconnect
  BY <1>9, FlowsNonzero DEF Disconnect, DropFlow, bounds, stored, syncing, trakt, TokenPair,
    Locks, RefreshLock, Refreshing, Codes, Storing, RefreshesOwn, Domains, RowFields, TokenFields,
    PollerFields, RunFields
<1>10. CASE DisconnectStopSync
  BY <1>10, FlowsNonzero DEF DisconnectStopSync, NoResume, bounds, locks, memory, stored, trakt,
    TokenPair, Locks, RefreshLock, Refreshing, Codes, Storing, RefreshesOwn, Domains, RowFields,
    TokenFields, PollerFields, RunFields
<1>11. CASE DisconnectPurged
  BY <1>11, FlowsNonzero DEF DisconnectPurged, CanFail, Fails, NoRow, Purged, Works, memory,
    stored, syncing, trakt, TokenPair, Locks, RefreshLock, Refreshing, Codes, Storing,
    RefreshesOwn, Domains, RowFields, TokenFields, PollerFields, RunFields
<1>12. CASE DisconnectReset
  BY <1>12, FlowsNonzero DEF DisconnectReset, CanFail, Fails, NoTokens, Revoke, Works, syncing,
    TokenPair, Locks, RefreshLock, Refreshing, Codes, Storing, RefreshesOwn, Domains, RowFields,
    TokenFields, PollerFields, RunFields
<1>13. CASE TriggerInitial
  BY <1>13, FlowsNonzero DEF TriggerInitial, NoResume, NoRun, Trigger, bounds, locks, memory,
    stored, trakt, TokenPair, Locks, RefreshLock, Refreshing, Codes, Storing, RefreshesOwn,
    Domains, RowFields, TokenFields, PollerFields, RunFields
<1>14. CASE TriggerCheck
  BY <1>14, FlowsNonzero DEF TriggerCheck, NoResume, NoRun, Trigger, bounds, locks, memory,
    stored, trakt, TokenPair, Locks, RefreshLock, Refreshing, Codes, Storing, RefreshesOwn,
    Domains, RowFields, TokenFields, PollerFields, RunFields
<1>15. CASE StartRead
  BY <1>15, FlowsNonzero DEF StartRead, CanFail, Fails, NoRun, Works, locks, memory, stored,
    trakt, TokenPair, Locks, RefreshLock, Refreshing, Codes, Storing, RefreshesOwn, Domains,
    RowFields, TokenFields, PollerFields, RunFields
<1>16. CASE StartPlanned
  BY <1>16, FlowsNonzero DEF StartPlanned, NoResume, NoRun, Plans, bounds, locks, memory, stored,
    trakt, TokenPair, Locks, RefreshLock, Refreshing, Codes, Storing, RefreshesOwn, Domains,
    RowFields, TokenFields, PollerFields, RunFields
<1>17. CASE RunAgain
  BY <1>17, FlowsNonzero DEF RunAgain, NoRun, bounds, locks, memory, stored, trakt, TokenPair,
    Locks, RefreshLock, Refreshing, Codes, Storing, RefreshesOwn, Domains, RowFields, TokenFields,
    PollerFields, RunFields
<1>18. CASE Token
  BY <1>18, FlowsNonzero DEF Token, AfterToken, CanFail, Current, Fails, Finish, NoResume, NoRun,
    Works, trakt, TokenPair, Locks, RefreshLock, Refreshing, Codes, Storing, RefreshesOwn,
    Domains, RowFields, TokenFields, PollerFields, RunFields
<1>19. CASE RefreshAnswered
  BY <1>19, FlowsNonzero DEF RefreshAnswered, Rotated, bounds, locks, memory, stored, TokenPair,
    Locks, RefreshLock, Refreshing, Codes, Storing, RefreshesOwn, Domains, RowFields, TokenFields,
    PollerFields, RunFields
<1>20. CASE RefreshFailed
  BY <1>20, FlowsNonzero DEF RefreshFailed, AfterToken, CanFail, Fails, Finish, Handed, NoResume,
    NoRun, Rotated, memory, stored, trakt, TokenPair, Locks, RefreshLock, Refreshing, Codes,
    Storing, RefreshesOwn, Domains, RowFields, TokenFields, PollerFields, RunFields
<1>21. CASE RefreshRefused
  BY <1>21, FlowsNonzero DEF RefreshRefused, Finish, NoResume, NoRun, bounds, stored, trakt,
    TokenPair, Locks, RefreshLock, Refreshing, Codes, Storing, RefreshesOwn, Domains, RowFields,
    TokenFields, PollerFields, RunFields
<1>22. CASE ReauthStored
  BY <1>22, FlowsNonzero DEF ReauthStored, CanFail, Current, Fails, Finish, NoResume, NoRun,
    Works, memory, trakt, TokenPair, Locks, RefreshLock, Refreshing, Codes, Storing, RefreshesOwn,
    Domains, RowFields, TokenFields, PollerFields, RunFields
<1>23. CASE RefreshSaved
  <2>1. run.pc = "saving"
    BY <1>23 DEF RefreshSaved
  <2>2. CASE \E outcome : Finish(outcome)
    BY <2>2, FinishGoes DEF Goes, TokenPair
  <2>3. CASE run.back = "invalid" /\ Retried
    BY <2>1, <2>3, RetriedMoves DEF Goes, Retries, To, TokenPair
  <2>4. CASE run' = Handed(run.next)
    BY <2>1, <2>4, HandedMoves DEF HandedStarts, HandedAsks, To, TokenPair
  <2> QED BY <1>23, <2>2, <2>3, <2>4 DEF RefreshSaved
<1>24. CASE Invalidate
  BY <1>24, FlowsNonzero DEF Invalidate, Finish, NoResume, NoRun, Retried, bounds, stored, trakt,
    TokenPair, Locks, RefreshLock, Refreshing, Codes, Storing, RefreshesOwn, Domains, RowFields,
    TokenFields, PollerFields, RunFields
<1>25. CASE RunAnswered
  BY <1>25, FlowsNonzero DEF RunAnswered, bounds, locks, memory, stored, trakt, TokenPair, Locks,
    RefreshLock, Refreshing, Codes, Storing, RefreshesOwn, Domains, RowFields, TokenFields,
    PollerFields, RunFields
<1>26. CASE RunUnauthorized
  BY <1>26, FlowsNonzero DEF RunUnauthorized, CanFail, Fails, locks, memory, stored, TokenPair,
    Locks, RefreshLock, Refreshing, Codes, Storing, RefreshesOwn, Domains, RowFields, TokenFields,
    PollerFields, RunFields
<1>27. CASE RunFailed
  BY <1>27, FlowsNonzero DEF RunFailed, CanFail, Fails, Finish, NoResume, NoRun, locks, memory,
    stored, trakt, TokenPair, Locks, RefreshLock, Refreshing, Codes, Storing, RefreshesOwn,
    Domains, RowFields, TokenFields, PollerFields, RunFields
<1>28. CASE RunCancelled
  BY <1>28, FlowsNonzero DEF RunCancelled, Finish, NoResume, NoRun, bounds, locks, memory, stored,
    trakt, TokenPair, Locks, RefreshLock, Refreshing, Codes, Storing, RefreshesOwn, Domains,
    RowFields, TokenFields, PollerFields, RunFields
<1>29. CASE RunWrote
  BY <1>29, FlowsNonzero DEF RunWrote, Current, Finish, NoResume, NoRun, bounds, locks, memory,
    trakt, TokenPair, Locks, RefreshLock, Refreshing, Codes, Storing, RefreshesOwn, Domains,
    RowFields, TokenFields, PollerFields, RunFields
<1>30. CASE RunDone
  BY <1>30, FlowsNonzero DEF RunDone, Current, Finish, NoResume, NoRun, bounds, locks, memory,
    trakt, TokenPair, Locks, RefreshLock, Refreshing, Codes, Storing, RefreshesOwn, Domains,
    RowFields, TokenFields, PollerFields, RunFields
<1>31. CASE Crash
  BY <1>31, FlowsNonzero DEF Crash, NoPoller, NoResume, NoRow, NoRun, NoSync, NoTokens, stored,
    TokenPair, Locks, RefreshLock, Refreshing, Codes, Storing, RefreshesOwn, Domains, RowFields,
    TokenFields, PollerFields, RunFields
<1>32. CASE Withdraw
  BY <1>32, FlowsNonzero DEF Withdraw, CanFail, Fails, locks, memory, stored, syncing, TokenPair,
    Locks, RefreshLock, Refreshing, Codes, Storing, RefreshesOwn, Domains, RowFields, TokenFields,
    PollerFields, RunFields
<1>33. CASE UNCHANGED vars
  BY <1>33 DEF vars, TokenPair, Locks, RefreshLock, Refreshing, Codes, Storing, RefreshesOwn,
    Domains, RowFields, TokenFields, PollerFields, RunFields
<1> QED
  BY <1>1, <1>2, <1>3, <1>4, <1>5, <1>6, <1>7, <1>8, <1>9, <1>10, <1>11, <1>12, <1>13, <1>14,
    <1>15, <1>16, <1>17, <1>18, <1>19, <1>20, <1>21, <1>22, <1>23, <1>24, <1>25, <1>26, <1>27,
    <1>28, <1>29, <1>30, <1>31, <1>32, <1>33 DEF Next

\* Who enters a connection, stores one and asks for a new one.
Joins ==
  /\ state' = "connected" => state = "connected" \/ (\E f \in Flows : FinishConnected(f)) \/ Crash
  /\ life' = "finish" => life = "finish" \/ \E f \in Flows : FinishStored(f)
  /\ row'.reauth =>
       row.reauth \/ (run.pc = "reauth" /\ row.gen = run.tokenGen /\ state' = state /\ life' = life)
ReauthComes ==
  run'.pc = "reauth" => \/ run.pc = "reauth" /\ run'.tokenGen = run.tokenGen
                        \/ state = "connected" /\ state' = "reauth" /\ life' = life

LEMMA JoinsStep ==
    ASSUME Domains, Ranges, PollersRange, [Next]_vars
    PROVE  Joins
<1>1. CASE Connect
  BY <1>1, FlowsNonzero DEF Connect, NoPoller, bounds, locks, stored, syncing, trakt, Joins,
    Domains, Ranges, PollersRange, RowFields, TokenFields, PollerFields, RunFields
<1>2. ASSUME NEW f \in Flows, PollApproved(f) PROVE Joins
  BY <1>2, FlowsNonzero DEF PollApproved, CanFail, Fails, Works, locks, memory, stored, syncing,
    Joins, Domains, Ranges, PollersRange, RowFields, TokenFields, PollerFields, RunFields
<1>3. ASSUME NEW f \in Flows, PollEnded(f) PROVE Joins
  BY <1>3, FlowsNonzero DEF PollEnded, EndFlow, NoPoller, bounds, locks, stored, syncing, trakt,
    Joins, Domains, Ranges, PollersRange, RowFields, TokenFields, PollerFields, RunFields
<1>4. ASSUME NEW f \in Flows, FinishUnread(f) PROVE Joins
  BY <1>4, FlowsNonzero DEF FinishUnread, CanFail, EndFlow, Fails, NoPoller, Revoke, Works, locks,
    stored, syncing, Joins, Domains, Ranges, PollersRange, RowFields, TokenFields, PollerFields,
    RunFields
<1>5. ASSUME NEW f \in Flows, FinishCancelled(f) PROVE Joins
  BY <1>5, FlowsNonzero DEF FinishCancelled, CanFail, Fails, NoPoller, Revoke, Works, locks,
    memory, stored, syncing, Joins, Domains, Ranges, PollersRange, RowFields, TokenFields,
    PollerFields, RunFields
<1>6. ASSUME NEW f \in Flows, FinishStored(f) PROVE Joins
  BY <1>6 DEF FinishStored, memory, Joins, Domains
<1>7. ASSUME NEW f \in Flows, FinishRefused(f) PROVE Joins
  BY <1>7, FlowsNonzero DEF FinishRefused, CanFail, EndFlow, Fails, NoPoller, Works, locks,
    stored, syncing, Joins, Domains, Ranges, PollersRange, RowFields, TokenFields, PollerFields,
    RunFields
<1>8. ASSUME NEW f \in Flows, FinishConnected(f) PROVE Joins
  BY <1>8, FlowsNonzero DEF FinishConnected, stored, Joins
<1>9. CASE Disconnect
  BY <1>9, FlowsNonzero DEF Disconnect, DropFlow, bounds, stored, syncing, trakt, Joins, Domains,
    Ranges, PollersRange, RowFields, TokenFields, PollerFields, RunFields
<1>10. CASE DisconnectStopSync
  BY <1>10, FlowsNonzero DEF DisconnectStopSync, NoResume, bounds, locks, memory, stored, trakt,
    Joins, Domains, Ranges, PollersRange, RowFields, TokenFields, PollerFields, RunFields
<1>11. CASE DisconnectPurged
  <2>1. row' = row \/ row' = NoRow
    BY <1>11 DEF DisconnectPurged, stored
  <2>2. ~NoRow.reauth
    BY DEF NoRow
  <2> QED BY <1>11, <2>1, <2>2 DEF DisconnectPurged, memory, Joins
<1>12. CASE DisconnectReset
  BY <1>12, FlowsNonzero DEF DisconnectReset, CanFail, Fails, NoTokens, Revoke, Works, syncing,
    Joins, Domains, Ranges, PollersRange, RowFields, TokenFields, PollerFields, RunFields
<1>13. CASE TriggerInitial
  BY <1>13, FlowsNonzero DEF TriggerInitial, NoResume, NoRun, Trigger, bounds, locks, memory,
    stored, trakt, Joins, Domains, Ranges, PollersRange, RowFields, TokenFields, PollerFields,
    RunFields
<1>14. CASE TriggerCheck
  BY <1>14, FlowsNonzero DEF TriggerCheck, NoResume, NoRun, Trigger, bounds, locks, memory,
    stored, trakt, Joins, Domains, Ranges, PollersRange, RowFields, TokenFields, PollerFields,
    RunFields
<1>15. CASE StartRead
  BY <1>15, FlowsNonzero DEF StartRead, CanFail, Fails, NoRun, Works, locks, memory, stored,
    trakt, Joins, Domains, Ranges, PollersRange, RowFields, TokenFields, PollerFields, RunFields
<1>16. CASE StartPlanned
  BY <1>16, FlowsNonzero DEF StartPlanned, NoResume, NoRun, Plans, bounds, locks, memory, stored,
    trakt, Joins, Domains, Ranges, PollersRange, RowFields, TokenFields, PollerFields, RunFields
<1>17. CASE RunAgain
  BY <1>17, FlowsNonzero DEF RunAgain, NoRun, bounds, locks, memory, stored, trakt, Joins,
    Domains, Ranges, PollersRange, RowFields, TokenFields, PollerFields, RunFields
<1>18. CASE Token
  BY <1>18, FlowsNonzero DEF Token, AfterToken, CanFail, Current, Fails, Finish, NoResume, NoRun,
    Works, trakt, Joins, Domains, Ranges, PollersRange, RowFields, TokenFields, PollerFields,
    RunFields
<1>19. CASE RefreshAnswered
  BY <1>19, FlowsNonzero DEF RefreshAnswered, Rotated, bounds, locks, memory, stored, Joins,
    Domains, Ranges, PollersRange, RowFields, TokenFields, PollerFields, RunFields
<1>20. CASE RefreshFailed
  BY <1>20, FlowsNonzero DEF RefreshFailed, AfterToken, CanFail, Fails, Finish, Handed, NoResume,
    NoRun, Rotated, memory, stored, trakt, Joins, Domains, Ranges, PollersRange, RowFields,
    TokenFields, PollerFields, RunFields
<1>21. CASE RefreshRefused
  BY <1>21, FlowsNonzero DEF RefreshRefused, Finish, NoResume, NoRun, bounds, stored, trakt,
    Joins, Domains, Ranges, PollersRange, RowFields, TokenFields, PollerFields, RunFields
<1>22. CASE ReauthStored
  BY <1>22, FlowsNonzero DEF ReauthStored, CanFail, Current, Fails, Finish, NoResume, NoRun,
    Works, memory, trakt, Joins, Domains, Ranges, PollersRange, RowFields, TokenFields,
    PollerFields, RunFields
<1>23. CASE RefreshSaved
  BY <1>23, FlowsNonzero DEF RefreshSaved, AfterToken, CanFail, Current, Fails, Finish, Handed,
    NextTokens, NoResume, NoRun, Refreshed, Retried, Works, trakt, Joins, Domains, Ranges,
    PollersRange, RowFields, TokenFields, PollerFields, RunFields
<1>24. CASE Invalidate
  BY <1>24, FlowsNonzero DEF Invalidate, Finish, NoResume, NoRun, Retried, bounds, stored, trakt,
    Joins, Domains, Ranges, PollersRange, RowFields, TokenFields, PollerFields, RunFields
<1>25. CASE RunAnswered
  BY <1>25, FlowsNonzero DEF RunAnswered, bounds, locks, memory, stored, trakt, Joins, Domains,
    Ranges, PollersRange, RowFields, TokenFields, PollerFields, RunFields
<1>26. CASE RunUnauthorized
  BY <1>26, FlowsNonzero DEF RunUnauthorized, CanFail, Fails, locks, memory, stored, Joins,
    Domains, Ranges, PollersRange, RowFields, TokenFields, PollerFields, RunFields
<1>27. CASE RunFailed
  BY <1>27, FlowsNonzero DEF RunFailed, CanFail, Fails, Finish, NoResume, NoRun, locks, memory,
    stored, trakt, Joins, Domains, Ranges, PollersRange, RowFields, TokenFields, PollerFields,
    RunFields
<1>28. CASE RunCancelled
  BY <1>28, FlowsNonzero DEF RunCancelled, Finish, NoResume, NoRun, bounds, locks, memory, stored,
    trakt, Joins, Domains, Ranges, PollersRange, RowFields, TokenFields, PollerFields, RunFields
<1>29. CASE RunWrote
  BY <1>29, FlowsNonzero DEF RunWrote, Current, Finish, NoResume, NoRun, bounds, locks, memory,
    trakt, Joins, Domains, Ranges, PollersRange, RowFields, TokenFields, PollerFields, RunFields
<1>30. CASE RunDone
  BY <1>30, FlowsNonzero DEF RunDone, Current, Finish, NoResume, NoRun, bounds, locks, memory,
    trakt, Joins, Domains, Ranges, PollersRange, RowFields, TokenFields, PollerFields, RunFields
<1>31. CASE Crash
  BY <1>31 DEF Crash, stored, Joins
<1>32. CASE Withdraw
  BY <1>32, FlowsNonzero DEF Withdraw, CanFail, Fails, locks, memory, stored, syncing, Joins,
    Domains, Ranges, PollersRange, RowFields, TokenFields, PollerFields, RunFields
<1>33. CASE UNCHANGED vars
  BY <1>33 DEF vars, Joins, Domains, Ranges, PollersRange, RowFields, TokenFields, PollerFields,
    RunFields
<1> QED
  BY <1>1, <1>2, <1>3, <1>4, <1>5, <1>6, <1>7, <1>8, <1>9, <1>10, <1>11, <1>12, <1>13, <1>14,
    <1>15, <1>16, <1>17, <1>18, <1>19, <1>20, <1>21, <1>22, <1>23, <1>24, <1>25, <1>26, <1>27,
    <1>28, <1>29, <1>30, <1>31, <1>32, <1>33 DEF Next

LEMMA ReauthComesStep ==
    ASSUME Domains, [Next]_vars
    PROVE  ReauthComes
<1>1. CASE Connect
  BY <1>1 DEF Connect, NoPoller, bounds, locks, stored, syncing, trakt, ReauthComes, Domains,
    RowFields, TokenFields, PollerFields, RunFields
<1>2. ASSUME NEW f \in Flows, PollApproved(f) PROVE ReauthComes
  BY <1>2 DEF PollApproved, CanFail, Fails, Works, locks, memory, stored, syncing, ReauthComes,
    Domains, RowFields, TokenFields, PollerFields, RunFields
<1>3. ASSUME NEW f \in Flows, PollEnded(f) PROVE ReauthComes
  BY <1>3 DEF PollEnded, EndFlow, NoPoller, bounds, locks, stored, syncing, trakt, ReauthComes,
    Domains, RowFields, TokenFields, PollerFields, RunFields
<1>4. ASSUME NEW f \in Flows, FinishUnread(f) PROVE ReauthComes
  BY <1>4 DEF FinishUnread, CanFail, EndFlow, Fails, NoPoller, Revoke, Works, locks, stored,
    syncing, ReauthComes, Domains, RowFields, TokenFields, PollerFields, RunFields
<1>5. ASSUME NEW f \in Flows, FinishCancelled(f) PROVE ReauthComes
  BY <1>5 DEF FinishCancelled, CanFail, Fails, NoPoller, Revoke, Works, locks, memory, stored,
    syncing, ReauthComes, Domains, RowFields, TokenFields, PollerFields, RunFields
<1>6. ASSUME NEW f \in Flows, FinishStored(f) PROVE ReauthComes
  BY <1>6 DEF FinishStored, Purged, bounds, memory, stored, syncing, ReauthComes, Domains,
    RowFields, TokenFields, PollerFields, RunFields
<1>7. ASSUME NEW f \in Flows, FinishRefused(f) PROVE ReauthComes
  BY <1>7 DEF FinishRefused, CanFail, EndFlow, Fails, NoPoller, Works, locks, stored, syncing,
    ReauthComes, Domains, RowFields, TokenFields, PollerFields, RunFields
<1>8. ASSUME NEW f \in Flows, FinishConnected(f) PROVE ReauthComes
  BY <1>8 DEF FinishConnected, NoPoller, NoTokens, bounds, stored, trakt, ReauthComes, Domains,
    RowFields, TokenFields, PollerFields, RunFields
<1>9. CASE Disconnect
  BY <1>9 DEF Disconnect, DropFlow, bounds, stored, syncing, trakt, ReauthComes, Domains,
    RowFields, TokenFields, PollerFields, RunFields
<1>10. CASE DisconnectStopSync
  BY <1>10 DEF DisconnectStopSync, NoResume, bounds, locks, memory, stored, trakt, ReauthComes,
    Domains, RowFields, TokenFields, PollerFields, RunFields
<1>11. CASE DisconnectPurged
  BY <1>11 DEF DisconnectPurged, CanFail, Fails, NoRow, Purged, Works, memory, stored, syncing,
    trakt, ReauthComes, Domains, RowFields, TokenFields, PollerFields, RunFields
<1>12. CASE DisconnectReset
  BY <1>12 DEF DisconnectReset, CanFail, Fails, NoTokens, Revoke, Works, syncing, ReauthComes,
    Domains, RowFields, TokenFields, PollerFields, RunFields
<1>13. CASE TriggerInitial
  BY <1>13 DEF TriggerInitial, NoResume, NoRun, Trigger, bounds, locks, memory, stored, trakt,
    ReauthComes, Domains, RowFields, TokenFields, PollerFields, RunFields
<1>14. CASE TriggerCheck
  BY <1>14 DEF TriggerCheck, NoResume, NoRun, Trigger, bounds, locks, memory, stored, trakt,
    ReauthComes, Domains, RowFields, TokenFields, PollerFields, RunFields
<1>15. CASE StartRead
  <2>1. CASE run' = NoRun
    BY <2>1 DEF NoRun, ReauthComes
  <2>2. CASE run' = [run EXCEPT !.pc = "planning", !.known = data[0] # {}]
    BY <2>2 DEF ReauthComes, Domains, RunFields
  <2> QED BY <1>15, <2>1, <2>2 DEF StartRead
<1>16. CASE StartPlanned
  BY <1>16 DEF StartPlanned, NoResume, NoRun, Plans, bounds, locks, memory, stored, trakt,
    ReauthComes, Domains, RowFields, TokenFields, PollerFields, RunFields
<1>17. CASE RunAgain
  BY <1>17 DEF RunAgain, NoRun, bounds, locks, memory, stored, trakt, ReauthComes, Domains,
    RowFields, TokenFields, PollerFields, RunFields
<1>18. CASE Token
  BY <1>18 DEF Token, AfterToken, CanFail, Current, Fails, Finish, NoResume, NoRun, Works, trakt,
    ReauthComes, Domains, RowFields, TokenFields, PollerFields, RunFields
<1>19. CASE RefreshAnswered
  BY <1>19 DEF RefreshAnswered, Rotated, bounds, locks, memory, stored, ReauthComes, Domains,
    RowFields, TokenFields, PollerFields, RunFields
<1>20. CASE RefreshFailed
  BY <1>20 DEF RefreshFailed, AfterToken, CanFail, Fails, Finish, Handed, NoResume, NoRun,
    Rotated, memory, stored, trakt, ReauthComes, Domains, RowFields, TokenFields, PollerFields,
    RunFields
<1>21. CASE RefreshRefused
  BY <1>21 DEF RefreshRefused, Finish, NoResume, NoRun, bounds, stored, trakt, ReauthComes,
    Domains, RowFields, TokenFields, PollerFields, RunFields
<1>22. CASE ReauthStored
  BY <1>22 DEF ReauthStored, CanFail, Current, Fails, Finish, NoResume, NoRun, Works, memory,
    trakt, ReauthComes, Domains, RowFields, TokenFields, PollerFields, RunFields
<1>23. CASE RefreshSaved
  <2>1. run.pc = "saving"
    BY <1>23 DEF RefreshSaved
  <2>2. CASE \E outcome : Finish(outcome)
    BY <2>2, FinishGoes DEF Goes, ReauthComes
  <2>3. CASE run.back = "invalid" /\ Retried
    BY <2>1, <2>3, RetriedMoves DEF Goes, Retries, To, ReauthComes
  <2>4. CASE run' = Handed(run.next)
    BY <2>1, <2>4, HandedMoves DEF HandedStarts, HandedAsks, To, ReauthComes
  <2> QED BY <1>23, <2>2, <2>3, <2>4 DEF RefreshSaved
<1>24. CASE Invalidate
  BY <1>24 DEF Invalidate, Finish, NoResume, NoRun, Retried, bounds, stored, trakt, ReauthComes,
    Domains, RowFields, TokenFields, PollerFields, RunFields
<1>25. CASE RunAnswered
  BY <1>25 DEF RunAnswered, bounds, locks, memory, stored, trakt, ReauthComes, Domains, RowFields,
    TokenFields, PollerFields, RunFields
<1>26. CASE RunUnauthorized
  BY <1>26 DEF RunUnauthorized, CanFail, Fails, locks, memory, stored, ReauthComes, Domains,
    RowFields, TokenFields, PollerFields, RunFields
<1>27. CASE RunFailed
  BY <1>27 DEF RunFailed, CanFail, Fails, Finish, NoResume, NoRun, locks, memory, stored, trakt,
    ReauthComes, Domains, RowFields, TokenFields, PollerFields, RunFields
<1>28. CASE RunCancelled
  BY <1>28 DEF RunCancelled, Finish, NoResume, NoRun, bounds, locks, memory, stored, trakt,
    ReauthComes, Domains, RowFields, TokenFields, PollerFields, RunFields
<1>29. CASE RunWrote
  BY <1>29 DEF RunWrote, Current, Finish, NoResume, NoRun, bounds, locks, memory, trakt,
    ReauthComes, Domains, RowFields, TokenFields, PollerFields, RunFields
<1>30. CASE RunDone
  BY <1>30 DEF RunDone, Current, Finish, NoResume, NoRun, bounds, locks, memory, trakt,
    ReauthComes, Domains, RowFields, TokenFields, PollerFields, RunFields
<1>31. CASE Crash
  BY <1>31 DEF Crash, NoPoller, NoResume, NoRow, NoRun, NoSync, NoTokens, stored, ReauthComes,
    Domains, RowFields, TokenFields, PollerFields, RunFields
<1>32. CASE Withdraw
  BY <1>32 DEF Withdraw, CanFail, Fails, locks, memory, stored, syncing, ReauthComes, Domains,
    RowFields, TokenFields, PollerFields, RunFields
<1>33. CASE UNCHANGED vars
  BY <1>33 DEF vars, ReauthComes, Domains, RowFields, TokenFields, PollerFields, RunFields
<1> QED
  BY <1>1, <1>2, <1>3, <1>4, <1>5, <1>6, <1>7, <1>8, <1>9, <1>10, <1>11, <1>12, <1>13, <1>14,
    <1>15, <1>16, <1>17, <1>18, <1>19, <1>20, <1>21, <1>22, <1>23, <1>24, <1>25, <1>26, <1>27,
    <1>28, <1>29, <1>30, <1>31, <1>32, <1>33 DEF Next

LEMMA AsksAgainStep ==
    ASSUME Domains, Ranges, PollersRange, StateOut, RunOut, Locks, RefreshLock, Codes, Storing, Fresh,
           Generations, RefreshesOwn, Mirrored, AsksAgain, [Next]_vars
    PROVE  AsksAgain'
<1>1. CASE Crash
  BY <1>1 DEF Crash, stored, NoRun, NoRow, AsksAgain
<1>2. ASSUME NEW f \in Flows, FinishStored(f) PROVE AsksAgain'
  <2>1. run' = run /\ row'.gen = poller[f].pair /\ ~row'.reauth
    BY <1>2 DEF FinishStored, syncing
  <2>2. poller[f].pair # run.tokenGen
    BY <1>2 DEF FinishStored, Fresh
  <2> QED BY <2>1, <2>2 DEF AsksAgain, Current
<1>3. ASSUME NEW f \in Flows, FinishConnected(f) PROVE AsksAgain'
  <2>1. row' = row /\ run' = run /\ life = "finish" /\ poller[f].pair = row.gen /\ poller[f].pc = "stored"
    BY <1>3 DEF FinishConnected, stored, Storing
  <2>2. ~row.reauth /\ run.tokenGen # row.gen
    BY <2>1 DEF AsksAgain, Fresh
  <2> QED BY <2>1, <2>2 DEF AsksAgain, Current
<1>4. CASE /\ ~Crash /\ (\A f \in Flows : ~FinishStored(f)) /\ (\A f \in Flows : ~FinishConnected(f))
  <2>1. Joins /\ ReauthComes
    BY JoinsStep, ReauthComesStep
  <2>2. state # "connected" => state' # "connected"
    BY <1>4, <2>1 DEF Joins
  <2>3. life # "finish" => life' # "finish"
    BY <1>4, <2>1 DEF Joins
  <2>4. row' = NoRow \/ row'.gen = row.gen
    BY <1>4, GensMoveStep DEF GensMove
  <2>5. NoRow.gen = 0 /\ ~NoRow.reauth
    BY DEF NoRow
  <2>6. ASSUME row'.reauth PROVE state' # "connected" /\ life' # "finish"
    BY <2>1, <2>2, <2>3, <2>6 DEF Joins, AsksAgain, Current
  <2>7. ASSUME run'.pc = "reauth", row'.gen = run'.tokenGen PROVE state' # "connected" /\ life' # "finish"
    <3>1. CASE run.pc = "reauth" /\ run'.tokenGen = run.tokenGen
      <4>1. run.tokenGen # 0
        BY <3>1 DEF Generations
      <4>2. row.gen = run.tokenGen
        BY <4>1, <3>1, <2>4, <2>5, <2>7
      <4> QED BY <3>1, <4>2, <2>2, <2>3 DEF AsksAgain, Current
    <3>2. CASE state = "connected" /\ state' = "reauth" /\ life' = life
      <4>1. life # "finish"
        BY <3>2, FlowsNonzero DEF Storing, Codes, PollersRange
      <4> QED BY <3>2, <4>1
    <3> QED BY <2>1, <2>7, <3>1, <3>2 DEF ReauthComes
  <2> QED BY <2>6, <2>7 DEF AsksAgain, Current
<1> QED BY <1>1, <1>2, <1>3, <1>4

LEMMA PollerPairsStep ==
    ASSUME Domains, Ranges, LiveOut, PollersOut, PollerPairs, [Next]_vars
    PROVE  PollerPairs'
<1> SUFFICES ASSUME NEW f \in Flows
             PROVE  /\ poller'[f].pc = "none" => poller'[f].pair = 0
                    /\ poller'[f].pc = "polling" => poller'[f].pair \notin live' \/ poller'[f].pair \in lost'
  BY DEF PollerPairs, Dead
<1>1. Moves(f)
  BY MovesStep DEF Ranges
<1>2. poller[f].pc = "polling" => poller[f].pair \notin live' \/ poller[f].pair \in lost'
  BY ShrinksStep, DeadStays DEF PollerPairs, PollersOut
<1>3. 0 \notin live'
  BY LiveOutStep DEF LiveOut
<1> QED BY <1>1, <1>2, <1>3 DEF Moves, Same, PollerPairs

\* Memory and row name the same pair, or the row's is dead, where neither moves.
DeadRowStill ==
  /\ row'.pair = row.pair /\ tokens'.pair = tokens.pair
  /\ state' = "connected" <=> state = "connected"
  /\ life' = "finish" <=> life = "finish"

LEMMA DeadRowKept ==
    ASSUME Domains, LiveOut, StateOut, Shrinks, DeadRow, DeadRowStill
    PROVE  DeadRow'
<1>1. Dead(row.pair) => row.pair \notin live' \/ row.pair \in lost'
  BY DeadStays DEF StateOut
<1>2. Dead(tokens.pair) => tokens.pair \notin live' \/ tokens.pair \in lost'
  BY DeadStays DEF StateOut
<1> QED BY <1>1, <1>2 DEF DeadRow, DeadRowStill, Dead

LEMMA DeadRowStep ==
    ASSUME Domains, Ranges, PollersRange, LiveOut, StateOut, Locks, Codes, Storing,
           RefreshesOwn, AccountedState, Mirrored, AsksAgain, RunPair, DeadRow, [Next]_vars
    PROVE  DeadRow'
<1>1. CASE Connect
  <2> DeadRowStill
    BY <1>1, FlowsNonzero DEF Connect, NoPoller, bounds, locks, stored, syncing, trakt, DeadRowStill,
      Domains, Ranges, PollersRange, Codes, Locks, RowFields
  <2> QED BY DeadRowKept, ShrinksStep
<1>2. ASSUME NEW f \in Flows, PollApproved(f) PROVE DeadRow'
  <2> DeadRowStill
    BY <1>2, FlowsNonzero DEF PollApproved, CanFail, Fails, Works, locks, memory, stored, syncing,
      DeadRowStill, Domains, Ranges, PollersRange, Codes, Locks, RowFields
  <2> QED BY DeadRowKept, ShrinksStep
<1>3. ASSUME NEW f \in Flows, PollEnded(f) PROVE DeadRow'
  <2> DeadRowStill
    BY <1>3, FlowsNonzero DEF PollEnded, EndFlow, NoPoller, bounds, locks, stored, syncing, trakt,
      DeadRowStill, Domains, Ranges, PollersRange, Codes, Locks, RowFields
  <2> QED BY DeadRowKept, ShrinksStep
<1>4. ASSUME NEW f \in Flows, FinishUnread(f) PROVE DeadRow'
  <2> DeadRowStill
    BY <1>4, FlowsNonzero DEF FinishUnread, CanFail, EndFlow, Fails, NoPoller, Revoke, Works, locks,
      stored, syncing, DeadRowStill, Domains, Ranges, PollersRange, Codes, Locks, RowFields
  <2> QED BY DeadRowKept, ShrinksStep
<1>5. ASSUME NEW f \in Flows, FinishCancelled(f) PROVE DeadRow'
  <2> DeadRowStill
    BY <1>5, FlowsNonzero DEF FinishCancelled, CanFail, Fails, NoPoller, Revoke, Works, locks,
      memory, stored, syncing, DeadRowStill, Domains, Ranges, PollersRange, Codes, Locks,
      RowFields
  <2> QED BY DeadRowKept, ShrinksStep
<1>6. ASSUME NEW f \in Flows, FinishStored(f) PROVE DeadRow'
  <2>1. life' = "finish" /\ UNCHANGED <<live, lost, state, tokens>>
    BY <1>6 DEF FinishStored, memory
  <2> QED BY <2>1 DEF DeadRow, Dead
<1>7. ASSUME NEW f \in Flows, FinishRefused(f) PROVE DeadRow'
  <2> DeadRowStill
    BY <1>7, FlowsNonzero DEF FinishRefused, CanFail, EndFlow, Fails, NoPoller, Works, locks, stored,
      syncing, DeadRowStill, Domains, Ranges, PollersRange, Codes, Locks, RowFields
  <2> QED BY DeadRowKept, ShrinksStep
<1>8. ASSUME NEW f \in Flows, FinishConnected(f) PROVE DeadRow'
  <2>1. state' = "connected" /\ row' = row /\ tokens'.pair = poller[f].pair /\ poller[f].pc = "stored"
    BY <1>8 DEF FinishConnected, stored, NoTokens
  <2>2. row.pair = poller[f].pair
    BY <2>1 DEF Storing
  <2> QED BY <2>1, <2>2 DEF DeadRow
<1>9. CASE Disconnect
  <2> DeadRowStill
    BY <1>9, FlowsNonzero DEF Disconnect, DropFlow, bounds, stored, syncing, trakt, DeadRowStill,
      Domains, Ranges, PollersRange, Codes, Locks, RowFields
  <2> QED BY DeadRowKept, ShrinksStep
<1>10. CASE DisconnectStopSync
  <2> DeadRowStill
    BY <1>10, FlowsNonzero DEF DisconnectStopSync, NoResume, bounds, locks, memory, stored, trakt,
      DeadRowStill, Domains, Ranges, PollersRange, Codes, Locks, RowFields
  <2> QED BY DeadRowKept, ShrinksStep
<1>11. CASE DisconnectPurged
  <2>1. CASE row' = NoRow
    <3>1. row'.pair = 0 /\ UNCHANGED <<live, lost, state, tokens>> /\ 0 \notin live
      BY <1>11, <2>1 DEF DisconnectPurged, NoRow, memory, trakt, LiveOut
    <3> QED BY <3>1 DEF DeadRow, Dead
  <2>2. CASE row' # NoRow
    <3>1. DeadRowStill
      BY <1>11, <2>2 DEF DisconnectPurged, DeadRowStill, memory, stored, Locks
    <3> QED BY <3>1, DeadRowKept, ShrinksStep
  <2> QED BY <2>1, <2>2
<1>12. CASE DisconnectReset
  <2>1. row.pair = 0
    BY <1>12 DEF DisconnectReset, Mirrored, AccountedState, NoRow
  <2>2. row' = row /\ tokens'.pair = 0 /\ 0 \notin live'
    BY <1>12, LiveOutStep DEF DisconnectReset, NoTokens, LiveOut
  <2> QED BY <2>1, <2>2 DEF DeadRow, Dead
<1>13. CASE TriggerInitial
  <2> DeadRowStill
    BY <1>13, FlowsNonzero DEF TriggerInitial, NoResume, NoRun, Trigger, bounds, locks, memory,
      stored, trakt, DeadRowStill, Domains, Ranges, PollersRange, Codes, Locks, RowFields
  <2> QED BY DeadRowKept, ShrinksStep
<1>14. CASE TriggerCheck
  <2> DeadRowStill
    BY <1>14, FlowsNonzero DEF TriggerCheck, NoResume, NoRun, Trigger, bounds, locks, memory, stored,
      trakt, DeadRowStill, Domains, Ranges, PollersRange, Codes, Locks, RowFields
  <2> QED BY DeadRowKept, ShrinksStep
<1>15. CASE StartRead
  <2> DeadRowStill
    BY <1>15, FlowsNonzero DEF StartRead, CanFail, Fails, NoRun, Works, locks, memory, stored, trakt,
      DeadRowStill, Domains, Ranges, PollersRange, Codes, Locks, RowFields
  <2> QED BY DeadRowKept, ShrinksStep
<1>16. CASE StartPlanned
  <2> DeadRowStill
    BY <1>16, FlowsNonzero DEF StartPlanned, NoResume, NoRun, Plans, bounds, locks, memory, stored,
      trakt, DeadRowStill, Domains, Ranges, PollersRange, Codes, Locks, RowFields
  <2> QED BY DeadRowKept, ShrinksStep
<1>17. CASE RunAgain
  <2> DeadRowStill
    BY <1>17, FlowsNonzero DEF RunAgain, NoRun, bounds, locks, memory, stored, trakt, DeadRowStill,
      Domains, Ranges, PollersRange, Codes, Locks, RowFields
  <2> QED BY DeadRowKept, ShrinksStep
<1>18. CASE Token
  <2>1. UNCHANGED <<live, lost, state, life>> /\ tokens'.pair = tokens.pair
    BY <1>18 DEF Token, trakt, Domains, TokenFields
  <2>2. row'.pair \in {row.pair, tokens.pair}
    BY <1>18 DEF Token, Domains, RowFields
  <2> QED BY <2>1, <2>2 DEF DeadRow, Dead
<1>19. CASE RefreshAnswered
  <2> DeadRowStill
    BY <1>19, FlowsNonzero DEF RefreshAnswered, Rotated, bounds, locks, memory, stored, DeadRowStill,
      Domains, Ranges, PollersRange, Codes, Locks, RowFields
  <2> QED BY DeadRowKept, ShrinksStep
<1>20. CASE RefreshFailed
  <2> DeadRowStill
    BY <1>20, FlowsNonzero DEF RefreshFailed, AfterToken, CanFail, Fails, Finish, Handed, NoResume,
      NoRun, Rotated, memory, stored, trakt, DeadRowStill, Domains, Ranges, PollersRange, Codes,
      Locks, RowFields
  <2> QED BY DeadRowKept, ShrinksStep
<1>21. CASE RefreshRefused
  <2>1. UNCHANGED <<live, lost, row, tokens, life>> /\ run.pc = "refresh" /\ run.token \notin live
    BY <1>21 DEF RefreshRefused, stored, trakt
  <2>2. state = "connected" /\ run.token = tokens.pair
    BY <2>1 DEF RefreshesOwn, RunPair
  <2>3. life # "finish"
    BY <2>2, FlowsNonzero DEF Codes, Storing
  <2> QED BY <2>1, <2>2, <2>3 DEF DeadRow, Dead
<1>22. CASE ReauthStored
  <2> DeadRowStill
    BY <1>22, FlowsNonzero DEF ReauthStored, CanFail, Current, Fails, Finish, NoResume, NoRun, Works,
      memory, trakt, DeadRowStill, Domains, Ranges, PollersRange, Codes, Locks, RowFields
  <2> QED BY DeadRowKept, ShrinksStep
<1>23. CASE RefreshSaved
  <2>1. UNCHANGED <<live, lost, state, life>> /\ run.pc = "saving"
    BY <1>23 DEF RefreshSaved, trakt
  <2>2. state = "connected" /\ run.tokenGen = gen /\ run.token = tokens.pair /\ Dead(tokens.pair)
    BY <2>1 DEF RefreshesOwn, RunPair
  <2>3. CASE Current(run.tokenGen) /\ row' = [row EXCEPT !.pair = run.next] /\ tokens' = Refreshed(FALSE)
    <3>1. row'.pair = run.next /\ tokens'.pair = run.next
      BY <2>3 DEF Refreshed, NextTokens, Domains, RowFields
    <3> QED BY <2>1, <2>2, <3>1 DEF DeadRow
  <2>4. CASE row' = row /\ tokens' = Refreshed(TRUE)
    BY <2>1, <2>2, <2>4 DEF DeadRow, Dead
  <2>5. CASE row' = row /\ tokens' = tokens
    BY <2>1, <2>5 DEF DeadRow, Dead
  <2> QED BY <1>23, <2>2, <2>3, <2>4, <2>5 DEF RefreshSaved
<1>24. CASE Invalidate
  <2>1. UNCHANGED <<live, lost, row, life>> /\ tokens'.pair = tokens.pair /\ Dead(run.token)
    BY <1>24 DEF Invalidate, stored, trakt, RunPair, Domains, TokenFields
  <2>2. CASE state' = state
    BY <2>1, <2>2 DEF DeadRow, Dead
  <2>3. CASE state' # state
    <3>1. state = "connected" /\ tokens.pair = run.token
      BY <1>24, <2>3 DEF Invalidate
    <3>2. life # "finish"
      BY <3>1, FlowsNonzero DEF Codes, Storing
    <3> QED BY <2>1, <3>1, <3>2 DEF DeadRow, Dead
  <2> QED BY <2>2, <2>3
<1>25. CASE RunAnswered
  <2> DeadRowStill
    BY <1>25, FlowsNonzero DEF RunAnswered, bounds, locks, memory, stored, trakt, DeadRowStill,
      Domains, Ranges, PollersRange, Codes, Locks, RowFields
  <2> QED BY DeadRowKept, ShrinksStep
<1>26. CASE RunUnauthorized
  <2> DeadRowStill
    BY <1>26, FlowsNonzero DEF RunUnauthorized, CanFail, Fails, locks, memory, stored, DeadRowStill,
      Domains, Ranges, PollersRange, Codes, Locks, RowFields
  <2> QED BY DeadRowKept, ShrinksStep
<1>27. CASE RunFailed
  <2> DeadRowStill
    BY <1>27, FlowsNonzero DEF RunFailed, CanFail, Fails, Finish, NoResume, NoRun, locks, memory,
      stored, trakt, DeadRowStill, Domains, Ranges, PollersRange, Codes, Locks, RowFields
  <2> QED BY DeadRowKept, ShrinksStep
<1>28. CASE RunCancelled
  <2> DeadRowStill
    BY <1>28, FlowsNonzero DEF RunCancelled, Finish, NoResume, NoRun, bounds, locks, memory, stored,
      trakt, DeadRowStill, Domains, Ranges, PollersRange, Codes, Locks, RowFields
  <2> QED BY DeadRowKept, ShrinksStep
<1>29. CASE RunWrote
  <2> DeadRowStill
    BY <1>29, FlowsNonzero DEF RunWrote, Current, Finish, NoResume, NoRun, bounds, locks, memory,
      trakt, DeadRowStill, Domains, Ranges, PollersRange, Codes, Locks, RowFields
  <2> QED BY DeadRowKept, ShrinksStep
<1>30. CASE RunDone
  <2> DeadRowStill
    BY <1>30, FlowsNonzero DEF RunDone, Current, Finish, NoResume, NoRun, bounds, locks, memory,
      trakt, DeadRowStill, Domains, Ranges, PollersRange, Codes, Locks, RowFields
  <2> QED BY DeadRowKept, ShrinksStep
<1>31. CASE Crash
  <2>1. row' = row /\ tokens'.pair = row.pair /\ life' # "finish"
    BY <1>31 DEF Crash, stored, NoTokens
  <2>2. CASE row = NoRow
    <3>1. row.pair = 0 /\ 0 \notin live'
      BY <2>2, LiveOutStep DEF LiveOut, NoRow
    <3> QED BY <2>1, <3>1 DEF DeadRow, Dead
  <2>3. CASE row.reauth
    <3>1. Dead(row.pair)
      BY <2>3 DEF AsksAgain, DeadRow
    <3>2. row.pair \notin live' \/ row.pair \in lost'
      BY <3>1, ShrinksStep, DeadStays DEF StateOut
    <3> QED BY <2>1, <3>2 DEF DeadRow, Dead
  <2>4. CASE row # NoRow /\ ~row.reauth
    <3>1. state' = "connected"
      BY <1>31, <2>4 DEF Crash
    <3> QED BY <2>1, <3>1 DEF DeadRow
  <2> QED BY <2>2, <2>3, <2>4
<1>32. CASE Withdraw
  <2> DeadRowStill
    BY <1>32, FlowsNonzero DEF Withdraw, CanFail, Fails, locks, memory, stored, syncing, DeadRowStill,
      Domains, Ranges, PollersRange, Codes, Locks, RowFields
  <2> QED BY DeadRowKept, ShrinksStep
<1>33. CASE UNCHANGED vars
  <2> DeadRowStill
    BY <1>33 DEF vars, DeadRowStill
  <2> QED BY DeadRowKept, ShrinksStep
<1> QED
  BY <1>1, <1>2, <1>3, <1>4, <1>5, <1>6, <1>7, <1>8, <1>9, <1>10, <1>11, <1>12, <1>13, <1>14,
    <1>15, <1>16, <1>17, <1>18, <1>19, <1>20, <1>21, <1>22, <1>23, <1>24, <1>25, <1>26, <1>27,
    <1>28, <1>29, <1>30, <1>31, <1>32, <1>33 DEF Next

\* The pairs somebody here holds, and a pair that needs no holder after the step.
Names == {row.pair, tokens.pair, run.next} \cup {poller[f].pair : f \in Flows}
Held(p) == p \in live' => p \in lost' \cup Names'

LEMMA GrantsHeld ==
    ASSUME Shrinks, NoGrantLeft, Held(row.pair), Held(tokens.pair), Held(run.next),
           \A f \in Flows : Held(poller[f].pair), Unused # {} => Held(NextPair)
    PROVE  NoGrantLeft'
BY DEF NoGrantLeft, Shrinks, Held, Names

\* A poller's pair stays its own, or it was not to be kept, unless the poller ends.
LEMMA PollerHolds ==
    ASSUME Domains, Ranges, PollersRange, LiveOut, PollersOut, PollerPairs, [Next]_vars,
           NEW f \in Flows,
           poller'[f].pc # "none" \/ poller[f].pc \notin {"approved", "stored"}
    PROVE  Held(poller[f].pair)
<1>1. Moves(f)
  BY MovesStep DEF Ranges
<1>2. CASE poller'[f].pair = poller[f].pair
  BY <1>2 DEF Held, Names
<1>3. CASE poller[f].pair = 0
  BY <1>3, LiveOutStep DEF Held, LiveOut
<1>4. CASE poller[f].pc = "polling"
  BY <1>4, ShrinksStep, DeadStays DEF PollerPairs, PollersOut, Held
<1>5. CASE poller[f].pc = "none"
  BY <1>3, <1>5 DEF PollerPairs
<1>6. poller'[f].pc = "none" => poller[f].pc \in {"none", "polling"}
  BY DEF PollersRange
<1>7. \/ poller'[f].pair = poller[f].pair \/ poller'[f].pc = "none"
      \/ poller[f].pc = "none" \/ poller[f].pair = 0
  BY <1>1 DEF Moves, Same
<1> QED BY <1>2, <1>3, <1>4, <1>5, <1>6, <1>7

\* A step that hands out no pair, moves none and ends no poller that has one.
GrantsStill ==
  /\ row'.pair = row.pair /\ tokens'.pair = tokens.pair
  /\ run.pc # "saving" \/ run'.next = run.next
  /\ \A f \in Flows : poller'[f].pc # "none" \/ poller[f].pc \notin {"approved", "stored"}
  /\ live' \subseteq live

LEMMA GrantsKept ==
    ASSUME Domains, Ranges, PollersRange, LiveOut, PollersOut, AccountedRun, PollerPairs, NoGrantLeft,
           GrantsStill, [Next]_vars
    PROVE  NoGrantLeft'
<1>1. Shrinks
  BY ShrinksStep
<1>2. Held(row.pair) /\ Held(tokens.pair)
  BY DEF GrantsStill, Held, Names
<1>3. Held(run.next)
  <2>1. CASE run.pc = "saving"
    BY <2>1 DEF GrantsStill, Held, Names
  <2>2. CASE run.pc # "saving"
    BY <2>2, LiveOutStep DEF AccountedRun, Held, LiveOut
  <2> QED BY <2>1, <2>2
<1>4. \A f \in Flows : Held(poller[f].pair)
  BY PollerHolds DEF GrantsStill
<1>5. NextPair \in live => Held(NextPair)
  BY <1>1, <1>2, <1>3, <1>4 DEF NoGrantLeft, Shrinks, Held
<1>6. Unused # {} => Held(NextPair)
  BY <1>5 DEF GrantsStill, Held
<1> QED BY <1>1, <1>2, <1>3, <1>4, <1>6, GrantsHeld

LEMMA NoGrantLeftStep ==
    ASSUME Domains, Ranges, PollersRange, LiveOut, StateOut, RunOut, PollersOut, Locks, RefreshLock,
           Codes, Storing, RefreshesOwn, AccountedState, AccountedRun, Mirrored, RunPair, DeadRow,
           PollerPairs, NoGrantLeft, [Next]_vars
    PROVE  NoGrantLeft'
<1>1. CASE Connect
  <2>1. \A f \in Flows : poller'[f].pc = "polling" \/ poller'[f].pc = poller[f].pc
    <3> DEFINE ended == IF flow = 0 THEN poller ELSE [poller EXCEPT ![flow].cancelled = TRUE]
    <3>1. DOMAIN ended = Flows /\ \A f \in Flows : ended[f].pc = poller[f].pc
      BY DEF Domains, Ranges, PollerFields
    <3>2. CASE poller' = ended
      BY <3>1, <3>2
    <3>3. ASSUME NEW f \in Flows, NEW back,
                 poller' = [ended EXCEPT ![f] = [NoPoller EXCEPT !.pc = "polling", !.from = back]]
          PROVE  \A g \in Flows : poller'[g].pc = "polling" \/ poller'[g].pc = poller[g].pc
      <4> HIDE DEF ended
      <4> QED BY <3>1, <3>3 DEF NoPoller
    <3> QED BY <1>1, <3>2, <3>3 DEF Connect
  <2> GrantsStill
    BY <1>1, <2>1 DEF Connect, GrantsStill, trakt, stored, syncing, NoPoller
  <2> QED BY GrantsKept
<1>2. ASSUME NEW f \in Flows, PollApproved(f) PROVE NoGrantLeft'
  <2>1. UNCHANGED <<row, tokens, run>> /\ Shrinks
    BY <1>2, ShrinksStep DEF PollApproved, stored, memory, syncing
  <2>2. Held(row.pair) /\ Held(tokens.pair) /\ Held(run.next)
    BY <2>1 DEF Held, Names
  <2>3. poller'[f].pc # "none" /\ \A g \in Flows \ {f} : poller'[g] = poller[g]
    BY <1>2 DEF PollApproved, Domains, PollerFields
  <2>4. \A g \in Flows : Held(poller[g].pair)
    BY <2>3, PollerHolds DEF Held, Names
  <2>5. Held(NextPair)
    BY <1>2 DEF PollApproved, Held, Names, Domains, PollerFields
  <2> QED BY <2>1, <2>2, <2>4, <2>5, GrantsHeld
<1>3. ASSUME NEW f \in Flows, PollEnded(f) PROVE NoGrantLeft'
  <2> GrantsStill
    BY <1>3 DEF PollEnded, EndFlow, NoPoller, bounds, locks, stored, syncing, trakt, GrantsStill,
      Domains, Ranges, RowFields, TokenFields, PollerFields, RunFields
  <2> QED BY GrantsKept
<1>4. ASSUME NEW f \in Flows, FinishUnread(f) PROVE NoGrantLeft'
  <2>1. UNCHANGED <<row, tokens, run>> /\ Shrinks /\ live' \subseteq live
    BY <1>4, ShrinksStep DEF FinishUnread, Revoke, stored, memory, syncing
  <2>2. Held(row.pair) /\ Held(tokens.pair) /\ Held(run.next)
    BY <2>1 DEF Held, Names
  <2>3. Held(poller[f].pair)
    BY <1>4 DEF FinishUnread, Revoke, Held
  <2>4. \A g \in Flows \ {f} : poller'[g] = poller[g]
    BY <1>4 DEF FinishUnread, EndFlow, Domains
  <2>5. \A g \in Flows : Held(poller[g].pair)
    BY <2>3, <2>4 DEF Held, Names
  <2>6. Unused # {} => Held(NextPair)
    BY <2>1, <2>2, <2>5 DEF NoGrantLeft, Shrinks, Held
  <2> QED BY <2>1, <2>2, <2>5, <2>6, GrantsHeld
<1>5. ASSUME NEW f \in Flows, FinishCancelled(f) PROVE NoGrantLeft'
  <2>1. UNCHANGED <<row, tokens, run>> /\ Shrinks /\ live' \subseteq live
    BY <1>5, ShrinksStep DEF FinishCancelled, Revoke, stored, memory, syncing
  <2>2. Held(row.pair) /\ Held(tokens.pair) /\ Held(run.next)
    BY <2>1 DEF Held, Names
  <2>3. Held(poller[f].pair)
    BY <1>5 DEF FinishCancelled, Revoke, Held
  <2>4. \A g \in Flows \ {f} : poller'[g] = poller[g]
    BY <1>5 DEF FinishCancelled, EndFlow, Domains
  <2>5. \A g \in Flows : Held(poller[g].pair)
    BY <2>3, <2>4 DEF Held, Names
  <2>6. Unused # {} => Held(NextPair)
    BY <2>1, <2>2, <2>5 DEF NoGrantLeft, Shrinks, Held
  <2> QED BY <2>1, <2>2, <2>5, <2>6, GrantsHeld
<1>6. ASSUME NEW f \in Flows, FinishStored(f) PROVE NoGrantLeft'
  <2>1. UNCHANGED <<live, lost, state, tokens, run>> /\ Shrinks
    BY <1>6, ShrinksStep DEF FinishStored, memory, syncing
  <2>2. Held(row.pair) /\ Held(tokens.pair) /\ Held(run.next)
    BY <1>6, <2>1 DEF FinishStored, DeadRow, Dead, Held, Names
  <2>3. \A g \in Flows : poller'[g].pc # "none" \/ poller[g].pc \notin {"approved", "stored"}
    BY <1>6 DEF FinishStored, Domains, PollerFields
  <2>4. \A g \in Flows : Held(poller[g].pair)
    BY <2>3, PollerHolds
  <2>5. Unused # {} => Held(NextPair)
    BY <2>1, <2>2, <2>4 DEF NoGrantLeft, Shrinks, Held
  <2> QED BY <2>1, <2>2, <2>4, <2>5, GrantsHeld
<1>7. ASSUME NEW f \in Flows, FinishRefused(f) PROVE NoGrantLeft'
  <2>1. UNCHANGED <<row, tokens, run>> /\ Shrinks /\ live' \subseteq live
    BY <1>7, ShrinksStep DEF FinishRefused, Revoke, stored, memory, syncing
  <2>2. Held(row.pair) /\ Held(tokens.pair) /\ Held(run.next)
    BY <2>1 DEF Held, Names
  <2>3. Held(poller[f].pair)
    BY <1>7 DEF FinishRefused, Revoke, Held
  <2>4. \A g \in Flows \ {f} : poller'[g] = poller[g]
    BY <1>7 DEF FinishRefused, EndFlow, Domains
  <2>5. \A g \in Flows : Held(poller[g].pair)
    BY <2>3, <2>4 DEF Held, Names
  <2>6. Unused # {} => Held(NextPair)
    BY <2>1, <2>2, <2>5 DEF NoGrantLeft, Shrinks, Held
  <2> QED BY <2>1, <2>2, <2>5, <2>6, GrantsHeld
<1>8. ASSUME NEW f \in Flows, FinishConnected(f) PROVE NoGrantLeft'
  <2>1. UNCHANGED <<live, lost, row, run>> /\ Shrinks /\ tokens'.pair = poller[f].pair
    BY <1>8, ShrinksStep DEF FinishConnected, trakt, stored, NoTokens
  <2>2. state # "connected"
    BY <1>8, FlowsNonzero DEF FinishConnected, Codes, Storing
  <2>3. Held(row.pair) /\ Held(tokens.pair) /\ Held(run.next)
    BY <2>1, <2>2 DEF DeadRow, Dead, Held, Names
  <2>4. \A g \in Flows \ {f} : poller'[g] = poller[g]
    BY <1>8 DEF FinishConnected, Domains
  <2>5. \A g \in Flows : Held(poller[g].pair)
    BY <2>1, <2>4 DEF Held, Names
  <2>6. Unused # {} => Held(NextPair)
    BY <2>1, <2>3, <2>5 DEF NoGrantLeft, Shrinks, Held
  <2> QED BY <2>1, <2>3, <2>5, <2>6, GrantsHeld
<1>9. CASE Disconnect
  <2>1. \A g \in Flows : poller'[g].pc = poller[g].pc
    <3>1. CASE flow = 0
      BY <1>9, <3>1 DEF Disconnect
    <3>2. CASE flow # 0
      <4>1. poller' = [poller EXCEPT ![flow].cancelled = TRUE] /\ flow \in Flows
        BY <1>9, <3>2 DEF Disconnect, DropFlow, Ranges
      <4> QED BY <4>1 DEF Domains, PollerFields
    <3> QED BY <3>1, <3>2
  <2> GrantsStill
    BY <1>9, <2>1 DEF Disconnect, DropFlow, GrantsStill, trakt, stored, syncing
  <2> QED BY GrantsKept
<1>10. CASE DisconnectStopSync
  <2> GrantsStill
    BY <1>10 DEF DisconnectStopSync, NoResume, bounds, locks, memory, stored, trakt, GrantsStill,
      Domains, Ranges, RowFields, TokenFields, PollerFields, RunFields
  <2> QED BY GrantsKept
<1>11. CASE DisconnectPurged
  <2>1. UNCHANGED <<live, lost, tokens, run, poller>> /\ Shrinks /\ life # "finish"
    BY <1>11, ShrinksStep DEF DisconnectPurged, trakt, memory, syncing, Locks
  <2>2. Held(row.pair) /\ Held(tokens.pair) /\ Held(run.next)
    BY <2>1 DEF DeadRow, Dead, Held, Names
  <2>3. \A g \in Flows : Held(poller[g].pair)
    BY <2>1 DEF Held, Names
  <2>4. Unused # {} => Held(NextPair)
    BY <2>1, <2>2, <2>3 DEF NoGrantLeft, Shrinks, Held
  <2> QED BY <2>1, <2>2, <2>3, <2>4, GrantsHeld
<1>12. CASE DisconnectReset
  <2>1. UNCHANGED <<row, run, poller>> /\ Shrinks /\ live' \subseteq live
    BY <1>12, ShrinksStep DEF DisconnectReset, Revoke, syncing
  <2>2. Held(row.pair) /\ Held(tokens.pair) /\ Held(run.next)
    BY <1>12, <2>1 DEF DisconnectReset, Revoke, LiveOut, Held, Names
  <2>3. \A g \in Flows : Held(poller[g].pair)
    BY <2>1 DEF Held, Names
  <2>4. Unused # {} => Held(NextPair)
    BY <2>1, <2>2, <2>3 DEF NoGrantLeft, Shrinks, Held
  <2> QED BY <2>1, <2>2, <2>3, <2>4, GrantsHeld
<1>13. CASE TriggerInitial
  <2> GrantsStill
    BY <1>13 DEF TriggerInitial, NoResume, NoRun, Trigger, bounds, locks, memory, stored, trakt,
      GrantsStill, Domains, Ranges, RowFields, TokenFields, PollerFields, RunFields
  <2> QED BY GrantsKept
<1>14. CASE TriggerCheck
  <2> GrantsStill
    BY <1>14 DEF TriggerCheck, NoResume, NoRun, Trigger, bounds, locks, memory, stored, trakt,
      GrantsStill, Domains, Ranges, RowFields, TokenFields, PollerFields, RunFields
  <2> QED BY GrantsKept
<1>15. CASE StartRead
  <2> GrantsStill
    BY <1>15 DEF StartRead, CanFail, Fails, NoRun, Works, locks, memory, stored, trakt, GrantsStill,
      Domains, Ranges, RowFields, TokenFields, PollerFields, RunFields
  <2> QED BY GrantsKept
<1>16. CASE StartPlanned
  <2> GrantsStill
    BY <1>16 DEF StartPlanned, NoResume, NoRun, Plans, bounds, locks, memory, stored, trakt,
      GrantsStill, Domains, Ranges, RowFields, TokenFields, PollerFields, RunFields
  <2> QED BY GrantsKept
<1>17. CASE RunAgain
  <2> GrantsStill
    BY <1>17 DEF RunAgain, NoRun, bounds, locks, memory, stored, trakt, GrantsStill, Domains, Ranges,
      RowFields, TokenFields, PollerFields, RunFields
  <2> QED BY GrantsKept
<1>18. CASE Token
  <2>1. UNCHANGED <<live, lost, poller>> /\ Shrinks /\ tokens'.pair = tokens.pair
    BY <1>18, ShrinksStep DEF Token, trakt, Domains, TokenFields
  <2>2. row'.pair = row.pair \/ (row'.pair = tokens.pair /\ state = "connected")
    BY <1>18 DEF Token, Domains, RowFields
  <2>3. run.next = 0
    BY <1>18 DEF Token, AccountedRun
  <2>4. life # "finish" \/ state # "connected"
    BY FlowsNonzero DEF Codes, Storing
  <2>5. Held(row.pair) /\ Held(tokens.pair) /\ Held(run.next)
    BY <2>1, <2>2, <2>3, <2>4 DEF DeadRow, Dead, LiveOut, Held, Names
  <2>6. \A g \in Flows : Held(poller[g].pair)
    BY <2>1 DEF Held, Names
  <2>7. Unused # {} => Held(NextPair)
    BY <2>1, <2>5, <2>6 DEF NoGrantLeft, Shrinks, Held
  <2> QED BY <2>1, <2>5, <2>6, <2>7, GrantsHeld
<1>19. CASE RefreshAnswered
  <2>1. UNCHANGED <<row, tokens, poller, lost>> /\ Shrinks /\ run.pc = "refresh"
    BY <1>19, ShrinksStep DEF RefreshAnswered, stored, memory
  <2>2. Held(row.pair) /\ Held(tokens.pair) /\ Held(run.next)
    BY <2>1, LiveOutStep DEF AccountedRun, LiveOut, Held, Names
  <2>3. \A g \in Flows : Held(poller[g].pair)
    BY <2>1 DEF Held, Names
  <2>4. Held(NextPair)
    BY <1>19 DEF RefreshAnswered, Domains, RunFields, Held, Names
  <2> QED BY <2>1, <2>2, <2>3, <2>4, GrantsHeld
<1>20. CASE RefreshFailed
  <2>1. UNCHANGED <<row, tokens, poller>> /\ Shrinks /\ run.pc = "refresh"
    BY <1>20, ShrinksStep DEF RefreshFailed, stored, memory
  <2>2. Held(row.pair) /\ Held(tokens.pair) /\ Held(run.next)
    BY <2>1, LiveOutStep DEF AccountedRun, LiveOut, Held, Names
  <2>3. \A g \in Flows : Held(poller[g].pair)
    BY <2>1 DEF Held, Names
  <2>4. CASE UNCHANGED trakt
    <3>1. Unused # {} => Held(NextPair)
      BY <2>1, <2>2, <2>3, <2>4 DEF NoGrantLeft, Held, trakt
    <3> QED BY <2>1, <2>2, <2>3, <3>1, GrantsHeld
  <2>5. CASE NextPair \in lost'
    BY <2>1, <2>2, <2>3, <2>5, GrantsHeld DEF Held
  <2> QED BY <1>20, <2>4, <2>5 DEF RefreshFailed
<1>21. CASE RefreshRefused
  <2> GrantsStill
    BY <1>21 DEF RefreshRefused, Finish, NoResume, NoRun, bounds, stored, trakt, GrantsStill, Domains,
      Ranges, RowFields, TokenFields, PollerFields, RunFields
  <2> QED BY GrantsKept
<1>22. CASE ReauthStored
  <2> GrantsStill
    BY <1>22 DEF ReauthStored, CanFail, Current, Fails, Finish, NoResume, NoRun, Works, memory, trakt,
      GrantsStill, Domains, Ranges, RowFields, TokenFields, PollerFields, RunFields
  <2> QED BY GrantsKept
<1>23. CASE RefreshSaved
  <2>1. UNCHANGED <<live, lost, poller>> /\ Shrinks /\ run.pc = "saving"
    BY <1>23, ShrinksStep DEF RefreshSaved, trakt
  <2>2. state = "connected" /\ run.tokenGen = gen /\ Dead(tokens.pair)
    BY <2>1 DEF RefreshesOwn, RunPair
  <2>3. life # "finish" /\ disconnect # "resetting"
    BY <2>1, <2>2, FlowsNonzero DEF Codes, Storing, Locks, RefreshLock, Refreshing
  <2>4. Dead(row.pair) /\ Current(run.tokenGen)
    BY <2>2, <2>3 DEF DeadRow, Mirrored, Current
  <2>5. \/ row'.pair = run.next /\ tokens'.pair = run.next
        \/ tokens'.pair = run.next
    BY <1>23, <2>2, <2>4 DEF RefreshSaved, Refreshed, NextTokens, Domains, RowFields
  <2>6. Held(row.pair) /\ Held(tokens.pair) /\ Held(run.next)
    BY <2>1, <2>2, <2>4, <2>5 DEF Dead, Held, Names
  <2>7. \A g \in Flows : Held(poller[g].pair)
    BY <2>1 DEF Held, Names
  <2>8. Unused # {} => Held(NextPair)
    BY <2>1, <2>6, <2>7 DEF NoGrantLeft, Shrinks, Held
  <2> QED BY <2>1, <2>6, <2>7, <2>8, GrantsHeld
<1>24. CASE Invalidate
  <2> GrantsStill
    BY <1>24 DEF Invalidate, Finish, NoResume, NoRun, Retried, bounds, stored, trakt, GrantsStill,
      Domains, Ranges, RowFields, TokenFields, PollerFields, RunFields
  <2> QED BY GrantsKept
<1>25. CASE RunAnswered
  <2> GrantsStill
    BY <1>25 DEF RunAnswered, bounds, locks, memory, stored, trakt, GrantsStill, Domains, Ranges,
      RowFields, TokenFields, PollerFields, RunFields
  <2> QED BY GrantsKept
<1>26. CASE RunUnauthorized
  <2> GrantsStill
    BY <1>26 DEF RunUnauthorized, CanFail, Fails, locks, memory, stored, GrantsStill, Domains, Ranges,
      RowFields, TokenFields, PollerFields, RunFields
  <2> QED BY GrantsKept
<1>27. CASE RunFailed
  <2> GrantsStill
    BY <1>27 DEF RunFailed, CanFail, Fails, Finish, NoResume, NoRun, locks, memory, stored, trakt,
      GrantsStill, Domains, Ranges, RowFields, TokenFields, PollerFields, RunFields
  <2> QED BY GrantsKept
<1>28. CASE RunCancelled
  <2> GrantsStill
    BY <1>28 DEF RunCancelled, Finish, NoResume, NoRun, bounds, locks, memory, stored, trakt,
      GrantsStill, Domains, Ranges, RowFields, TokenFields, PollerFields, RunFields
  <2> QED BY GrantsKept
<1>29. CASE RunWrote
  <2> GrantsStill
    BY <1>29 DEF RunWrote, Current, Finish, NoResume, NoRun, bounds, locks, memory, trakt,
      GrantsStill, Domains, Ranges, RowFields, TokenFields, PollerFields, RunFields
  <2> QED BY GrantsKept
<1>30. CASE RunDone
  <2> GrantsStill
    BY <1>30 DEF RunDone, Current, Finish, NoResume, NoRun, bounds, locks, memory, trakt, GrantsStill,
      Domains, Ranges, RowFields, TokenFields, PollerFields, RunFields
  <2> QED BY GrantsKept
<1>31. CASE Crash
  <2> QED BY <1>31 DEF Crash, stored, NoGrantLeft
<1>32. CASE Withdraw
  <2> GrantsStill
    BY <1>32 DEF Withdraw, CanFail, Fails, locks, memory, stored, syncing, GrantsStill, Domains,
      Ranges, RowFields, TokenFields, PollerFields, RunFields
  <2> QED BY GrantsKept
<1>33. CASE UNCHANGED vars
  BY <1>33 DEF vars, NoGrantLeft
<1> QED
  BY <1>1, <1>2, <1>3, <1>4, <1>5, <1>6, <1>7, <1>8, <1>9, <1>10, <1>11, <1>12, <1>13, <1>14,
    <1>15, <1>16, <1>17, <1>18, <1>19, <1>20, <1>21, <1>22, <1>23, <1>24, <1>25, <1>26, <1>27,
    <1>28, <1>29, <1>30, <1>31, <1>32, <1>33 DEF Next

(***************************************************************************)
(* Blame: who took the pair the user is asked to replace                   *)
(***************************************************************************)
\* A pair that may still be revoked by its poller is nobody else's.
Apart ==
  \A f \in Flows :
    /\ poller[f].pc = "approved" => poller[f].pair \notin {row.pair, tokens.pair, run.token, run.next}
    /\ poller[f].pc = "stored" => poller[f].pair \notin {tokens.pair, run.token, run.next}

\* Where the pairs of the memory, the row and the sync come from.
PairsMove ==
  \/ \E f \in Flows : FinishStored(f)
  \/ \E f \in Flows : FinishConnected(f)
  \/ Crash
  \/ row'.pair \in {row.pair, 0, tokens.pair, run.next} /\ tokens'.pair \in {tokens.pair, 0, run.next}
RunPairsMove ==
  /\ run'.token \in {run.token, 0, tokens.pair, run.next}
  /\ run'.next \in {run.next, 0} \/ (Unused # {} /\ run'.next = NextPair)

LEMMA PairsMoveStep ==
    ASSUME Domains, [Next]_vars
    PROVE  PairsMove
<1>1. CASE Connect
  BY <1>1 DEF Connect, NoPoller, bounds, locks, stored, syncing, trakt, PairsMove, Domains,
    RowFields, TokenFields
<1>2. ASSUME NEW f \in Flows, PollApproved(f) PROVE PairsMove
  BY <1>2 DEF PollApproved, CanFail, Fails, Works, locks, memory, stored, syncing, PairsMove,
    Domains, RowFields, TokenFields
<1>3. ASSUME NEW f \in Flows, PollEnded(f) PROVE PairsMove
  BY <1>3 DEF PollEnded, EndFlow, NoPoller, bounds, locks, stored, syncing, trakt, PairsMove,
    Domains, RowFields, TokenFields
<1>4. ASSUME NEW f \in Flows, FinishUnread(f) PROVE PairsMove
  BY <1>4 DEF FinishUnread, CanFail, EndFlow, Fails, NoPoller, Revoke, Works, locks, stored,
    syncing, PairsMove, Domains, RowFields, TokenFields
<1>5. ASSUME NEW f \in Flows, FinishCancelled(f) PROVE PairsMove
  BY <1>5 DEF FinishCancelled, CanFail, Fails, NoPoller, Revoke, Works, locks, memory, stored,
    syncing, PairsMove, Domains, RowFields, TokenFields
<1>6. ASSUME NEW f \in Flows, FinishStored(f) PROVE PairsMove
  BY <1>6 DEF PairsMove
<1>7. ASSUME NEW f \in Flows, FinishRefused(f) PROVE PairsMove
  BY <1>7 DEF FinishRefused, CanFail, EndFlow, Fails, NoPoller, Works, locks, stored, syncing,
    PairsMove, Domains, RowFields, TokenFields
<1>8. ASSUME NEW f \in Flows, FinishConnected(f) PROVE PairsMove
  BY <1>8 DEF PairsMove
<1>9. CASE Disconnect
  BY <1>9 DEF Disconnect, DropFlow, bounds, stored, syncing, trakt, PairsMove, Domains, RowFields,
    TokenFields
<1>10. CASE DisconnectStopSync
  BY <1>10 DEF DisconnectStopSync, NoResume, bounds, locks, memory, stored, trakt, PairsMove,
    Domains, RowFields, TokenFields
<1>11. CASE DisconnectPurged
  <2>1. row' = row \/ row' = NoRow
    BY <1>11 DEF DisconnectPurged, stored
  <2>2. NoRow.pair = 0
    BY DEF NoRow
  <2> QED BY <1>11, <2>1, <2>2 DEF DisconnectPurged, memory, PairsMove
<1>12. CASE DisconnectReset
  BY <1>12 DEF DisconnectReset, CanFail, Fails, NoTokens, Revoke, Works, syncing, PairsMove,
    Domains, RowFields, TokenFields
<1>13. CASE TriggerInitial
  BY <1>13 DEF TriggerInitial, NoResume, NoRun, Trigger, bounds, locks, memory, stored, trakt,
    PairsMove, Domains, RowFields, TokenFields
<1>14. CASE TriggerCheck
  BY <1>14 DEF TriggerCheck, NoResume, NoRun, Trigger, bounds, locks, memory, stored, trakt,
    PairsMove, Domains, RowFields, TokenFields
<1>15. CASE StartRead
  BY <1>15 DEF StartRead, CanFail, Fails, NoRun, Works, locks, memory, stored, trakt, PairsMove,
    Domains, RowFields, TokenFields
<1>16. CASE StartPlanned
  BY <1>16 DEF StartPlanned, NoResume, NoRun, Plans, bounds, locks, memory, stored, trakt,
    PairsMove, Domains, RowFields, TokenFields
<1>17. CASE RunAgain
  BY <1>17 DEF RunAgain, NoRun, bounds, locks, memory, stored, trakt, PairsMove, Domains,
    RowFields, TokenFields
<1>18. CASE Token
  BY <1>18 DEF Token, AfterToken, CanFail, Current, Fails, Finish, NoResume, NoRun, Works, trakt,
    PairsMove, Domains, RowFields, TokenFields
<1>19. CASE RefreshAnswered
  BY <1>19 DEF RefreshAnswered, Rotated, bounds, locks, memory, stored, PairsMove, Domains,
    RowFields, TokenFields
<1>20. CASE RefreshFailed
  BY <1>20 DEF RefreshFailed, AfterToken, CanFail, Fails, Finish, Handed, NoResume, NoRun,
    Rotated, memory, stored, trakt, PairsMove, Domains, RowFields, TokenFields
<1>21. CASE RefreshRefused
  BY <1>21 DEF RefreshRefused, Finish, NoResume, NoRun, bounds, stored, trakt, PairsMove, Domains,
    RowFields, TokenFields
<1>22. CASE ReauthStored
  BY <1>22 DEF ReauthStored, CanFail, Current, Fails, Finish, NoResume, NoRun, Works, memory,
    trakt, PairsMove, Domains, RowFields, TokenFields
<1>23. CASE RefreshSaved
  BY <1>23 DEF RefreshSaved, AfterToken, CanFail, Current, Fails, Finish, Handed, NextTokens,
    NoResume, NoRun, Refreshed, Retried, Works, trakt, PairsMove, Domains, RowFields, TokenFields
<1>24. CASE Invalidate
  BY <1>24 DEF Invalidate, Finish, NoResume, NoRun, Retried, bounds, stored, trakt, PairsMove,
    Domains, RowFields, TokenFields
<1>25. CASE RunAnswered
  BY <1>25 DEF RunAnswered, bounds, locks, memory, stored, trakt, PairsMove, Domains, RowFields,
    TokenFields
<1>26. CASE RunUnauthorized
  BY <1>26 DEF RunUnauthorized, CanFail, Fails, locks, memory, stored, PairsMove, Domains,
    RowFields, TokenFields
<1>27. CASE RunFailed
  BY <1>27 DEF RunFailed, CanFail, Fails, Finish, NoResume, NoRun, locks, memory, stored, trakt,
    PairsMove, Domains, RowFields, TokenFields
<1>28. CASE RunCancelled
  BY <1>28 DEF RunCancelled, Finish, NoResume, NoRun, bounds, locks, memory, stored, trakt,
    PairsMove, Domains, RowFields, TokenFields
<1>29. CASE RunWrote
  BY <1>29 DEF RunWrote, Current, Finish, NoResume, NoRun, bounds, locks, memory, trakt,
    PairsMove, Domains, RowFields, TokenFields
<1>30. CASE RunDone
  BY <1>30 DEF RunDone, Current, Finish, NoResume, NoRun, bounds, locks, memory, trakt, PairsMove,
    Domains, RowFields, TokenFields
<1>31. CASE Crash
  BY <1>31 DEF PairsMove
<1>32. CASE Withdraw
  BY <1>32 DEF Withdraw, CanFail, Fails, locks, memory, stored, syncing, PairsMove, Domains,
    RowFields, TokenFields
<1>33. CASE UNCHANGED vars
  BY <1>33 DEF vars, PairsMove, Domains, RowFields, TokenFields
<1> QED
  BY <1>1, <1>2, <1>3, <1>4, <1>5, <1>6, <1>7, <1>8, <1>9, <1>10, <1>11, <1>12, <1>13, <1>14,
    <1>15, <1>16, <1>17, <1>18, <1>19, <1>20, <1>21, <1>22, <1>23, <1>24, <1>25, <1>26, <1>27,
    <1>28, <1>29, <1>30, <1>31, <1>32, <1>33 DEF Next

LEMMA RunPairsMoveStep ==
    ASSUME Domains, [Next]_vars
    PROVE  RunPairsMove
<1>1. RunMoves
  BY RunMovesStep
<1>2. CASE run' = run
  BY <1>2 DEF RunPairsMove
<1>3. CASE Goes
  BY <1>3 DEF Goes, RunPairsMove
<1>4. CASE MovesOn
  BY <1>4 DEF RunPairsMove, MovesOn, Stays, Next1, Refreshes, RefreshesRejected, Starts, Asks, Answered,
    HandedStarts, HandedAsks, Retries, Gets, Writes, SameToken, SameRest, TakesToken, Forgets
<1> QED BY <1>1, <1>2, <1>3, <1>4 DEF RunMoves

LEMMA ApartStep ==
    ASSUME Domains, Ranges, StateOut, RunOut, PollersOut, Storing, Fresh, Apart, [Next]_vars
    PROVE  Apart'
<1>1. CASE Crash
  BY <1>1 DEF Crash, NoPoller, Apart
<1>2. ASSUME NEW g \in Flows, PollApproved(g) PROVE Apart'
  <2>1. UNCHANGED <<row, tokens, run>>
    BY <1>2 DEF PollApproved, stored, memory, syncing
  <2>2. \A f \in Flows \ {g} : poller'[f] = poller[f]
    BY <1>2 DEF PollApproved, Domains
  <2>3. poller'[g].pair = NextPair /\ poller'[g].pc # "stored"
    BY <1>2 DEF PollApproved, Domains, PollerFields
  <2>4. NextPair \notin {row.pair, tokens.pair, run.token, run.next}
    BY <1>2, NewPair DEF PollApproved, StateOut, RunOut, Out
  <2> QED BY <2>1, <2>2, <2>3, <2>4 DEF Apart
<1>3. ASSUME NEW g \in Flows, FinishStored(g) PROVE Apart'
  <2>1. UNCHANGED <<tokens, run>> /\ row'.pair = poller[g].pair /\ poller[g].pc = "approved"
    BY <1>3 DEF FinishStored, memory, syncing
  <2>2. \A f \in Flows \ {g} : poller'[f] = poller[f]
    BY <1>3 DEF FinishStored, Domains
  <2>3. poller'[g].pair = poller[g].pair /\ poller'[g].pc = "stored"
    BY <1>3 DEF FinishStored, Domains, PollerFields
  <2>4. \A f \in Flows \ {g} : poller[f].pc = "approved" => poller[f].pair # poller[g].pair
    BY <2>1 DEF Fresh
  <2> QED BY <2>1, <2>2, <2>3, <2>4 DEF Apart
<1>4. ASSUME NEW g \in Flows, FinishConnected(g) PROVE Apart'
  <2>1. UNCHANGED <<row, run>> /\ tokens'.pair = poller[g].pair /\ poller[g].pc = "stored"
    BY <1>4 DEF FinishConnected, stored, NoTokens
  <2>2. \A f \in Flows \ {g} : poller'[f] = poller[f]
    BY <1>4 DEF FinishConnected, Domains
  <2>3. poller'[g].pc = "none"
    BY <1>4 DEF FinishConnected, Domains, NoPoller
  <2>4. \A f \in Flows \ {g} : poller[f].pc \in {"approved", "stored"} => poller[f].pair # poller[g].pair
    BY <2>1 DEF Fresh
  <2> QED BY <2>1, <2>2, <2>3, <2>4 DEF Apart
<1>5. CASE /\ ~Crash
           /\ \A g \in Flows : ~PollApproved(g) /\ ~FinishStored(g) /\ ~FinishConnected(g)
  <2> SUFFICES ASSUME NEW f \in Flows, poller'[f].pc \in {"approved", "stored"}
               PROVE  /\ poller'[f].pc = "approved" => poller'[f].pair # row'.pair
                      /\ poller'[f].pair \notin {tokens'.pair, run'.token, run'.next}
    BY DEF Apart
  <2>1. poller'[f].pc = poller[f].pc /\ poller'[f].pair = poller[f].pair
    <3>1. Moves(f)
      BY MovesStep DEF Ranges
    <3> QED BY <1>5, <3>1 DEF Moves, Same
  <2>2. /\ row'.pair \in {row.pair, 0, tokens.pair, run.next}
        /\ tokens'.pair \in {tokens.pair, 0, run.next}
    BY <1>5, PairsMoveStep DEF PairsMove
  <2>3. poller[f].pair # 0 /\ (Unused # {} => poller[f].pair # NextPair)
    BY <2>1, NewPair DEF Fresh, PollersOut, Out
  <2> QED BY <2>1, <2>2, <2>3, RunPairsMoveStep DEF RunPairsMove, Apart
<1> QED BY <1>1, <1>2, <1>3, <1>4, <1>5

\* What a step may take from Trakt, and what the member is blamed for stays.
Takes ==
  /\ (blame => blame') \/ Crash \/ DisconnectReset \/ \E f \in Flows : FinishStored(f)
  /\ \A p \in live : \/ p \in live' \/ blame' \/ DisconnectReset \/ (RefreshAnswered /\ p = run.token)
                     \/ \E f \in Flows : poller[f].pc = "approved" /\ p = poller[f].pair
                     \/ state = "off"
\* The tokens move with a connect, a refresh and a disconnect; a rejection alone is a mark.
TokensMove ==
  /\ \/ tokens'.pair = tokens.pair /\ tokens'.afterRejection = tokens.afterRejection
     \/ RefreshSaved \/ DisconnectReset \/ Crash \/ \E f \in Flows : FinishConnected(f)
  /\ run.pc = "saving" => (run'.pc = "saving" /\ run'.next = run.next) \/ RefreshSaved \/ Crash
\* The user is asked, or was when a code was taken.
Asked == state = "reauth" \/ (flow # 0 /\ poller[flow].from = "reauth" /\ poller[flow].pc # "stored")
AsksMove == Asked' => Asked \/ Crash \/ RefreshRefused \/ Invalidate

LEMMA TakesStep ==
    ASSUME Domains, [Next]_vars
    PROVE  Takes
<1>1. CASE Connect
  BY <1>1 DEF Connect, NoPoller, bounds, locks, stored, syncing, trakt, Takes
<1>2. ASSUME NEW f \in Flows, PollApproved(f) PROVE Takes
  BY <1>2 DEF PollApproved, CanFail, Fails, Works, locks, memory, stored, syncing, Takes
<1>3. ASSUME NEW f \in Flows, PollEnded(f) PROVE Takes
  BY <1>3 DEF PollEnded, EndFlow, NoPoller, bounds, locks, stored, syncing, trakt, Takes
<1>4. ASSUME NEW f \in Flows, FinishUnread(f) PROVE Takes
  BY <1>4 DEF FinishUnread, CanFail, EndFlow, Fails, NoPoller, Revoke, Works, locks, stored,
    syncing, Takes
<1>5. ASSUME NEW f \in Flows, FinishCancelled(f) PROVE Takes
  BY <1>5 DEF FinishCancelled, CanFail, Fails, NoPoller, Revoke, Works, locks, memory, stored,
    syncing, Takes
<1>6. ASSUME NEW f \in Flows, FinishStored(f) PROVE Takes
  BY <1>6 DEF FinishStored, Takes
<1>7. ASSUME NEW f \in Flows, FinishRefused(f) PROVE Takes
  BY <1>7 DEF FinishRefused, CanFail, EndFlow, Fails, NoPoller, Works, locks, stored, syncing,
    Takes
<1>8. ASSUME NEW f \in Flows, FinishConnected(f) PROVE Takes
  BY <1>8 DEF FinishConnected, NoPoller, NoTokens, bounds, stored, trakt, Takes
<1>9. CASE Disconnect
  BY <1>9 DEF Disconnect, DropFlow, bounds, stored, syncing, trakt, Takes
<1>10. CASE DisconnectStopSync
  BY <1>10 DEF DisconnectStopSync, NoResume, bounds, locks, memory, stored, trakt, Takes
<1>11. CASE DisconnectPurged
  BY <1>11 DEF DisconnectPurged, CanFail, Fails, NoRow, Purged, Works, memory, stored, syncing,
    trakt, Takes
<1>12. CASE DisconnectReset
  BY <1>12 DEF Takes
<1>13. CASE TriggerInitial
  BY <1>13 DEF TriggerInitial, NoResume, NoRun, Trigger, bounds, locks, memory, stored, trakt,
    Takes
<1>14. CASE TriggerCheck
  BY <1>14 DEF TriggerCheck, NoResume, NoRun, Trigger, bounds, locks, memory, stored, trakt, Takes
<1>15. CASE StartRead
  BY <1>15 DEF StartRead, CanFail, Fails, NoRun, Works, locks, memory, stored, trakt, Takes
<1>16. CASE StartPlanned
  BY <1>16 DEF StartPlanned, NoResume, NoRun, Plans, bounds, locks, memory, stored, trakt, Takes
<1>17. CASE RunAgain
  BY <1>17 DEF RunAgain, NoRun, bounds, locks, memory, stored, trakt, Takes
<1>18. CASE Token
  BY <1>18 DEF Token, AfterToken, CanFail, Current, Fails, Finish, NoResume, NoRun, Works, trakt,
    Takes
<1>19. CASE RefreshAnswered
  BY <1>19 DEF RefreshAnswered, Rotated, Takes
<1>20. CASE RefreshFailed
  <2>1. CASE UNCHANGED trakt
    BY <2>1 DEF trakt, Takes
  <2>2. CASE blame' = TRUE
    BY <2>2 DEF Takes
  <2> QED BY <1>20, <2>1, <2>2 DEF RefreshFailed
<1>21. CASE RefreshRefused
  BY <1>21 DEF RefreshRefused, Finish, NoResume, NoRun, bounds, stored, trakt, Takes
<1>22. CASE ReauthStored
  BY <1>22 DEF ReauthStored, CanFail, Current, Fails, Finish, NoResume, NoRun, Works, memory,
    trakt, Takes
<1>23. CASE RefreshSaved
  BY <1>23 DEF RefreshSaved, AfterToken, CanFail, Current, Fails, Finish, Handed, NextTokens,
    NoResume, NoRun, Refreshed, Retried, Works, trakt, Takes
<1>24. CASE Invalidate
  BY <1>24 DEF Invalidate, Finish, NoResume, NoRun, Retried, bounds, stored, trakt, Takes
<1>25. CASE RunAnswered
  BY <1>25 DEF RunAnswered, bounds, locks, memory, stored, trakt, Takes
<1>26. CASE RunUnauthorized
  BY <1>26 DEF RunUnauthorized, CanFail, Fails, locks, memory, stored, Takes
<1>27. CASE RunFailed
  BY <1>27 DEF RunFailed, CanFail, Fails, Finish, NoResume, NoRun, locks, memory, stored, trakt,
    Takes
<1>28. CASE RunCancelled
  BY <1>28 DEF RunCancelled, Finish, NoResume, NoRun, bounds, locks, memory, stored, trakt, Takes
<1>29. CASE RunWrote
  BY <1>29 DEF RunWrote, Current, Finish, NoResume, NoRun, bounds, locks, memory, trakt, Takes
<1>30. CASE RunDone
  BY <1>30 DEF RunDone, Current, Finish, NoResume, NoRun, bounds, locks, memory, trakt, Takes
<1>31. CASE Crash
  BY <1>31 DEF Crash, Takes
<1>32. CASE Withdraw
  BY <1>32 DEF Withdraw, CanFail, Fails, locks, memory, stored, syncing, Takes
<1>33. CASE UNCHANGED vars
  BY <1>33 DEF vars, Takes
<1> QED
  BY <1>1, <1>2, <1>3, <1>4, <1>5, <1>6, <1>7, <1>8, <1>9, <1>10, <1>11, <1>12, <1>13, <1>14,
    <1>15, <1>16, <1>17, <1>18, <1>19, <1>20, <1>21, <1>22, <1>23, <1>24, <1>25, <1>26, <1>27,
    <1>28, <1>29, <1>30, <1>31, <1>32, <1>33 DEF Next

LEMMA TokensMoveStep ==
    ASSUME Domains, [Next]_vars
    PROVE  TokensMove
<1>1. CASE Connect
  BY <1>1 DEF Connect, NoPoller, bounds, locks, stored, syncing, trakt, TokensMove, Domains,
    TokenFields, RunFields
<1>2. ASSUME NEW f \in Flows, PollApproved(f) PROVE TokensMove
  BY <1>2 DEF PollApproved, CanFail, Fails, Works, locks, memory, stored, syncing, TokensMove,
    Domains, TokenFields, RunFields
<1>3. ASSUME NEW f \in Flows, PollEnded(f) PROVE TokensMove
  BY <1>3 DEF PollEnded, EndFlow, NoPoller, bounds, locks, stored, syncing, trakt, TokensMove,
    Domains, TokenFields, RunFields
<1>4. ASSUME NEW f \in Flows, FinishUnread(f) PROVE TokensMove
  BY <1>4 DEF FinishUnread, CanFail, EndFlow, Fails, NoPoller, Revoke, Works, locks, stored,
    syncing, TokensMove, Domains, TokenFields, RunFields
<1>5. ASSUME NEW f \in Flows, FinishCancelled(f) PROVE TokensMove
  BY <1>5 DEF FinishCancelled, CanFail, Fails, NoPoller, Revoke, Works, locks, memory, stored,
    syncing, TokensMove, Domains, TokenFields, RunFields
<1>6. ASSUME NEW f \in Flows, FinishStored(f) PROVE TokensMove
  BY <1>6 DEF FinishStored, Purged, bounds, memory, stored, syncing, TokensMove, Domains,
    TokenFields, RunFields
<1>7. ASSUME NEW f \in Flows, FinishRefused(f) PROVE TokensMove
  BY <1>7 DEF FinishRefused, CanFail, EndFlow, Fails, NoPoller, Works, locks, stored, syncing,
    TokensMove, Domains, TokenFields, RunFields
<1>8. ASSUME NEW f \in Flows, FinishConnected(f) PROVE TokensMove
  BY <1>8 DEF FinishConnected, TokensMove
<1>9. CASE Disconnect
  BY <1>9 DEF Disconnect, DropFlow, bounds, stored, syncing, trakt, TokensMove, Domains,
    TokenFields, RunFields
<1>10. CASE DisconnectStopSync
  BY <1>10 DEF DisconnectStopSync, TokensMove, memory, Domains, RunFields
<1>11. CASE DisconnectPurged
  BY <1>11 DEF DisconnectPurged, CanFail, Fails, NoRow, Purged, Works, memory, stored, syncing,
    trakt, TokensMove, Domains, TokenFields, RunFields
<1>12. CASE DisconnectReset
  BY <1>12 DEF DisconnectReset, TokensMove, syncing
<1>13. CASE TriggerInitial
  BY <1>13 DEF TriggerInitial, NoResume, NoRun, Trigger, bounds, locks, memory, stored, trakt,
    TokensMove, Domains, TokenFields, RunFields
<1>14. CASE TriggerCheck
  BY <1>14 DEF TriggerCheck, NoResume, NoRun, Trigger, bounds, locks, memory, stored, trakt,
    TokensMove, Domains, TokenFields, RunFields
<1>15. CASE StartRead
  BY <1>15 DEF StartRead, CanFail, Fails, NoRun, Works, locks, memory, stored, trakt, TokensMove,
    Domains, TokenFields, RunFields
<1>16. CASE StartPlanned
  BY <1>16 DEF StartPlanned, NoResume, NoRun, Plans, bounds, locks, memory, stored, trakt,
    TokensMove, Domains, TokenFields, RunFields
<1>17. CASE RunAgain
  BY <1>17 DEF RunAgain, NoRun, bounds, locks, memory, stored, trakt, TokensMove, Domains,
    TokenFields, RunFields
<1>18. CASE Token
  BY <1>18 DEF Token, AfterToken, CanFail, Current, Fails, Finish, NoResume, NoRun, Works, trakt,
    TokensMove, Domains, TokenFields, RunFields
<1>19. CASE RefreshAnswered
  BY <1>19 DEF RefreshAnswered, Rotated, bounds, locks, memory, stored, TokensMove, Domains,
    TokenFields, RunFields
<1>20. CASE RefreshFailed
  BY <1>20 DEF RefreshFailed, AfterToken, CanFail, Fails, Finish, Handed, NoResume, NoRun,
    Rotated, memory, stored, trakt, TokensMove, Domains, TokenFields, RunFields
<1>21. CASE RefreshRefused
  BY <1>21 DEF RefreshRefused, Finish, NoResume, NoRun, bounds, stored, trakt, TokensMove,
    Domains, TokenFields, RunFields
<1>22. CASE ReauthStored
  BY <1>22 DEF ReauthStored, CanFail, Current, Fails, Finish, NoResume, NoRun, Works, memory,
    trakt, TokensMove, Domains, TokenFields, RunFields
<1>23. CASE RefreshSaved
  BY <1>23 DEF TokensMove, RefreshSaved
<1>24. CASE Invalidate
  BY <1>24 DEF Invalidate, Finish, NoResume, NoRun, Retried, bounds, stored, trakt, TokensMove,
    Domains, TokenFields, RunFields
<1>25. CASE RunAnswered
  BY <1>25 DEF RunAnswered, bounds, locks, memory, stored, trakt, TokensMove, Domains,
    TokenFields, RunFields
<1>26. CASE RunUnauthorized
  BY <1>26 DEF RunUnauthorized, CanFail, Fails, locks, memory, stored, TokensMove, Domains,
    TokenFields, RunFields
<1>27. CASE RunFailed
  BY <1>27 DEF RunFailed, CanFail, Fails, Finish, NoResume, NoRun, locks, memory, stored, trakt,
    TokensMove, Domains, TokenFields, RunFields
<1>28. CASE RunCancelled
  BY <1>28 DEF RunCancelled, Finish, NoResume, NoRun, bounds, locks, memory, stored, trakt,
    TokensMove, Domains, TokenFields, RunFields
<1>29. CASE RunWrote
  BY <1>29 DEF RunWrote, Current, Finish, NoResume, NoRun, bounds, locks, memory, trakt,
    TokensMove, Domains, TokenFields, RunFields
<1>30. CASE RunDone
  BY <1>30 DEF RunDone, Current, Finish, NoResume, NoRun, bounds, locks, memory, trakt,
    TokensMove, Domains, TokenFields, RunFields
<1>31. CASE Crash
  BY <1>31 DEF TokensMove, Crash
<1>32. CASE Withdraw
  BY <1>32 DEF Withdraw, CanFail, Fails, locks, memory, stored, syncing, TokensMove, Domains,
    TokenFields, RunFields
<1>33. CASE UNCHANGED vars
  BY <1>33 DEF vars, TokensMove, Domains, TokenFields, RunFields
<1> QED
  BY <1>1, <1>2, <1>3, <1>4, <1>5, <1>6, <1>7, <1>8, <1>9, <1>10, <1>11, <1>12, <1>13, <1>14,
    <1>15, <1>16, <1>17, <1>18, <1>19, <1>20, <1>21, <1>22, <1>23, <1>24, <1>25, <1>26, <1>27,
    <1>28, <1>29, <1>30, <1>31, <1>32, <1>33 DEF Next

LEMMA AsksStep ==
    ASSUME Domains, Ranges, PollersRange, Codes, Storing, [Next]_vars
    PROVE  AsksMove
<1>1. CASE Connect
  <2> DEFINE back == IF flow = 0 THEN state ELSE poller[flow].from
  <2>1. back = "reauth" => Asked
    BY <1>1 DEF Connect, Asked, Storing, Ranges
  <2>2. CASE flow' = 0 /\ state' = back
    BY <2>1, <2>2 DEF AsksMove, Asked
  <2>3. ASSUME NEW f \in Flows, flow' = f, state' = "pending", poller'[f].from = back PROVE AsksMove
    BY <2>1, <2>3 DEF AsksMove, Asked
  <2>4. CASE flow' # 0
    <3>1. PICK f \in Flows : flow' = f
      BY <1>1, <2>4 DEF Connect
    <3>2. Moves(f) /\ IdlePoller(f) /\ state' = "pending" /\ poller'[f].pc = "polling"
      BY <1>1, <3>1, FlowsNonzero, MovesStep DEF Connect, NoPoller, Domains, Ranges
    <3>3. poller'[f].from = back
      BY <3>2 DEF Moves, IdlePoller, Same, PollApproved
    <3> QED BY <2>3, <3>1, <3>2, <3>3
  <2> QED BY <1>1, <2>2, <2>4, FlowsNonzero DEF Connect
<1>2. ASSUME NEW f \in Flows, PollApproved(f) PROVE AsksMove
  <2>1. UNCHANGED <<state, flow>> /\ poller[f].pc = "polling"
    BY <1>2 DEF PollApproved, memory
  <2>2. poller'[f].from = poller[f].from /\ \A g \in Flows \ {f} : poller'[g] = poller[g]
    BY <1>2 DEF PollApproved, Domains, PollerFields
  <2> QED BY <2>1, <2>2 DEF AsksMove, Asked, Ranges
<1>3. ASSUME NEW f \in Flows, PollEnded(f) PROVE AsksMove
  <2>1. poller[f].pc = "polling" /\ \A g \in Flows \ {f} : poller'[g] = poller[g]
    BY <1>3 DEF PollEnded, EndFlow, Domains
  <2>2. CASE flow = f
    BY <1>3, <2>1, <2>2, FlowsNonzero DEF PollEnded, EndFlow, Codes, AsksMove, Asked
  <2>3. CASE flow # f
    BY <1>3, <2>1, <2>3 DEF PollEnded, EndFlow, AsksMove, Asked, Ranges
  <2> QED BY <2>2, <2>3
<1>4. ASSUME NEW f \in Flows, FinishUnread(f) PROVE AsksMove
  BY <1>4, FlowsNonzero DEF FinishUnread, CanFail, EndFlow, Fails, NoPoller, Revoke, Works, locks,
    stored, syncing, AsksMove, Asked, Domains, PollerFields, Ranges, PollersRange, Codes, Storing
<1>5. ASSUME NEW f \in Flows, FinishCancelled(f) PROVE AsksMove
  BY <1>5, FlowsNonzero DEF FinishCancelled, CanFail, Fails, NoPoller, Revoke, Works, locks,
    memory, stored, syncing, AsksMove, Asked, Domains, PollerFields, Ranges, PollersRange, Codes,
    Storing
<1>6. ASSUME NEW f \in Flows, FinishStored(f) PROVE AsksMove
  BY <1>6, FlowsNonzero DEF FinishStored, Purged, bounds, memory, stored, syncing, AsksMove,
    Asked, Domains, PollerFields, Ranges, PollersRange, Codes, Storing
<1>7. ASSUME NEW f \in Flows, FinishRefused(f) PROVE AsksMove
  BY <1>7, FlowsNonzero DEF FinishRefused, CanFail, EndFlow, Fails, NoPoller, Works, locks,
    stored, syncing, AsksMove, Asked, Domains, PollerFields, Ranges, PollersRange, Codes, Storing
<1>8. ASSUME NEW f \in Flows, FinishConnected(f) PROVE AsksMove
  BY <1>8, FlowsNonzero DEF FinishConnected, NoPoller, NoTokens, bounds, stored, trakt, AsksMove,
    Asked, Domains, PollerFields, Ranges, PollersRange, Codes, Storing
<1>9. CASE Disconnect
  <2>1. CASE flow = 0
    BY <1>9, <2>1 DEF Disconnect, AsksMove, Asked
  <2>2. CASE flow # 0
    <3>1. poller[flow].pc # "stored"
      BY <1>9, <2>2 DEF Disconnect, Storing, Ranges
    <3> QED BY <1>9, <2>2, <3>1 DEF Disconnect, DropFlow, AsksMove, Asked
  <2> QED BY <2>1, <2>2
<1>10. CASE DisconnectStopSync
  BY <1>10, FlowsNonzero DEF DisconnectStopSync, NoResume, bounds, locks, memory, stored, trakt,
    AsksMove, Asked, Domains, PollerFields, Ranges, PollersRange, Codes, Storing
<1>11. CASE DisconnectPurged
  BY <1>11, FlowsNonzero DEF DisconnectPurged, CanFail, Fails, NoRow, Purged, Works, memory,
    stored, syncing, trakt, AsksMove, Asked, Domains, PollerFields, Ranges, PollersRange, Codes,
    Storing
<1>12. CASE DisconnectReset
  BY <1>12, FlowsNonzero DEF DisconnectReset, CanFail, Fails, NoTokens, Revoke, Works, syncing,
    AsksMove, Asked, Domains, PollerFields, Ranges, PollersRange, Codes, Storing
<1>13. CASE TriggerInitial
  BY <1>13, FlowsNonzero DEF TriggerInitial, NoResume, NoRun, Trigger, bounds, locks, memory,
    stored, trakt, AsksMove, Asked, Domains, PollerFields, Ranges, PollersRange, Codes, Storing
<1>14. CASE TriggerCheck
  BY <1>14, FlowsNonzero DEF TriggerCheck, NoResume, NoRun, Trigger, bounds, locks, memory,
    stored, trakt, AsksMove, Asked, Domains, PollerFields, Ranges, PollersRange, Codes, Storing
<1>15. CASE StartRead
  BY <1>15, FlowsNonzero DEF StartRead, CanFail, Fails, NoRun, Works, locks, memory, stored,
    trakt, AsksMove, Asked, Domains, PollerFields, Ranges, PollersRange, Codes, Storing
<1>16. CASE StartPlanned
  BY <1>16, FlowsNonzero DEF StartPlanned, NoResume, NoRun, Plans, bounds, locks, memory, stored,
    trakt, AsksMove, Asked, Domains, PollerFields, Ranges, PollersRange, Codes, Storing
<1>17. CASE RunAgain
  BY <1>17, FlowsNonzero DEF RunAgain, NoRun, bounds, locks, memory, stored, trakt, AsksMove,
    Asked, Domains, PollerFields, Ranges, PollersRange, Codes, Storing
<1>18. CASE Token
  BY <1>18, FlowsNonzero DEF Token, AfterToken, CanFail, Current, Fails, Finish, NoResume, NoRun,
    Works, trakt, AsksMove, Asked, Domains, PollerFields, Ranges, PollersRange, Codes, Storing
<1>19. CASE RefreshAnswered
  BY <1>19, FlowsNonzero DEF RefreshAnswered, Rotated, bounds, locks, memory, stored, AsksMove,
    Asked, Domains, PollerFields, Ranges, PollersRange, Codes, Storing
<1>20. CASE RefreshFailed
  BY <1>20, FlowsNonzero DEF RefreshFailed, AfterToken, CanFail, Fails, Finish, Handed, NoResume,
    NoRun, Rotated, memory, stored, trakt, AsksMove, Asked, Domains, PollerFields, Ranges,
    PollersRange, Codes, Storing
<1>21. CASE RefreshRefused
  BY <1>21 DEF AsksMove
<1>22. CASE ReauthStored
  BY <1>22, FlowsNonzero DEF ReauthStored, CanFail, Current, Fails, Finish, NoResume, NoRun,
    Works, memory, trakt, AsksMove, Asked, Domains, PollerFields, Ranges, PollersRange, Codes,
    Storing
<1>23. CASE RefreshSaved
  BY <1>23, FlowsNonzero DEF RefreshSaved, AfterToken, CanFail, Current, Fails, Finish, Handed,
    NextTokens, NoResume, NoRun, Refreshed, Retried, Works, trakt, AsksMove, Asked, Domains,
    PollerFields, Ranges, PollersRange, Codes, Storing
<1>24. CASE Invalidate
  BY <1>24 DEF AsksMove
<1>25. CASE RunAnswered
  BY <1>25, FlowsNonzero DEF RunAnswered, bounds, locks, memory, stored, trakt, AsksMove, Asked,
    Domains, PollerFields, Ranges, PollersRange, Codes, Storing
<1>26. CASE RunUnauthorized
  BY <1>26, FlowsNonzero DEF RunUnauthorized, CanFail, Fails, locks, memory, stored, AsksMove,
    Asked, Domains, PollerFields, Ranges, PollersRange, Codes, Storing
<1>27. CASE RunFailed
  BY <1>27, FlowsNonzero DEF RunFailed, CanFail, Fails, Finish, NoResume, NoRun, locks, memory,
    stored, trakt, AsksMove, Asked, Domains, PollerFields, Ranges, PollersRange, Codes, Storing
<1>28. CASE RunCancelled
  BY <1>28, FlowsNonzero DEF RunCancelled, Finish, NoResume, NoRun, bounds, locks, memory, stored,
    trakt, AsksMove, Asked, Domains, PollerFields, Ranges, PollersRange, Codes, Storing
<1>29. CASE RunWrote
  BY <1>29, FlowsNonzero DEF RunWrote, Current, Finish, NoResume, NoRun, bounds, locks, memory,
    trakt, AsksMove, Asked, Domains, PollerFields, Ranges, PollersRange, Codes, Storing
<1>30. CASE RunDone
  BY <1>30, FlowsNonzero DEF RunDone, Current, Finish, NoResume, NoRun, bounds, locks, memory,
    trakt, AsksMove, Asked, Domains, PollerFields, Ranges, PollersRange, Codes, Storing
<1>31. CASE Crash
  BY <1>31 DEF AsksMove
<1>32. CASE Withdraw
  BY <1>32, FlowsNonzero DEF Withdraw, CanFail, Fails, locks, memory, stored, syncing, AsksMove,
    Asked, Domains, PollerFields, Ranges, PollersRange, Codes, Storing
<1>33. CASE UNCHANGED vars
  BY <1>33 DEF vars, AsksMove, Asked, Domains, PollerFields, Ranges, PollersRange, Codes, Storing
<1> QED
  BY <1>1, <1>2, <1>3, <1>4, <1>5, <1>6, <1>7, <1>8, <1>9, <1>10, <1>11, <1>12, <1>13, <1>14,
    <1>15, <1>16, <1>17, <1>18, <1>19, <1>20, <1>21, <1>22, <1>23, <1>24, <1>25, <1>26, <1>27,
    <1>28, <1>29, <1>30, <1>31, <1>32, <1>33 DEF Next

\* The pair was Trakt's to take, or Trakt has taken it, wherever it is about to matter.
Taken(p) == p \in live \/ blame
BlamedAsk == Asked => blame
BlamedPairs ==
  /\ state = "connected" /\ run.pc # "saving" => Taken(tokens.pair)
  /\ run.pc = "saving" => Taken(run.next)
  /\ \A f \in Flows : poller[f].pc = "stored" => Taken(poller[f].pair)
BlamedRow ==
  /\ row.reauth => blame
  /\ run.pc = "reauth" /\ Current(run.tokenGen) => blame
BlamedTwice ==
  run.pc = "invalid" /\ state = "connected" /\ run.tokenGen = gen /\ tokens.pair = run.token
    /\ tokens.afterRejection => blame

LEMMA BlamedAskStep ==
    ASSUME Domains, Ranges, PollersRange, Locks, Codes, Storing, RefreshesOwn, RunPair,
           BlamedAsk, BlamedPairs, BlamedRow, BlamedTwice, [Next]_vars
    PROVE  BlamedAsk'
<1>1. CASE Crash
  <2>1. flow' = 0 /\ (Asked' => row.reauth /\ row # NoRow)
    BY <1>1 DEF Crash, Asked
  <2> QED BY <1>1, <2>1 DEF Crash, BlamedAsk, BlamedRow
<1>2. CASE RefreshRefused
  <2>1. state = "connected" /\ run.token = tokens.pair /\ tokens.pair \notin live /\ run.pc = "refresh"
    BY <1>2 DEF RefreshRefused, RefreshesOwn, RunPair
  <2>2. blame
    BY <2>1 DEF BlamedPairs, Taken
  <2> QED BY <1>2, <2>2 DEF RefreshRefused, trakt, BlamedAsk
<1>3. CASE Invalidate
  <2>1. blame' = blame /\ UNCHANGED <<flow, poller>>
    BY <1>3 DEF Invalidate, trakt
  <2>2. CASE state' = state
    BY <2>1, <2>2 DEF BlamedAsk, Asked
  <2>3. CASE state' # state
    BY <1>3, <2>1, <2>3 DEF Invalidate, BlamedTwice, BlamedAsk
  <2> QED BY <2>2, <2>3
<1>4. CASE DisconnectReset
  BY <1>4 DEF DisconnectReset, BlamedAsk, Asked, Locks
<1>5. ASSUME NEW f \in Flows, FinishStored(f) PROVE BlamedAsk'
  <2>1. flow = f /\ state = "pending"
    BY <1>5, FlowsNonzero DEF FinishStored, Codes
  <2>2. flow' = f /\ state' = "pending" /\ poller'[f].pc = "stored"
    BY <1>5, <2>1 DEF FinishStored, memory, Domains, PollerFields
  <2> QED BY <2>2 DEF BlamedAsk, Asked
<1>6. CASE /\ ~Crash /\ ~RefreshRefused /\ ~Invalidate /\ ~DisconnectReset
           /\ \A f \in Flows : ~FinishStored(f)
  BY <1>6, AsksStep, TakesStep DEF AsksMove, Takes, BlamedAsk
<1> QED BY <1>1, <1>2, <1>3, <1>4, <1>5, <1>6

LEMMA BlamedRowStep ==
    ASSUME Domains, Ranges, PollersRange, RunOut, Locks, RefreshLock, Codes, Storing, Fresh,
           AccountedState, Generations, Mirrored, BlamedRow, BlamedAsk', [Next]_vars
    PROVE  BlamedRow'
<1>1. CASE Crash
  <2>1. ~NoRow.reauth /\ NoRun.pc = "none"
    BY DEF NoRow, NoRun
  <2> QED BY <1>1, <2>1 DEF Crash, stored, BlamedRow
<1>2. CASE DisconnectReset
  <2>1. ~row.reauth
    <3>1. row = NoRow
      BY <1>2 DEF DisconnectReset, Mirrored, AccountedState
    <3> QED BY <3>1 DEF NoRow
  <2>2. run.pc # "reauth"
    BY <1>2 DEF DisconnectReset, Locks, RefreshLock, Refreshing
  <2> QED BY <1>2, <2>1, <2>2 DEF DisconnectReset, syncing, BlamedRow
<1>3. ASSUME NEW f \in Flows, FinishStored(f) PROVE BlamedRow'
  <2>1. run' = run /\ row'.gen = poller[f].pair /\ ~row'.reauth
    BY <1>3 DEF FinishStored, syncing
  <2>2. poller[f].pair # run.tokenGen
    BY <1>3 DEF FinishStored, Fresh
  <2> QED BY <2>1, <2>2 DEF BlamedRow, Current
<1>4. ASSUME NEW f \in Flows, FinishConnected(f) PROVE BlamedRow'
  BY <1>4 DEF FinishConnected, trakt, stored, BlamedRow, Current
<1>5. CASE /\ ~Crash /\ ~DisconnectReset
           /\ \A f \in Flows : ~FinishStored(f) /\ ~FinishConnected(f)
  <2>1. Joins /\ ReauthComes /\ (blame => blame')
    BY <1>5, JoinsStep, ReauthComesStep, TakesStep DEF Takes
  <2>2. row' = NoRow \/ row'.gen = row.gen
    BY <1>5, GensMoveStep DEF GensMove
  <2>3. NoRow.gen = 0
    BY DEF NoRow
  <2>4. row'.reauth => blame'
    BY <2>1 DEF Joins, BlamedRow, Current
  <2>5. ASSUME run'.pc = "reauth", row'.gen = run'.tokenGen PROVE blame'
    <3>1. CASE run.pc = "reauth" /\ run'.tokenGen = run.tokenGen
      BY <2>1, <2>2, <2>3, <2>5, <3>1 DEF BlamedRow, Current, Generations
    <3>2. CASE state' = "reauth"
      BY <3>2 DEF BlamedAsk, Asked
    <3> QED BY <2>1, <2>5, <3>1, <3>2 DEF ReauthComes
  <2> QED BY <2>4, <2>5 DEF BlamedRow, Current
<1> QED BY <1>1, <1>2, <1>3, <1>4, <1>5

LEMMA InvalidComes ==
    ASSUME Domains, run'.pc = "invalid", [Next]_vars
    PROVE  RunUnauthorized \/ (run.pc = "invalid" /\ SameToken)
<1>1. RunMoves
  BY RunMovesStep
<1> QED
  BY <1>1 DEF RunMoves, Goes, MovesOn, Stays, Next1, Refreshes, RefreshesRejected, Starts, Asks, Answered,
    HandedStarts, HandedAsks, Retries, Gets, Writes, SameToken, To

LEMMA BlamedTwiceStep ==
    ASSUME Domains, Ranges, PollersRange, Codes, Storing, Generations, BlamedPairs, BlamedTwice, [Next]_vars
    PROVE  BlamedTwice'
<1>1. CASE Crash
  BY <1>1 DEF Crash, NoRun, BlamedTwice
<1>2. CASE RunUnauthorized
  <2>1. UNCHANGED <<state, gen, tokens>> /\ run.pc = "asking"
    BY <1>2 DEF RunUnauthorized, memory
  <2>2. run'.token = run.token
    BY <1>2 DEF RunUnauthorized, Domains, RunFields
  <2> QED BY <1>2, <2>1, <2>2 DEF RunUnauthorized, BlamedPairs, Taken, BlamedTwice
<1>3. CASE DisconnectReset
  BY <1>3 DEF DisconnectReset, BlamedTwice
<1>4. ASSUME NEW f \in Flows, FinishConnected(f) PROVE BlamedTwice'
  BY <1>4 DEF FinishConnected, NoTokens, BlamedTwice
<1>5. ASSUME NEW f \in Flows, FinishStored(f) PROVE BlamedTwice'
  BY <1>5, FlowsNonzero DEF FinishStored, memory, Codes, BlamedTwice
<1>6. CASE /\ ~Crash /\ ~RunUnauthorized /\ ~DisconnectReset
           /\ \A f \in Flows : ~FinishStored(f) /\ ~FinishConnected(f)
  <2> SUFFICES ASSUME run'.pc = "invalid", state' = "connected", run'.tokenGen = gen',
                      tokens'.pair = run'.token, tokens'.afterRejection
               PROVE  blame'
    BY DEF BlamedTwice
  <2>1. run.pc = "invalid" /\ SameToken
    BY <1>6, InvalidComes
  <2>2. state = "connected" /\ (blame => blame')
    BY <1>6, JoinsStep, TakesStep DEF Joins, Takes
  <2>3. ~RefreshSaved
    BY <2>1 DEF RefreshSaved
  <2>4. tokens'.pair = tokens.pair /\ tokens'.afterRejection = tokens.afterRejection
    BY <1>6, <2>3, TokensMoveStep DEF TokensMove
  <2>5. gen' = gen
    BY <1>6, <2>1, GensMoveStep DEF GensMove, Generations, SameToken
  <2> QED BY <2>1, <2>2, <2>4, <2>5 DEF SameToken, BlamedTwice
<1> QED BY <1>1, <1>2, <1>3, <1>4, <1>5, <1>6

\* A pair Trakt accepts goes only by its own revoke, its own refresh or the user's hand.
LEMMA TakenStays ==
    ASSUME Domains, NEW p, Taken(p), [Next]_vars, state # "off",
           ~Crash, ~DisconnectReset, RefreshAnswered => p # run.token,
           \A f \in Flows : ~FinishStored(f),
           \A f \in Flows : poller[f].pc = "approved" => p # poller[f].pair
    PROVE  p \in live' \/ blame'
BY TakesStep DEF Takes, Taken

LEMMA PendingStays ==
    ASSUME Ranges, Codes, Storing, NEW f \in Flows, poller[f].pc = "stored"
    PROVE  state = "pending" /\ life = "finish"
BY FlowsNonzero DEF Codes, Storing

\* The pair in use: a connection's own, which no poller and no other refresh revokes.
LEMMA BlamedUse ==
    ASSUME Domains, Ranges, PollersRange, Locks, RefreshLock, Codes, Storing, RefreshesOwn, RunPair, Apart,
           Mirrored, BlamedPairs, [Next]_vars, state' = "connected", run'.pc # "saving"
    PROVE  tokens'.pair \in live' \/ blame'
<1>1. CASE Crash
  <2>1. row # NoRow /\ tokens'.pair = row.pair /\ live' = live
    BY <1>1 DEF Crash, NoTokens
  <2> QED BY <1>1, <2>1 DEF Crash
<1>2. ASSUME NEW f \in Flows, FinishConnected(f) PROVE tokens'.pair \in live' \/ blame'
  BY <1>2 DEF FinishConnected, NoTokens, trakt, BlamedPairs, Taken
<1>3. CASE RefreshSaved
  <2>1. run.pc = "saving" /\ state = "connected" /\ run.tokenGen = gen /\ UNCHANGED trakt
    BY <1>3 DEF RefreshSaved, RefreshesOwn
  <2>2. life # "finish" /\ disconnect # "resetting"
    BY <2>1, FlowsNonzero DEF Codes, Storing, Locks, RefreshLock, Refreshing
  <2>3. Current(run.tokenGen)
    BY <2>1, <2>2 DEF Mirrored, Current
  <2>4. tokens'.pair = run.next
    BY <1>3, <2>1, <2>3 DEF RefreshSaved, Refreshed, NextTokens
  <2> QED BY <2>1, <2>4 DEF trakt, BlamedPairs, Taken
<1>4. CASE RefreshAnswered
  BY <1>4 DEF RefreshAnswered, Domains, RunFields
<1>5. CASE /\ ~Crash /\ ~RefreshSaved /\ ~RefreshAnswered
           /\ \A f \in Flows : ~FinishConnected(f)
  <2>1. state = "connected"
    BY <1>5, JoinsStep DEF Joins
  <2>2. ~DisconnectReset
    BY DEF DisconnectReset
  <2>3. tokens'.pair = tokens.pair /\ run.pc # "saving"
    BY <1>5, <2>2, TokensMoveStep DEF TokensMove
  <2>4. \A f \in Flows : ~FinishStored(f)
    BY <2>1, FlowsNonzero DEF FinishStored, Codes
  <2>5. \A f \in Flows : poller[f].pc = "approved" => tokens.pair # poller[f].pair
    BY DEF Apart
  <2>6. Taken(tokens.pair)
    BY <2>1, <2>3 DEF BlamedPairs
  <2> QED BY <1>5, <2>1, <2>2, <2>3, <2>4, <2>5, <2>6, TakenStays
<1> QED BY <1>1, <1>2, <1>3, <1>4, <1>5

\* The pair a refresh brought and has not stored yet.
LEMMA BlamedNext ==
    ASSUME Domains, Ranges, PollersRange, Locks, RefreshLock, Codes, Storing, RefreshesOwn, Apart,
           BlamedPairs, [Next]_vars, run'.pc = "saving"
    PROVE  run'.next \in live' \/ blame'
<1>1. CASE RefreshAnswered
  BY <1>1 DEF RefreshAnswered, Rotated, Domains, RunFields
<1>2. CASE ~RefreshAnswered
  <2>1. run.pc = "saving" /\ run'.next = run.next
    <3>1. RunMoves
      BY RunMovesStep
    <3> QED
      BY <1>2, <3>1 DEF RunMoves, Goes, MovesOn, Stays, Next1, Refreshes, RefreshesRejected, Starts, Asks,
        Answered, HandedStarts, HandedAsks, Retries, Gets, Writes, SameRest, To
  <2>2. state = "connected"
    BY <2>1 DEF RefreshesOwn
  <2>6. ASSUME Crash PROVE FALSE
    BY <2>6 DEF Crash, NoRun
  <2>3. ~DisconnectReset
    BY <2>1 DEF DisconnectReset, Locks, RefreshLock, Refreshing
  <2>4. \A f \in Flows : ~FinishStored(f)
    BY <2>2, FlowsNonzero DEF FinishStored, Codes
  <2>5. \A f \in Flows : poller[f].pc = "approved" => run.next # poller[f].pair
    BY DEF Apart
  <2> QED BY <1>2, <2>1, <2>2, <2>3, <2>4, <2>5, <2>6, TakenStays DEF BlamedPairs
<1> QED BY <1>1, <1>2

\* The pair of a connection the memory does not know yet.
LEMMA BlamedStored ==
    ASSUME Domains, Ranges, PollersRange, Locks, Codes, Storing, Fresh, Apart, BlamedPairs, [Next]_vars,
           NEW f \in Flows, poller'[f].pc = "stored"
    PROVE  poller'[f].pair \in live' \/ blame'
<1>1. CASE FinishStored(f)
  BY <1>1 DEF FinishStored, Domains, PollerFields
<1>2. CASE ~FinishStored(f)
  <2>1. poller[f].pc = "stored" /\ poller'[f].pair = poller[f].pair
    <3>1. Moves(f)
      BY MovesStep DEF Ranges
    <3> QED BY <1>2, <3>1 DEF Moves, Same
  <2>2. state = "pending" /\ life = "finish"
    BY <2>1, PendingStays
  <2>3. ~DisconnectReset /\ \A g \in Flows : ~FinishStored(g)
    BY <2>2 DEF DisconnectReset, FinishStored, Locks
  <2>4. ASSUME Crash PROVE FALSE
    BY <2>4 DEF Crash, NoPoller
  <2>5. \A g \in Flows : poller[g].pc = "approved" => poller[f].pair # poller[g].pair
    BY <2>1 DEF Fresh
  <2>6. poller[f].pair # run.token
    BY <2>1 DEF Apart
  <2> QED BY <2>1, <2>2, <2>3, <2>4, <2>5, <2>6, TakenStays DEF BlamedPairs
<1> QED BY <1>1, <1>2

LEMMA BlamedPairsStep ==
    ASSUME Domains, Ranges, PollersRange, Locks, RefreshLock, Codes, Storing, Fresh, RefreshesOwn, RunPair,
           Apart, Mirrored, BlamedPairs, [Next]_vars
    PROVE  BlamedPairs'
<1>1. state' = "connected" /\ run'.pc # "saving" => tokens'.pair \in live' \/ blame'
  BY BlamedUse
<1>2. run'.pc = "saving" => run'.next \in live' \/ blame'
  BY BlamedNext
<1>3. \A f \in Flows : poller'[f].pc = "stored" => poller'[f].pair \in live' \/ blame'
  BY BlamedStored
<1> QED BY <1>1, <1>2, <1>3 DEF BlamedPairs, Taken

(***************************************************************************)
(* Imports: what an uninterrupted connection still owes                    *)
(***************************************************************************)
\* How far a sync is: an idle one has no plan, one that asks has a step to ask for.
SyncFields == {"queued", "initial", "resume"}
Steps ==
  /\ DOMAIN sync = SyncFields
  /\ sync.resume = NoResume \/ sync.resume.kind = "full"
  /\ sync.resume.step \in 0..2 /\ run.step \in 0..2
  /\ run.pc \in {"none", "reading", "planning", "ending"} => run.kind = "none" /\ run.gen = 0
  /\ run.pc \notin {"none", "reading", "planning", "ending"} => run.kind \in {"full", "incremental"}
  /\ run.pc \in {"fetch", "asking", "invalid"} => run.step \in {0, 1}
  /\ run.pc \in {"refresh", "saving"} /\ run.back # "token" => run.step \in {0, 1}
  /\ run.pc = "write" => run.step = 1
  /\ run.pc = "done" => run.step # 0

LEMMA NothingToResume == NoResume.step = 0 /\ NoResume.kind = "none" /\ DOMAIN NoResume = {"kind", "step", "snapshot"}
BY DEF NoResume

LEMMA FinishSteps ==
    ASSUME Steps, run.pc \notin {"none", "reading", "planning", "ending"}, NEW outcome, Finish(outcome)
    PROVE  Steps'
<1>1. run'.pc = "ending" /\ run'.kind = "none" /\ run'.gen = 0 /\ run'.step = 0
  BY DEF Finish, NoRun
<1>2. /\ DOMAIN sync' = SyncFields
      /\ \/ sync'.resume = sync.resume
         \/ sync'.resume.kind = "full" /\ sync'.resume.step \in 0..2
  <2>1. CASE sync' = sync
    BY <2>1 DEF Steps
  <2>2. CASE sync' # sync
    <3>1. run.kind = "full"
      BY <2>2 DEF Finish, Steps
    <3> DEFINE kept == IF run.gen = 0 THEN [NoResume EXCEPT !.kind = run.kind]
                       ELSE [kind |-> run.kind, step |-> run.step, snapshot |-> run.snapshot]
    <3>2. kept.kind = "full" /\ kept.step \in 0..2
      BY <3>1, NothingToResume DEF Steps
    <3>3. sync' = [sync EXCEPT !.resume = kept]
      BY <2>2 DEF Finish
    <3> HIDE DEF kept
    <3> QED BY <3>2, <3>3 DEF Steps, SyncFields
  <2> QED BY <2>1, <2>2
<1> QED BY <1>1, <1>2 DEF Steps

LEMMA HandedSteps ==
    ASSUME Domains, Steps, run.pc \in {"refresh", "saving"}, NEW p, run' = Handed(p), sync' = sync
    PROVE  Steps'
<1>1. run'.kind = run.kind /\ run'.step = run.step
  BY DEF Handed, Domains, RunFields
<1>2. CASE run.back = "token"
  BY <1>1, <1>2 DEF Handed, AfterToken, Steps, Domains, RunFields
<1>3. CASE run.back # "token"
  BY <1>1, <1>3 DEF Handed, Steps, Domains, RunFields
<1> QED BY <1>2, <1>3

LEMMA RetriedSteps ==
    ASSUME Domains, Steps, Retried, run.pc = "invalid" \/ (run.pc = "saving" /\ run.back = "invalid")
    PROVE  Steps'
<1>1. CASE run.retry
  BY <1>1, FinishSteps DEF Retried
<1>2. CASE ~run.retry
  BY <1>2 DEF Retried, Steps, Domains, RunFields
<1> QED BY <1>1, <1>2

LEMMA StepsStep ==
    ASSUME Domains, Steps, [Next]_vars
    PROVE  Steps'
<1>1. CASE Connect
  BY <1>1 DEF Connect, NoPoller, bounds, locks, stored, syncing, trakt, Steps, Domains, RunFields
<1>2. ASSUME NEW f \in Flows, PollApproved(f) PROVE Steps'
  BY <1>2 DEF PollApproved, CanFail, Fails, Works, locks, memory, stored, syncing, Steps, Domains,
    RunFields
<1>3. ASSUME NEW f \in Flows, PollEnded(f) PROVE Steps'
  BY <1>3 DEF PollEnded, EndFlow, NoPoller, bounds, locks, stored, syncing, trakt, Steps, Domains,
    RunFields
<1>4. ASSUME NEW f \in Flows, FinishUnread(f) PROVE Steps'
  BY <1>4 DEF FinishUnread, CanFail, EndFlow, Fails, NoPoller, Revoke, Works, locks, stored,
    syncing, Steps, Domains, RunFields
<1>5. ASSUME NEW f \in Flows, FinishCancelled(f) PROVE Steps'
  BY <1>5 DEF FinishCancelled, CanFail, Fails, NoPoller, Revoke, Works, locks, memory, stored,
    syncing, Steps, Domains, RunFields
<1>6. ASSUME NEW f \in Flows, FinishStored(f) PROVE Steps'
  BY <1>6 DEF FinishStored, Purged, bounds, memory, stored, syncing, Steps, Domains, RunFields
<1>7. ASSUME NEW f \in Flows, FinishRefused(f) PROVE Steps'
  BY <1>7 DEF FinishRefused, CanFail, EndFlow, Fails, NoPoller, Works, locks, stored, syncing,
    Steps, Domains, RunFields
<1>8. ASSUME NEW f \in Flows, FinishConnected(f) PROVE Steps'
  BY <1>8 DEF FinishConnected, NoPoller, NoTokens, bounds, stored, trakt, Steps, Domains,
    RunFields
<1>9. CASE Disconnect
  BY <1>9 DEF Disconnect, DropFlow, bounds, stored, syncing, trakt, Steps, Domains, RunFields
<1>10. CASE DisconnectStopSync
  <2>1. DOMAIN sync' = SyncFields /\ sync'.resume = NoResume
    BY <1>10 DEF DisconnectStopSync, Steps, SyncFields
  <2>2. /\ run'.pc = run.pc /\ run'.kind = run.kind /\ run'.gen = run.gen /\ run'.step = run.step
        /\ run'.back = run.back
    BY <1>10 DEF DisconnectStopSync, Domains, RunFields
  <2> QED BY <2>1, <2>2, NothingToResume DEF Steps
<1>11. CASE DisconnectPurged
  BY <1>11 DEF DisconnectPurged, CanFail, Fails, NoRow, Purged, Works, memory, stored, syncing,
    trakt, Steps, Domains, RunFields
<1>12. CASE DisconnectReset
  BY <1>12 DEF DisconnectReset, CanFail, Fails, NoTokens, Revoke, Works, syncing, Steps, Domains,
    RunFields
<1>13. CASE TriggerInitial
  <2>1. DOMAIN sync' = SyncFields /\ sync'.resume \in {sync.resume, NoResume}
    BY <1>13 DEF TriggerInitial, Trigger, Steps, SyncFields
  <2>2. run' = run \/ (run'.pc = "reading" /\ run'.kind = "none" /\ run'.gen = 0 /\ run'.step = 0)
    BY <1>13 DEF TriggerInitial, Trigger, NoRun
  <2> QED BY <2>1, <2>2, NothingToResume DEF Steps
<1>14. CASE TriggerCheck
  <2>1. DOMAIN sync' = SyncFields /\ sync'.resume \in {sync.resume, NoResume}
    BY <1>14 DEF TriggerCheck, Trigger, Steps, SyncFields
  <2>2. run' = run \/ (run'.pc = "reading" /\ run'.kind = "none" /\ run'.gen = 0 /\ run'.step = 0)
    BY <1>14 DEF TriggerCheck, Trigger, NoRun
  <2> QED BY <2>1, <2>2, NothingToResume DEF Steps
<1>15. CASE StartRead
  <2>1. sync' = sync /\ run.pc = "reading"
    BY <1>15 DEF StartRead
  <2>2. CASE run' = NoRun
    BY <2>1, <2>2 DEF NoRun, Steps
  <2>3. CASE run' = [run EXCEPT !.pc = "planning", !.known = data[0] # {}]
    BY <2>1, <2>3 DEF Steps, Domains, RunFields
  <2> QED BY <1>15, <2>2, <2>3 DEF StartRead
<1>16. CASE StartPlanned
  <2>1. sync' = [sync EXCEPT !.initial = FALSE, !.resume = NoResume]
    BY <1>16 DEF StartPlanned
  <2>2. PICK p \in Plans :
           run' = [NoRun EXCEPT !.pc = "token", !.kind = p.kind, !.step = p.step, !.snapshot = p.snapshot]
    BY <1>16 DEF StartPlanned
  <2>3. p.kind \in {"full", "incremental"} /\ p.step \in 0..2
    BY NothingToResume DEF Plans, Steps
  <2>4. run'.pc = "token" /\ run'.kind = p.kind /\ run'.step = p.step
    BY <2>2 DEF NoRun
  <2>5. DOMAIN sync' = SyncFields /\ sync'.resume = NoResume
    BY <2>1 DEF Steps, SyncFields
  <2> QED BY <2>3, <2>4, <2>5, NothingToResume DEF Steps
<1>17. CASE RunAgain
  <2>1. DOMAIN sync' = SyncFields /\ sync'.resume = sync.resume
    BY <1>17 DEF RunAgain, Steps, SyncFields
  <2>2. run'.pc \in {"reading", "none"} /\ run'.kind = "none" /\ run'.gen = 0 /\ run'.step = 0
    BY <1>17 DEF RunAgain, NoRun
  <2> QED BY <2>1, <2>2 DEF Steps
<1>18. CASE Token
  <2>1. run.pc \in {"token", "fetch"}
    BY <1>18 DEF Token
  <2>2. CASE \E outcome : Finish(outcome)
    BY <2>1, <2>2, FinishSteps
  <2>3. CASE run' = run /\ sync' = sync
    BY <2>3 DEF Steps
  <2>4. CASE /\ sync' = sync
             /\ run' = IF run.pc = "token" THEN [run EXCEPT !.pc = AfterToken, !.gen = gen]
                       ELSE [run EXCEPT !.pc = "asking", !.token = tokens.pair, !.tokenGen = gen]
    BY <2>1, <2>4 DEF AfterToken, Steps, Domains, RunFields
  <2>5. CASE /\ sync' = sync
             /\ run' = [run EXCEPT !.pc = "refresh", !.back = run.pc, !.token = tokens.pair, !.tokenGen = gen]
    BY <2>1, <2>5 DEF Steps, Domains, RunFields
  <2> QED BY <1>18, <2>2, <2>3, <2>4, <2>5 DEF Token
<1>19. CASE RefreshAnswered
  BY <1>19 DEF RefreshAnswered, Rotated, bounds, locks, memory, stored, Steps, Domains, RunFields
<1>20. CASE RefreshFailed
  <2>1. run.pc = "refresh"
    BY <1>20 DEF RefreshFailed
  <2> QED BY <1>20, <2>1, FinishSteps, HandedSteps DEF RefreshFailed
<1>21. CASE RefreshRefused
  <2>1. CASE run' = [run EXCEPT !.pc = "reauth"] /\ sync' = sync
    BY <1>21, <2>1 DEF RefreshRefused, Steps, Domains, RunFields
  <2>2. CASE Finish("gone")
    BY <1>21, <2>2, FinishSteps DEF RefreshRefused
  <2> QED BY <1>21, <2>1, <2>2 DEF RefreshRefused
<1>22. CASE ReauthStored
  BY <1>22, FinishSteps DEF ReauthStored
<1>23. CASE RefreshSaved
  <2>1. run.pc = "saving"
    BY <1>23 DEF RefreshSaved
  <2> QED BY <1>23, <2>1, FinishSteps, HandedSteps, RetriedSteps DEF RefreshSaved
<1>24. CASE Invalidate
  <2>1. run.pc = "invalid"
    BY <1>24 DEF Invalidate
  <2>2. CASE sync' = sync /\ (run' = [run EXCEPT !.pc = "reauth"] \/ run' = [run EXCEPT !.pc = "refresh", !.back = "invalid"])
    BY <2>1, <2>2 DEF Steps, Domains, RunFields
  <2>3. CASE Finish("gone") \/ Retried
    BY <2>1, <2>3, FinishSteps, RetriedSteps
  <2> QED BY <1>24, <2>2, <2>3 DEF Invalidate
<1>25. CASE RunAnswered
  <2>1. run.pc = "asking" /\ sync' = sync
    BY <1>25 DEF RunAnswered
  <2>2. CASE run.step = 0
    <3>1. run'.kind = run.kind /\ run'.step = 1 /\ run'.pc \in {"fetch", "done"}
      BY <1>25, <2>2 DEF RunAnswered, Domains, RunFields
    <3> QED BY <2>1, <3>1 DEF Steps
  <2>3. CASE run.step # 0
    <3>1. run'.kind = run.kind /\ run'.step = run.step /\ run'.pc = "write"
      BY <1>25, <2>3 DEF RunAnswered, Domains, RunFields
    <3> QED BY <2>1, <2>3, <3>1 DEF Steps
  <2> QED BY <2>2, <2>3
<1>26. CASE RunUnauthorized
  BY <1>26 DEF RunUnauthorized, CanFail, Fails, locks, memory, stored, Steps, Domains, RunFields
<1>27. CASE RunFailed
  BY <1>27, FinishSteps DEF RunFailed
<1>28. CASE RunCancelled
  BY <1>28, FinishSteps DEF RunCancelled
<1>29. CASE RunWrote
  <2>1. CASE Finish("gone")
    BY <1>29, <2>1, FinishSteps DEF RunWrote
  <2>2. CASE run' = [run EXCEPT !.pc = "done", !.step = 2, !.got = {}] /\ sync' = sync
    BY <1>29, <2>2 DEF RunWrote, Steps, Domains, RunFields
  <2> QED BY <1>29, <2>1, <2>2 DEF RunWrote
<1>30. CASE RunDone
  BY <1>30, FinishSteps DEF RunDone
<1>31. CASE Crash
  <2>1. DOMAIN sync' = SyncFields /\ sync'.resume = NoResume
    BY <1>31 DEF Crash, NoSync, SyncFields
  <2>2. run'.pc = "none" /\ run'.kind = "none" /\ run'.gen = 0 /\ run'.step = 0
    BY <1>31 DEF Crash, NoRun
  <2> QED BY <2>1, <2>2, NothingToResume DEF Steps
<1>32. CASE Withdraw
  BY <1>32 DEF Withdraw, CanFail, Fails, locks, memory, stored, syncing, Steps, Domains, RunFields
<1>33. CASE UNCHANGED vars
  BY <1>33 DEF vars, Steps, Domains, RunFields
<1> QED
  BY <1>1, <1>2, <1>3, <1>4, <1>5, <1>6, <1>7, <1>8, <1>9, <1>10, <1>11, <1>12, <1>13, <1>14,
    <1>15, <1>16, <1>17, <1>18, <1>19, <1>20, <1>21, <1>22, <1>23, <1>24, <1>25, <1>26, <1>27,
    <1>28, <1>29, <1>30, <1>31, <1>32, <1>33 DEF Next

\* A connection whose import nothing interrupted, and the sync that owes it.
Interrupts == disconnect \in {"locking", "resetting"} => interrupted
Open == state = "connected" /\ ~interrupted /\ ~trigger /\ ~sync.initial
OpenRun == Open => run.gen \in {0, gen} /\ ~run.moved /\ ~run.cancelled /\ run.pc # "reauth"
Due ==
  /\ sync.resume.step # 0 => sync.resume.snapshot = row.account
  /\ run.kind = "full" /\ run.step # 0 => run.snapshot = row.account
  /\ data[0] = {} \/ sync.resume # NoResume \/ run.kind = "full"
Owed ==
  Open => /\ run.pc = "planning" /\ run.known => data[0] # {}
          /\ run.kind = "incremental" => data[0] # {}
          /\ imported \/ Due

\* A connection opens when its owed import is planned.
Opens == Open' => Open \/ StartPlanned
Stops ==
  \/ (run'.moved => run.moved) /\ (run'.cancelled => run.cancelled)
  \/ DisconnectStopSync

LEMMA OpensStep ==
    ASSUME Domains, Ranges, PollersRange, Codes, Storing, Steps, [Next]_vars
    PROVE  Opens
<1>1. CASE Connect
  BY <1>1, FlowsNonzero DEF Connect, NoPoller, bounds, locks, stored, syncing, trakt, Opens, Open,
    Domains, Ranges, PollersRange, Codes, Steps, SyncFields
<1>2. ASSUME NEW f \in Flows, PollApproved(f) PROVE Opens
  BY <1>2, FlowsNonzero DEF PollApproved, CanFail, Fails, Works, locks, memory, stored, syncing,
    Opens, Open, Domains, Ranges, PollersRange, Codes, Steps, SyncFields
<1>3. ASSUME NEW f \in Flows, PollEnded(f) PROVE Opens
  BY <1>3, FlowsNonzero DEF PollEnded, EndFlow, NoPoller, bounds, locks, stored, syncing, trakt,
    Opens, Open, Domains, Ranges, PollersRange, Codes, Steps, SyncFields
<1>4. ASSUME NEW f \in Flows, FinishUnread(f) PROVE Opens
  BY <1>4, FlowsNonzero DEF FinishUnread, CanFail, EndFlow, Fails, NoPoller, Revoke, Works, locks,
    stored, syncing, Opens, Open, Domains, Ranges, PollersRange, Codes, Steps, SyncFields
<1>5. ASSUME NEW f \in Flows, FinishCancelled(f) PROVE Opens
  BY <1>5, FlowsNonzero DEF FinishCancelled, CanFail, Fails, NoPoller, Revoke, Works, locks,
    memory, stored, syncing, Opens, Open, Domains, Ranges, PollersRange, Codes, Steps, SyncFields
<1>6. ASSUME NEW f \in Flows, FinishStored(f) PROVE Opens
  <2>1. state' = state /\ state # "connected"
    BY <1>6, FlowsNonzero DEF FinishStored, Codes, memory
  <2> QED BY <2>1 DEF Opens, Open
<1>7. ASSUME NEW f \in Flows, FinishRefused(f) PROVE Opens
  BY <1>7, FlowsNonzero DEF FinishRefused, CanFail, EndFlow, Fails, NoPoller, Works, locks,
    stored, syncing, Opens, Open, Domains, Ranges, PollersRange, Codes, Steps, SyncFields
<1>8. ASSUME NEW f \in Flows, FinishConnected(f) PROVE Opens
  BY <1>8, FlowsNonzero DEF FinishConnected, NoPoller, NoTokens, bounds, stored, trakt, Opens,
    Open, Domains, Ranges, PollersRange, Codes, Steps, SyncFields
<1>9. CASE Disconnect
  BY <1>9, FlowsNonzero DEF Disconnect, DropFlow, bounds, stored, syncing, trakt, Opens, Open,
    Domains, Ranges, PollersRange, Codes, Steps, SyncFields
<1>10. CASE DisconnectStopSync
  BY <1>10 DEF DisconnectStopSync, Opens, Open
<1>11. CASE DisconnectPurged
  BY <1>11, FlowsNonzero DEF DisconnectPurged, CanFail, Fails, NoRow, Purged, Works, memory,
    stored, syncing, trakt, Opens, Open, Domains, Ranges, PollersRange, Codes, Steps, SyncFields
<1>12. CASE DisconnectReset
  BY <1>12, FlowsNonzero DEF DisconnectReset, CanFail, Fails, NoTokens, Revoke, Works, syncing,
    Opens, Open, Domains, Ranges, PollersRange, Codes, Steps, SyncFields
<1>13. CASE TriggerInitial
  <2>1. state = "connected" => sync'.initial
    BY <1>13 DEF TriggerInitial, Trigger, Steps, SyncFields
  <2> QED BY <1>13, <2>1 DEF TriggerInitial, memory, Opens, Open
<1>14. CASE TriggerCheck
  <2>1. sync'.initial = sync.initial
    BY <1>14 DEF TriggerCheck, Trigger, Steps, SyncFields
  <2> QED BY <1>14, <2>1 DEF TriggerCheck, memory, Opens, Open
<1>15. CASE StartRead
  BY <1>15, FlowsNonzero DEF StartRead, CanFail, Fails, NoRun, Works, locks, memory, stored,
    trakt, Opens, Open, Domains, Ranges, PollersRange, Codes, Steps, SyncFields
<1>16. CASE StartPlanned
  BY <1>16 DEF Opens
<1>17. CASE RunAgain
  <2>1. sync'.initial = sync.initial
    BY <1>17 DEF RunAgain, Steps, SyncFields
  <2> QED BY <1>17, <2>1 DEF RunAgain, memory, Opens, Open
<1>18. CASE Token
  BY <1>18, FlowsNonzero DEF Token, AfterToken, CanFail, Current, Fails, Finish, NoResume, NoRun,
    Works, trakt, Opens, Open, Domains, Ranges, PollersRange, Codes, Steps, SyncFields
<1>19. CASE RefreshAnswered
  BY <1>19, FlowsNonzero DEF RefreshAnswered, Rotated, bounds, locks, memory, stored, Opens, Open,
    Domains, Ranges, PollersRange, Codes, Steps, SyncFields
<1>20. CASE RefreshFailed
  BY <1>20, FlowsNonzero DEF RefreshFailed, AfterToken, CanFail, Fails, Finish, Handed, NoResume,
    NoRun, Rotated, memory, stored, trakt, Opens, Open, Domains, Ranges, PollersRange, Codes,
    Steps, SyncFields
<1>21. CASE RefreshRefused
  BY <1>21, FlowsNonzero DEF RefreshRefused, Finish, NoResume, NoRun, bounds, stored, trakt,
    Opens, Open, Domains, Ranges, PollersRange, Codes, Steps, SyncFields
<1>22. CASE ReauthStored
  BY <1>22, FlowsNonzero DEF ReauthStored, CanFail, Current, Fails, Finish, NoResume, NoRun,
    Works, memory, trakt, Opens, Open, Domains, Ranges, PollersRange, Codes, Steps, SyncFields
<1>23. CASE RefreshSaved
  BY <1>23, FlowsNonzero DEF RefreshSaved, AfterToken, CanFail, Current, Fails, Finish, Handed,
    NextTokens, NoResume, NoRun, Refreshed, Retried, Works, trakt, Opens, Open, Domains, Ranges,
    PollersRange, Codes, Steps, SyncFields
<1>24. CASE Invalidate
  BY <1>24, FlowsNonzero DEF Invalidate, Finish, NoResume, NoRun, Retried, bounds, stored, trakt,
    Opens, Open, Domains, Ranges, PollersRange, Codes, Steps, SyncFields
<1>25. CASE RunAnswered
  BY <1>25, FlowsNonzero DEF RunAnswered, bounds, locks, memory, stored, trakt, Opens, Open,
    Domains, Ranges, PollersRange, Codes, Steps, SyncFields
<1>26. CASE RunUnauthorized
  BY <1>26, FlowsNonzero DEF RunUnauthorized, CanFail, Fails, locks, memory, stored, Opens, Open,
    Domains, Ranges, PollersRange, Codes, Steps, SyncFields
<1>27. CASE RunFailed
  BY <1>27, FlowsNonzero DEF RunFailed, CanFail, Fails, Finish, NoResume, NoRun, locks, memory,
    stored, trakt, Opens, Open, Domains, Ranges, PollersRange, Codes, Steps, SyncFields
<1>28. CASE RunCancelled
  BY <1>28, FlowsNonzero DEF RunCancelled, Finish, NoResume, NoRun, bounds, locks, memory, stored,
    trakt, Opens, Open, Domains, Ranges, PollersRange, Codes, Steps, SyncFields
<1>29. CASE RunWrote
  BY <1>29, FlowsNonzero DEF RunWrote, Current, Finish, NoResume, NoRun, bounds, locks, memory,
    trakt, Opens, Open, Domains, Ranges, PollersRange, Codes, Steps, SyncFields
<1>30. CASE RunDone
  BY <1>30, FlowsNonzero DEF RunDone, Current, Finish, NoResume, NoRun, bounds, locks, memory,
    trakt, Opens, Open, Domains, Ranges, PollersRange, Codes, Steps, SyncFields
<1>31. CASE Crash
  <2>1. Open' => row # NoRow /\ interrupted'
    BY <1>31 DEF Crash, Open
  <2> QED BY <2>1 DEF Opens, Open
<1>32. CASE Withdraw
  BY <1>32, FlowsNonzero DEF Withdraw, CanFail, Fails, locks, memory, stored, syncing, Opens,
    Open, Domains, Ranges, PollersRange, Codes, Steps, SyncFields
<1>33. CASE UNCHANGED vars
  BY <1>33 DEF vars, Opens, Open, Domains, Ranges, PollersRange, Codes, Steps, SyncFields
<1> QED
  BY <1>1, <1>2, <1>3, <1>4, <1>5, <1>6, <1>7, <1>8, <1>9, <1>10, <1>11, <1>12, <1>13, <1>14,
    <1>15, <1>16, <1>17, <1>18, <1>19, <1>20, <1>21, <1>22, <1>23, <1>24, <1>25, <1>26, <1>27,
    <1>28, <1>29, <1>30, <1>31, <1>32, <1>33 DEF Next

LEMMA StopsStep ==
    ASSUME Domains, [Next]_vars
    PROVE  Stops
<1>1. CASE Connect
  BY <1>1 DEF Connect, NoPoller, bounds, locks, stored, syncing, trakt, Stops, Domains, RunFields
<1>2. ASSUME NEW f \in Flows, PollApproved(f) PROVE Stops
  BY <1>2 DEF PollApproved, CanFail, Fails, Works, locks, memory, stored, syncing, Stops, Domains,
    RunFields
<1>3. ASSUME NEW f \in Flows, PollEnded(f) PROVE Stops
  BY <1>3 DEF PollEnded, EndFlow, NoPoller, bounds, locks, stored, syncing, trakt, Stops, Domains,
    RunFields
<1>4. ASSUME NEW f \in Flows, FinishUnread(f) PROVE Stops
  BY <1>4 DEF FinishUnread, CanFail, EndFlow, Fails, NoPoller, Revoke, Works, locks, stored,
    syncing, Stops, Domains, RunFields
<1>5. ASSUME NEW f \in Flows, FinishCancelled(f) PROVE Stops
  BY <1>5 DEF FinishCancelled, CanFail, Fails, NoPoller, Revoke, Works, locks, memory, stored,
    syncing, Stops, Domains, RunFields
<1>6. ASSUME NEW f \in Flows, FinishStored(f) PROVE Stops
  BY <1>6 DEF FinishStored, Purged, bounds, memory, stored, syncing, Stops, Domains, RunFields
<1>7. ASSUME NEW f \in Flows, FinishRefused(f) PROVE Stops
  BY <1>7 DEF FinishRefused, CanFail, EndFlow, Fails, NoPoller, Works, locks, stored, syncing,
    Stops, Domains, RunFields
<1>8. ASSUME NEW f \in Flows, FinishConnected(f) PROVE Stops
  BY <1>8 DEF FinishConnected, NoPoller, NoTokens, bounds, stored, trakt, Stops, Domains,
    RunFields
<1>9. CASE Disconnect
  BY <1>9 DEF Disconnect, DropFlow, bounds, stored, syncing, trakt, Stops, Domains, RunFields
<1>10. CASE DisconnectStopSync
  BY <1>10 DEF Stops
<1>11. CASE DisconnectPurged
  BY <1>11 DEF DisconnectPurged, CanFail, Fails, NoRow, Purged, Works, memory, stored, syncing,
    trakt, Stops, Domains, RunFields
<1>12. CASE DisconnectReset
  BY <1>12 DEF DisconnectReset, CanFail, Fails, NoTokens, Revoke, Works, syncing, Stops, Domains,
    RunFields
<1>13. CASE TriggerInitial
  BY <1>13 DEF TriggerInitial, NoResume, NoRun, Trigger, bounds, locks, memory, stored, trakt,
    Stops, Domains, RunFields
<1>14. CASE TriggerCheck
  BY <1>14 DEF TriggerCheck, NoResume, NoRun, Trigger, bounds, locks, memory, stored, trakt,
    Stops, Domains, RunFields
<1>15. CASE StartRead
  <2>1. CASE run' = NoRun
    BY <2>1 DEF NoRun, Stops
  <2>2. CASE run' = [run EXCEPT !.pc = "planning", !.known = data[0] # {}]
    BY <2>2 DEF Stops, Domains, RunFields
  <2> QED BY <1>15, <2>1, <2>2 DEF StartRead
<1>16. CASE StartPlanned
  BY <1>16 DEF StartPlanned, NoResume, NoRun, Plans, bounds, locks, memory, stored, trakt, Stops,
    Domains, RunFields
<1>17. CASE RunAgain
  BY <1>17 DEF RunAgain, NoRun, bounds, locks, memory, stored, trakt, Stops, Domains, RunFields
<1>18. CASE Token
  BY <1>18 DEF Token, AfterToken, CanFail, Current, Fails, Finish, NoResume, NoRun, Works, trakt,
    Stops, Domains, RunFields
<1>19. CASE RefreshAnswered
  BY <1>19 DEF RefreshAnswered, Rotated, bounds, locks, memory, stored, Stops, Domains, RunFields
<1>20. CASE RefreshFailed
  BY <1>20 DEF RefreshFailed, AfterToken, CanFail, Fails, Finish, Handed, NoResume, NoRun,
    Rotated, memory, stored, trakt, Stops, Domains, RunFields
<1>21. CASE RefreshRefused
  BY <1>21 DEF RefreshRefused, Finish, NoResume, NoRun, bounds, stored, trakt, Stops, Domains,
    RunFields
<1>22. CASE ReauthStored
  BY <1>22 DEF ReauthStored, CanFail, Current, Fails, Finish, NoResume, NoRun, Works, memory,
    trakt, Stops, Domains, RunFields
<1>23. CASE RefreshSaved
  <2>1. CASE \E outcome : Finish(outcome)
    BY <2>1 DEF Finish, NoRun, Stops
  <2>2. CASE run' = Handed(run.next)
    BY <2>2 DEF Handed, Stops, Domains, RunFields
  <2>3. CASE Retried
    BY <2>3 DEF Retried, Finish, NoRun, Stops, Domains, RunFields
  <2> QED BY <1>23, <2>1, <2>2, <2>3 DEF RefreshSaved
<1>24. CASE Invalidate
  BY <1>24 DEF Invalidate, Finish, NoResume, NoRun, Retried, bounds, stored, trakt, Stops,
    Domains, RunFields
<1>25. CASE RunAnswered
  BY <1>25 DEF RunAnswered, bounds, locks, memory, stored, trakt, Stops, Domains, RunFields
<1>26. CASE RunUnauthorized
  BY <1>26 DEF RunUnauthorized, CanFail, Fails, locks, memory, stored, Stops, Domains, RunFields
<1>27. CASE RunFailed
  BY <1>27 DEF RunFailed, CanFail, Fails, Finish, NoResume, NoRun, locks, memory, stored, trakt,
    Stops, Domains, RunFields
<1>28. CASE RunCancelled
  BY <1>28 DEF RunCancelled, Finish, NoResume, NoRun, bounds, locks, memory, stored, trakt, Stops,
    Domains, RunFields
<1>29. CASE RunWrote
  BY <1>29 DEF RunWrote, Current, Finish, NoResume, NoRun, bounds, locks, memory, trakt, Stops,
    Domains, RunFields
<1>30. CASE RunDone
  BY <1>30 DEF RunDone, Current, Finish, NoResume, NoRun, bounds, locks, memory, trakt, Stops,
    Domains, RunFields
<1>31. CASE Crash
  BY <1>31 DEF Crash, NoPoller, NoResume, NoRow, NoRun, NoSync, NoTokens, stored, Stops, Domains,
    RunFields
<1>32. CASE Withdraw
  BY <1>32 DEF Withdraw, CanFail, Fails, locks, memory, stored, syncing, Stops, Domains, RunFields
<1>33. CASE UNCHANGED vars
  BY <1>33 DEF vars, Stops, Domains, RunFields
<1> QED
  BY <1>1, <1>2, <1>3, <1>4, <1>5, <1>6, <1>7, <1>8, <1>9, <1>10, <1>11, <1>12, <1>13, <1>14,
    <1>15, <1>16, <1>17, <1>18, <1>19, <1>20, <1>21, <1>22, <1>23, <1>24, <1>25, <1>26, <1>27,
    <1>28, <1>29, <1>30, <1>31, <1>32, <1>33 DEF Next

LEMMA InterruptsStep ==
    ASSUME Domains, Ranges, PollersRange, Locks, Codes, Interrupts, [Next]_vars
    PROVE  Interrupts'
<1>1. CASE Connect
  BY <1>1, FlowsNonzero DEF Connect, NoPoller, bounds, locks, stored, syncing, trakt, Interrupts,
    Locks, Codes, Ranges, PollersRange, Domains
<1>2. ASSUME NEW f \in Flows, PollApproved(f) PROVE Interrupts'
  BY <1>2, FlowsNonzero DEF PollApproved, CanFail, Fails, Works, locks, memory, stored, syncing,
    Interrupts, Locks, Codes, Ranges, PollersRange, Domains
<1>3. ASSUME NEW f \in Flows, PollEnded(f) PROVE Interrupts'
  BY <1>3, FlowsNonzero DEF PollEnded, EndFlow, NoPoller, bounds, locks, stored, syncing, trakt,
    Interrupts, Locks, Codes, Ranges, PollersRange, Domains
<1>4. ASSUME NEW f \in Flows, FinishUnread(f) PROVE Interrupts'
  BY <1>4, FlowsNonzero DEF FinishUnread, CanFail, EndFlow, Fails, NoPoller, Revoke, Works, locks,
    stored, syncing, Interrupts, Locks, Codes, Ranges, PollersRange, Domains
<1>5. ASSUME NEW f \in Flows, FinishCancelled(f) PROVE Interrupts'
  BY <1>5, FlowsNonzero DEF FinishCancelled, CanFail, Fails, NoPoller, Revoke, Works, locks,
    memory, stored, syncing, Interrupts, Locks, Codes, Ranges, PollersRange, Domains
<1>6. ASSUME NEW f \in Flows, FinishStored(f) PROVE Interrupts'
  BY <1>6, FlowsNonzero DEF FinishStored, Purged, bounds, memory, stored, syncing, Interrupts,
    Locks, Codes, Ranges, PollersRange, Domains
<1>7. ASSUME NEW f \in Flows, FinishRefused(f) PROVE Interrupts'
  BY <1>7, FlowsNonzero DEF FinishRefused, CanFail, EndFlow, Fails, NoPoller, Works, locks,
    stored, syncing, Interrupts, Locks, Codes, Ranges, PollersRange, Domains
<1>8. ASSUME NEW f \in Flows, FinishConnected(f) PROVE Interrupts'
  BY <1>8, FlowsNonzero DEF FinishConnected, NoPoller, NoTokens, bounds, stored, trakt,
    Interrupts, Locks, Codes, Ranges, PollersRange, Domains
<1>9. CASE Disconnect
  BY <1>9, FlowsNonzero DEF Disconnect, DropFlow, bounds, stored, syncing, trakt, Interrupts,
    Locks, Codes, Ranges, PollersRange, Domains
<1>10. CASE DisconnectStopSync
  BY <1>10, FlowsNonzero DEF DisconnectStopSync, NoResume, bounds, locks, memory, stored, trakt,
    Interrupts, Locks, Codes, Ranges, PollersRange, Domains
<1>11. CASE DisconnectPurged
  BY <1>11, FlowsNonzero DEF DisconnectPurged, CanFail, Fails, NoRow, Purged, Works, memory,
    stored, syncing, trakt, Interrupts, Locks, Codes, Ranges, PollersRange, Domains
<1>12. CASE DisconnectReset
  BY <1>12, FlowsNonzero DEF DisconnectReset, CanFail, Fails, NoTokens, Revoke, Works, syncing,
    Interrupts, Locks, Codes, Ranges, PollersRange, Domains
<1>13. CASE TriggerInitial
  BY <1>13, FlowsNonzero DEF TriggerInitial, NoResume, NoRun, Trigger, bounds, locks, memory,
    stored, trakt, Interrupts, Locks, Codes, Ranges, PollersRange, Domains
<1>14. CASE TriggerCheck
  BY <1>14, FlowsNonzero DEF TriggerCheck, NoResume, NoRun, Trigger, bounds, locks, memory,
    stored, trakt, Interrupts, Locks, Codes, Ranges, PollersRange, Domains
<1>15. CASE StartRead
  BY <1>15, FlowsNonzero DEF StartRead, CanFail, Fails, NoRun, Works, locks, memory, stored,
    trakt, Interrupts, Locks, Codes, Ranges, PollersRange, Domains
<1>16. CASE StartPlanned
  BY <1>16, FlowsNonzero DEF StartPlanned, NoResume, NoRun, Plans, bounds, locks, memory, stored,
    trakt, Interrupts, Locks, Codes, Ranges, PollersRange, Domains
<1>17. CASE RunAgain
  BY <1>17, FlowsNonzero DEF RunAgain, NoRun, bounds, locks, memory, stored, trakt, Interrupts,
    Locks, Codes, Ranges, PollersRange, Domains
<1>18. CASE Token
  BY <1>18, FlowsNonzero DEF Token, AfterToken, CanFail, Current, Fails, Finish, NoResume, NoRun,
    Works, trakt, Interrupts, Locks, Codes, Ranges, PollersRange, Domains
<1>19. CASE RefreshAnswered
  BY <1>19, FlowsNonzero DEF RefreshAnswered, Rotated, bounds, locks, memory, stored, Interrupts,
    Locks, Codes, Ranges, PollersRange, Domains
<1>20. CASE RefreshFailed
  BY <1>20, FlowsNonzero DEF RefreshFailed, AfterToken, CanFail, Fails, Finish, Handed, NoResume,
    NoRun, Rotated, memory, stored, trakt, Interrupts, Locks, Codes, Ranges, PollersRange, Domains
<1>21. CASE RefreshRefused
  BY <1>21, FlowsNonzero DEF RefreshRefused, Finish, NoResume, NoRun, bounds, stored, trakt,
    Interrupts, Locks, Codes, Ranges, PollersRange, Domains
<1>22. CASE ReauthStored
  BY <1>22, FlowsNonzero DEF ReauthStored, CanFail, Current, Fails, Finish, NoResume, NoRun,
    Works, memory, trakt, Interrupts, Locks, Codes, Ranges, PollersRange, Domains
<1>23. CASE RefreshSaved
  BY <1>23, FlowsNonzero DEF RefreshSaved, AfterToken, CanFail, Current, Fails, Finish, Handed,
    NextTokens, NoResume, NoRun, Refreshed, Retried, Works, trakt, Interrupts, Locks, Codes,
    Ranges, PollersRange, Domains
<1>24. CASE Invalidate
  BY <1>24, FlowsNonzero DEF Invalidate, Finish, NoResume, NoRun, Retried, bounds, stored, trakt,
    Interrupts, Locks, Codes, Ranges, PollersRange, Domains
<1>25. CASE RunAnswered
  BY <1>25, FlowsNonzero DEF RunAnswered, bounds, locks, memory, stored, trakt, Interrupts, Locks,
    Codes, Ranges, PollersRange, Domains
<1>26. CASE RunUnauthorized
  BY <1>26, FlowsNonzero DEF RunUnauthorized, CanFail, Fails, locks, memory, stored, Interrupts,
    Locks, Codes, Ranges, PollersRange, Domains
<1>27. CASE RunFailed
  BY <1>27, FlowsNonzero DEF RunFailed, CanFail, Fails, Finish, NoResume, NoRun, locks, memory,
    stored, trakt, Interrupts, Locks, Codes, Ranges, PollersRange, Domains
<1>28. CASE RunCancelled
  BY <1>28, FlowsNonzero DEF RunCancelled, Finish, NoResume, NoRun, bounds, locks, memory, stored,
    trakt, Interrupts, Locks, Codes, Ranges, PollersRange, Domains
<1>29. CASE RunWrote
  BY <1>29, FlowsNonzero DEF RunWrote, Current, Finish, NoResume, NoRun, bounds, locks, memory,
    trakt, Interrupts, Locks, Codes, Ranges, PollersRange, Domains
<1>30. CASE RunDone
  BY <1>30, FlowsNonzero DEF RunDone, Current, Finish, NoResume, NoRun, bounds, locks, memory,
    trakt, Interrupts, Locks, Codes, Ranges, PollersRange, Domains
<1>31. CASE Crash
  BY <1>31, FlowsNonzero DEF Crash, NoPoller, NoResume, NoRow, NoRun, NoSync, NoTokens, stored,
    Interrupts, Locks, Codes, Ranges, PollersRange, Domains
<1>32. CASE Withdraw
  BY <1>32, FlowsNonzero DEF Withdraw, CanFail, Fails, locks, memory, stored, syncing, Interrupts,
    Locks, Codes, Ranges, PollersRange, Domains
<1>33. CASE UNCHANGED vars
  BY <1>33 DEF vars, Interrupts, Locks, Codes, Ranges, PollersRange, Domains
<1> QED
  BY <1>1, <1>2, <1>3, <1>4, <1>5, <1>6, <1>7, <1>8, <1>9, <1>10, <1>11, <1>12, <1>13, <1>14,
    <1>15, <1>16, <1>17, <1>18, <1>19, <1>20, <1>21, <1>22, <1>23, <1>24, <1>25, <1>26, <1>27,
    <1>28, <1>29, <1>30, <1>31, <1>32, <1>33 DEF Next

\* While a connection stays open, it is the stored one and so is its sync.
LEMMA OpenIs ==
    ASSUME Ranges, PollersRange, Codes, Storing, ConnectedSince, AccountedState, Mirrored, Interrupts,
           OpenRun, Open
    PROVE  /\ state = "connected" /\ life # "finish" /\ disconnect \notin {"locking", "resetting"}
           /\ gen # 0 /\ row.gen = gen /\ row.account = owner[row.gen]
           /\ run.gen \in {0, row.gen} /\ ~run.moved /\ ~run.cancelled /\ run.pc # "reauth"
<1>1. state = "connected" /\ disconnect \notin {"locking", "resetting"}
  BY DEF Open, Interrupts
<1>2. life # "finish"
  BY <1>1, FlowsNonzero DEF Codes, Storing
<1> QED BY <1>1, <1>2 DEF ConnectedSince, Mirrored, AccountedState, OpenRun

LEMMA OpenRunStep ==
    ASSUME Domains, Ranges, PollersRange, Locks, Codes, Storing, RefreshesOwn, Fresh, AccountedState,
           ConnectedSince, Steps, OpenRun, [Next]_vars
    PROVE  OpenRun'
<1> SUFFICES ASSUME Open'
             PROVE  run'.gen \in {0, gen'} /\ ~run'.moved /\ ~run'.cancelled /\ run'.pc # "reauth"
  BY DEF OpenRun
<1>1. CASE StartPlanned
  BY <1>1 DEF StartPlanned, NoRun
<1>2. CASE ~StartPlanned
  <2>1. Open
    BY <1>2, OpensStep DEF Opens
  <2>2. run.gen \in {0, gen} /\ ~run.moved /\ ~run.cancelled /\ run.pc # "reauth" /\ state = "connected"
    BY <2>1 DEF OpenRun, Open
  <2>3. state' = "connected" /\ ~trigger' /\ gen' # 0
    BY ConnectedSinceStep DEF Open, ConnectedSince
  <2>4. CASE Crash
    BY <2>4 DEF Crash, NoRun
  <2>5. CASE ~Crash
    <3>1. /\ \A f \in Flows : ~FinishStored(f)
          /\ \A f \in Flows : ~FinishConnected(f)
      BY <2>2, <2>3, FlowsNonzero DEF FinishStored, FinishConnected, Codes
    <3>2. gen' = gen
      BY <2>3, <2>5, <3>1, GensMoveStep DEF GensMove
    <3>3. ~DisconnectStopSync
      BY DEF DisconnectStopSync, Open
    <3>4. ~run'.moved /\ ~run'.cancelled
      BY <2>2, <3>3, StopsStep DEF Stops
    <3>5. run'.pc # "reauth"
      BY <2>2, <2>3, ReauthComesStep DEF ReauthComes
    <3> QED BY <2>2, <3>2, <3>4, <3>5, RunGensMove
  <2> QED BY <2>4, <2>5
<1> QED BY <1>1, <1>2

LEMMA OwedFailed ==
    ASSUME Steps, OpenRun, Owed, Open, run.pc \notin {"none", "reading", "planning", "ending"},
           NEW outcome, Finish(outcome), outcome = "failed" \/ run.kind # "full",
           data'[0] = data[0], imported => imported', row'.account = row.account
    PROVE  Owed'
<1>1. run'.kind = "none" /\ run'.pc = "ending"
  BY DEF Finish, NoRun
<1>2. CASE run.kind # "full"
  <2>1. sync' = sync
    BY <1>2 DEF Finish, Steps
  <2> QED BY <1>1, <1>2, <2>1 DEF Owed, Due
<1>3. CASE run.kind = "full"
  <2> DEFINE kept == IF run.gen = 0 THEN [NoResume EXCEPT !.kind = run.kind]
                     ELSE [kind |-> run.kind, step |-> run.step, snapshot |-> run.snapshot]
  <2>1. sync' = [sync EXCEPT !.resume = kept]
    BY <1>3 DEF Finish, OpenRun
  <2>2. kept # NoResume /\ (kept.step # 0 => kept.step = run.step /\ kept.snapshot = run.snapshot)
    BY <1>3, NothingToResume
  <2> HIDE DEF kept
  <2>3. sync'.resume = kept
    BY <2>1 DEF Steps, SyncFields
  <2> QED BY <1>1, <1>3, <2>2, <2>3 DEF Owed, Due
<1> QED BY <1>2, <1>3

\* A sync that goes on with its plan owes what it owed.
OwedStill ==
  /\ run'.kind = run.kind /\ run'.step = run.step /\ run'.snapshot = run.snapshot
  /\ run'.pc = "planning" /\ run'.known => run.pc = "planning" /\ run.known
  /\ sync'.resume = sync.resume /\ data'[0] = data[0]
  /\ imported => imported'
  /\ row'.account = row.account
LEMMA OwedKept == ASSUME Open, Owed, OwedStill PROVE Owed'
BY DEF Owed, Due, OwedStill

LEMMA HandedStill ==
    ASSUME Domains, NEW p, run' = Handed(p), sync' = sync, data' = data, imported' = imported,
           row'.account = row.account
    PROVE  OwedStill
BY DEF Handed, AfterToken, OwedStill, Domains, RunFields

LEMMA OwedOpen ==
    ASSUME Domains, Ranges, PollersRange, LiveOut, Locks, Codes, Storing, AccountedState, AccountedRun,
           Generations, RefreshesOwn, ConnectedSince, Mirrored, Interrupts, Steps, OpenRun, Owed,
           Open, Open', ~StartPlanned, [Next]_vars
    PROVE  Owed'
<1>0. /\ state = "connected" /\ life # "finish" /\ disconnect \notin {"locking", "resetting"}
      /\ gen # 0 /\ row.gen = gen /\ row.account = owner[row.gen]
      /\ run.gen \in {0, row.gen} /\ ~run.cancelled /\ run.pc # "reauth"
  BY OpenIs
<1>1. CASE Connect
  <2> OwedStill
    BY <1>1 DEF Connect, NoPoller, bounds, locks, stored, syncing, trakt, OwedStill, Domains, Steps,
      SyncFields, RunFields, RowFields
  <2> QED BY OwedKept
<1>2. ASSUME NEW f \in Flows, PollApproved(f) PROVE Owed'
  <2> OwedStill
    BY <1>2 DEF PollApproved, CanFail, Fails, Works, locks, memory, stored, syncing, OwedStill,
      Domains, Steps, SyncFields, RunFields, RowFields
  <2> QED BY OwedKept
<1>3. ASSUME NEW f \in Flows, PollEnded(f) PROVE Owed'
  <2> OwedStill
    BY <1>3 DEF PollEnded, EndFlow, NoPoller, bounds, locks, stored, syncing, trakt, OwedStill,
      Domains, Steps, SyncFields, RunFields, RowFields
  <2> QED BY OwedKept
<1>4. ASSUME NEW f \in Flows, FinishUnread(f) PROVE Owed'
  <2> OwedStill
    BY <1>4 DEF FinishUnread, CanFail, EndFlow, Fails, NoPoller, Revoke, Works, locks, stored,
      syncing, OwedStill, Domains, Steps, SyncFields, RunFields, RowFields
  <2> QED BY OwedKept
<1>5. ASSUME NEW f \in Flows, FinishCancelled(f) PROVE Owed'
  <2> OwedStill
    BY <1>5 DEF FinishCancelled, CanFail, Fails, NoPoller, Revoke, Works, locks, memory, stored,
      syncing, OwedStill, Domains, Steps, SyncFields, RunFields, RowFields
  <2> QED BY OwedKept
<1>6. ASSUME NEW f \in Flows, FinishStored(f) PROVE Owed'
  BY <1>6, <1>0, FlowsNonzero DEF FinishStored, Codes
<1>7. ASSUME NEW f \in Flows, FinishRefused(f) PROVE Owed'
  <2> OwedStill
    BY <1>7 DEF FinishRefused, CanFail, EndFlow, Fails, NoPoller, Works, locks, stored, syncing,
      OwedStill, Domains, Steps, SyncFields, RunFields, RowFields
  <2> QED BY OwedKept
<1>8. ASSUME NEW f \in Flows, FinishConnected(f) PROVE Owed'
  BY <1>8, <1>0, FlowsNonzero DEF FinishConnected, Codes, Storing
<1>9. CASE Disconnect
  <2> OwedStill
    BY <1>9 DEF Disconnect, DropFlow, bounds, stored, syncing, trakt, OwedStill, Domains, Steps,
      SyncFields, RunFields, RowFields
  <2> QED BY OwedKept
<1>10. CASE DisconnectStopSync
  BY <1>10 DEF DisconnectStopSync, Open
<1>11. CASE DisconnectPurged
  BY <1>11, <1>0 DEF DisconnectPurged
<1>12. CASE DisconnectReset
  BY <1>12, <1>0 DEF DisconnectReset
<1>13. CASE TriggerInitial
  BY <1>13 DEF TriggerInitial, Open
<1>14. CASE TriggerCheck
  <2>1. sync'.resume = sync.resume /\ UNCHANGED <<data, imported, row>>
    BY <1>14 DEF TriggerCheck, Trigger, stored, Steps, SyncFields, Open
  <2>2. run' = run \/ (run.pc = "none" /\ run' = [NoRun EXCEPT !.pc = "reading"])
    BY <1>14 DEF TriggerCheck, Trigger
  <2>3. CASE run' = run
    BY <2>1, <2>3, OwedKept DEF OwedStill
  <2>4. CASE run.pc = "none" /\ run' = [NoRun EXCEPT !.pc = "reading"]
    BY <2>1, <2>4 DEF NoRun, Steps, Owed, Due
  <2> QED BY <2>2, <2>3, <2>4
<1>15. CASE StartRead
  <2>1. run.kind = "none" /\ sync' = sync /\ UNCHANGED <<data, imported, row>>
    BY <1>15 DEF StartRead, stored, Steps
  <2>2. CASE run' = NoRun
    BY <2>1, <2>2 DEF NoRun, Owed, Due
  <2>3. CASE run' = [run EXCEPT !.pc = "planning", !.known = data[0] # {}]
    <3>1. run'.kind = "none" /\ (run'.known => data[0] # {})
      BY <2>1, <2>3 DEF Domains, RunFields
    <3> QED BY <2>1, <3>1 DEF Owed, Due
  <2> QED BY <1>15, <2>2, <2>3 DEF StartRead
<1>16. CASE StartPlanned
  BY <1>16
<1>17. CASE RunAgain
  <2>1. run.kind = "none" /\ run'.kind = "none" /\ (run'.pc = "planning" => ~run'.known)
    BY <1>17 DEF RunAgain, NoRun, Steps
  <2>2. sync'.resume = sync.resume /\ UNCHANGED <<data, imported, row>>
    BY <1>17 DEF RunAgain, stored, Steps, SyncFields
  <2> QED BY <2>1, <2>2 DEF Owed, Due
<1>18. CASE Token
  <2>1. run.pc \in {"token", "fetch"} /\ UNCHANGED <<data, imported>> /\ row'.account = row.account
    BY <1>18 DEF Token, Domains, RowFields
  <2>2. CASE Finish("failed")
    BY <2>1, <2>2, OwedFailed
  <2>3. CASE UNCHANGED <<run, sync>>
    BY <2>1, <2>3, OwedKept DEF OwedStill
  <2>4. CASE /\ sync' = sync
             /\ run' = IF run.pc = "token" THEN [run EXCEPT !.pc = AfterToken, !.gen = gen]
                       ELSE [run EXCEPT !.pc = "asking", !.token = tokens.pair, !.tokenGen = gen]
    <3> OwedStill
      BY <2>1, <2>4 DEF OwedStill, AfterToken, Domains, RunFields
    <3> QED BY OwedKept
  <2>5. CASE /\ sync' = sync
             /\ run' = [run EXCEPT !.pc = "refresh", !.back = run.pc, !.token = tokens.pair, !.tokenGen = gen]
    <3> OwedStill
      BY <2>1, <2>5 DEF OwedStill, Domains, RunFields
    <3> QED BY OwedKept
  <2>6. Current(gen)
    BY <1>0 DEF Current
  <2> QED BY <1>18, <1>0, <2>2, <2>3, <2>4, <2>5, <2>6 DEF Token
<1>19. CASE RefreshAnswered
  <2> OwedStill
    BY <1>19 DEF RefreshAnswered, Rotated, bounds, locks, memory, stored, OwedStill, Domains, Steps,
      SyncFields, RunFields, RowFields
  <2> QED BY OwedKept
<1>20. CASE RefreshFailed
  <2>1. run.pc = "refresh" /\ UNCHANGED <<data, imported, row>>
    BY <1>20 DEF RefreshFailed, stored
  <2>2. CASE Finish("failed")
    BY <2>1, <2>2, OwedFailed
  <2>3. CASE run' = Handed(run.token) /\ sync' = sync
    BY <2>1, <2>3, HandedStill, OwedKept
  <2> QED BY <1>20, <2>2, <2>3 DEF RefreshFailed
<1>21. CASE RefreshRefused
  BY <1>21, <1>0 DEF RefreshRefused, RefreshesOwn, Open
<1>22. CASE ReauthStored
  BY <1>22, <1>0 DEF ReauthStored
<1>23. CASE RefreshSaved
  <2>1. run.pc = "saving" /\ UNCHANGED <<data, imported>> /\ row'.account = row.account
    BY <1>23 DEF RefreshSaved, Domains, RowFields
  <2>2. Current(run.tokenGen) /\ gen = run.tokenGen
    BY <1>0, <2>1 DEF RefreshesOwn, Current
  <2>3. CASE Finish("failed")
    BY <2>1, <2>3, OwedFailed
  <2>4. CASE Retried
    <3>1. CASE Finish("failed")
      BY <2>1, <3>1, OwedFailed
    <3>2. CASE /\ sync' = sync
               /\ run' = [run EXCEPT !.pc = "fetch", !.retry = TRUE, !.token = 0, !.tokenGen = 0,
                                     !.next = 0, !.back = "none"]
      <4> OwedStill
        BY <2>1, <3>2 DEF OwedStill, Domains, RunFields
      <4> QED BY OwedKept
    <3> QED BY <2>4, <3>1, <3>2 DEF Retried
  <2>5. CASE run' = Handed(run.next) /\ sync' = sync
    BY <2>1, <2>5, HandedStill, OwedKept
  <2> QED BY <1>23, <1>0, <2>2, <2>3, <2>4, <2>5 DEF RefreshSaved
<1>24. CASE Invalidate
  <2>1. run.pc = "invalid" /\ UNCHANGED <<data, imported, row>>
    BY <1>24 DEF Invalidate, stored
  <2>2. CASE sync' = sync /\ (run' = [run EXCEPT !.pc = "reauth"] \/ run' = [run EXCEPT !.pc = "refresh", !.back = "invalid"])
    <3> OwedStill
      BY <2>1, <2>2 DEF OwedStill, Domains, RunFields
    <3> QED BY OwedKept
  <2>3. CASE Retried
    <3>1. CASE Finish("failed")
      BY <2>1, <3>1, OwedFailed
    <3>2. CASE /\ sync' = sync
               /\ run' = [run EXCEPT !.pc = "fetch", !.retry = TRUE, !.token = 0, !.tokenGen = 0,
                                     !.next = 0, !.back = "none"]
      <4> OwedStill
        BY <2>1, <3>2 DEF OwedStill, Domains, RunFields
      <4> QED BY OwedKept
    <3> QED BY <2>3, <3>1, <3>2 DEF Retried
  <2> QED BY <1>24, <1>0, <2>2, <2>3 DEF Invalidate
<1>25. CASE RunAnswered
  <2>1. run.pc = "asking" /\ run.token \in live /\ sync' = sync /\ UNCHANGED <<data, imported, row>>
    BY <1>25 DEF RunAnswered, stored
  <2>2. CASE run.step # 0
    <3>1. run' = [run EXCEPT !.pc = "write", !.got = owner[run.token], !.retry = FALSE,
                             !.token = 0, !.tokenGen = 0]
      BY <1>25, <2>2 DEF RunAnswered
    <3> OwedStill
      BY <2>1, <3>1 DEF OwedStill, Domains, RunFields
    <3> QED BY OwedKept
  <2>3. CASE run.step = 0
    <3>1. run'.kind = run.kind /\ run'.snapshot = owner[run.token] /\ run'.pc # "planning"
      BY <1>25, <2>3 DEF RunAnswered, Domains, RunFields
    <3>2. run.gen # 0 /\ run.tokenGen # 0
      BY <2>1 DEF Generations
    <3>3. run.tokenGen = row.gen
      BY <1>0, <3>2 DEF Generations
    <3>4. owner[run.token] = row.account
      BY <1>0, <2>1, <3>3 DEF AccountedRun, LiveOut
    <3> QED BY <2>1, <3>1, <3>4 DEF Owed, Due
  <2> QED BY <2>2, <2>3
<1>26. CASE RunUnauthorized
  <2> OwedStill
    BY <1>26 DEF RunUnauthorized, CanFail, Fails, locks, memory, stored, OwedStill, Domains, Steps,
      SyncFields, RunFields, RowFields
  <2> QED BY OwedKept
<1>27. CASE RunFailed
  <2>1. run.pc \in {"asking", "write", "done"} /\ Finish("failed") /\ UNCHANGED <<data, imported, row>>
    BY <1>27 DEF RunFailed, stored
  <2> QED BY <2>1, OwedFailed
<1>28. CASE RunCancelled
  BY <1>28, <1>0 DEF RunCancelled
<1>29. CASE RunWrote
  <2>1. Current(run.gen) /\ run.pc = "write"
    BY <1>29, <1>0 DEF RunWrote, Generations, Current
  <2>2. /\ data'[0] = data[0] /\ sync' = sync /\ UNCHANGED <<row, imported>>
        /\ run' = [run EXCEPT !.pc = "done", !.step = 2, !.got = {}]
    BY <1>29, <2>1 DEF RunWrote, Domains
  <2>3. run'.kind = run.kind /\ run'.snapshot = run.snapshot /\ run'.pc = "done"
    BY <2>2 DEF Domains, RunFields
  <2>4. run.step = 1
    BY <2>1 DEF Steps
  <2> QED BY <2>2, <2>3, <2>4 DEF Owed, Due
<1>30. CASE RunDone
  <2>1. Current(run.gen) /\ run.pc = "done" /\ row' = row /\ run.step # 0
    BY <1>30, <1>0 DEF RunDone, Generations, Current, Steps
  <2>2. imported' = (imported \/ (run.kind # "incremental" /\ run.snapshot = row.account))
    BY <1>30, <2>1 DEF RunDone
  <2>3. run'.kind = "none" /\ run'.pc = "ending" /\ sync' = sync
    BY <1>30, <2>1 DEF RunDone, Finish, NoRun
  <2>4. CASE run.kind = "full"
    BY <2>1, <2>2, <2>3, <2>4 DEF Owed, Due
  <2>5. CASE run.kind = "incremental"
    BY <2>1, <2>2, <2>3, <2>5 DEF Owed, Due
  <2> QED BY <2>1, <2>4, <2>5 DEF Steps
<1>31. CASE Crash
  BY <1>31 DEF Crash, Open
<1>32. CASE Withdraw
  <2> OwedStill
    BY <1>32 DEF Withdraw, CanFail, Fails, locks, memory, stored, syncing, OwedStill, Domains, Steps,
      SyncFields, RunFields, RowFields
  <2> QED BY OwedKept
<1>33. CASE UNCHANGED vars
  BY <1>33, OwedKept DEF vars, OwedStill
<1> QED
  BY <1>1, <1>2, <1>3, <1>4, <1>5, <1>6, <1>7, <1>8, <1>9, <1>10, <1>11, <1>12, <1>13, <1>14,
    <1>15, <1>16, <1>17, <1>18, <1>19, <1>20, <1>21, <1>22, <1>23, <1>24, <1>25, <1>26, <1>27,
    <1>28, <1>29, <1>30, <1>31, <1>32, <1>33 DEF Next

LEMMA OwedStep ==
    ASSUME Domains, Ranges, PollersRange, LiveOut, Locks, Codes, Storing, AccountedState, AccountedRun,
           Generations, RefreshesOwn, ConnectedSince, Mirrored, Interrupts, Steps, OpenRun, Owed,
           [Next]_vars
    PROVE  Owed'
<1> SUFFICES ASSUME Open'
             PROVE  Owed'
  BY DEF Owed
<1>1. CASE ~StartPlanned
  BY <1>1, OpensStep, OwedOpen DEF Opens
<1>2. CASE StartPlanned
  <2>1. PICK p \in Plans :
           run' = [NoRun EXCEPT !.pc = "token", !.kind = p.kind, !.step = p.step, !.snapshot = p.snapshot]
    BY <1>2 DEF StartPlanned
  <2>2. run'.pc = "token" /\ run'.kind = p.kind /\ run'.step = p.step /\ run'.snapshot = p.snapshot
    BY <2>1 DEF NoRun
  <2>3. /\ sync'.resume = NoResume /\ UNCHANGED <<data, imported, row, state, interrupted, trigger>>
        /\ run.pc = "planning" /\ run.kind = "none"
    BY <1>2 DEF StartPlanned, stored, memory, Steps, SyncFields
  <2>4. CASE sync.initial
    <3>1. p.kind = "full" /\ p.step = 0
      BY <2>4, NothingToResume DEF Plans
    <3> QED BY <2>2, <2>3, <3>1, NothingToResume DEF Owed, Due
  <2>5. CASE ~sync.initial
    <3>1. Open
      BY <2>3, <2>5 DEF Open
    <3>2. CASE sync.resume # NoResume
      <4>1. p = sync.resume /\ p.kind = "full"
        BY <2>5, <3>2 DEF Plans, Steps
      <4> QED BY <2>2, <2>3, <3>1, <4>1, NothingToResume DEF Owed, Due
    <3>3. CASE sync.resume = NoResume
      <4>1. p.step = 0 /\ (p.kind = "full" \/ (p.kind = "incremental" /\ run.known))
        BY <2>5, <3>3, NothingToResume DEF Plans
      <4> QED BY <2>2, <2>3, <3>1, <3>3, <4>1, NothingToResume DEF Owed, Due
    <3> QED BY <3>2, <3>3
  <2> QED BY <2>4, <2>5
<1> QED BY <1>1, <1>2

(***************************************************************************)
(* The three invariants together                                           *)
(***************************************************************************)
GrantInv == RunPair /\ AsksAgain /\ DeadRow /\ PollerPairs /\ NoGrantLeft
BlameInv == Apart /\ BlamedAsk /\ BlamedPairs /\ BlamedRow /\ BlamedTwice
OweInv == Interrupts /\ Steps /\ OpenRun /\ Owed

LEMMA InitGrants == Init => GrantInv
<1> SUFFICES ASSUME Init PROVE GrantInv
  OBVIOUS
<1>1. \A f \in Flows : poller[f] = NoPoller
  BY DEF Init
<1>2. row.pair = 0 /\ ~row.reauth /\ tokens.pair = 0 /\ run.pc = "none" /\ live = {}
  BY DEF Init, NoRow, NoTokens, NoRun
<1>3. PollerPairs
  BY <1>1 DEF PollerPairs, NoPoller
<1> QED BY <1>2, <1>3 DEF GrantInv, RunPair, AsksAgain, DeadRow, Dead, NoGrantLeft

LEMMA NextGrants == IInv /\ GrantInv /\ [Next]_vars => GrantInv'
<1> SUFFICES ASSUME IInv, GrantInv, [Next]_vars PROVE GrantInv'
  OBVIOUS
<1>1. RunPair'
  BY RunPairKept, RunMovesStep, ShrinksStep, TokenPairStep DEF TokenPair, IInv, GrantInv
<1>2. AsksAgain'
  BY AsksAgainStep DEF IInv, GrantInv
<1>3. DeadRow'
  BY DeadRowStep DEF IInv, GrantInv
<1>4. PollerPairs'
  BY PollerPairsStep DEF IInv, GrantInv
<1>5. NoGrantLeft'
  BY NoGrantLeftStep DEF IInv, GrantInv
<1> QED BY <1>1, <1>2, <1>3, <1>4, <1>5 DEF GrantInv

LEMMA GrantsInductive == Spec => []GrantInv
BY InitGrants, NextGrants, Inductive, PTL DEF Spec

LEMMA InitBlame == Init => BlameInv
<1> SUFFICES ASSUME Init PROVE BlameInv
  OBVIOUS
<1>1. \A f \in Flows : poller[f].pc = "none"
  BY DEF Init, NoPoller
<1>2. ~row.reauth /\ run.pc = "none" /\ state = "off" /\ flow = 0
  BY DEF Init, NoRow, NoRun
<1> QED BY <1>1, <1>2 DEF BlameInv, Apart, BlamedAsk, Asked, BlamedPairs, BlamedRow, BlamedTwice

LEMMA NextBlame == IInv /\ GrantInv /\ BlameInv /\ [Next]_vars => BlameInv'
<1> SUFFICES ASSUME IInv, GrantInv, BlameInv, [Next]_vars PROVE BlameInv'
  OBVIOUS
<1>1. Apart'
  BY ApartStep DEF IInv, BlameInv
<1>2. BlamedAsk'
  BY BlamedAskStep DEF IInv, GrantInv, BlameInv
<1>3. BlamedPairs'
  BY BlamedPairsStep DEF IInv, GrantInv, BlameInv
<1>4. BlamedRow'
  BY <1>2, BlamedRowStep DEF IInv, BlameInv
<1>5. BlamedTwice'
  BY BlamedTwiceStep DEF IInv, BlameInv
<1> QED BY <1>1, <1>2, <1>3, <1>4, <1>5 DEF BlameInv

LEMMA BlameInductive == Spec => []BlameInv
BY InitBlame, NextBlame, Inductive, GrantsInductive, PTL DEF Spec

LEMMA InitOwed == Init => OweInv
<1> SUFFICES ASSUME Init PROVE OweInv
  OBVIOUS
<1>1. run.pc = "none" /\ run.kind = "none" /\ run.gen = 0 /\ run.step = 0
  BY DEF Init, NoRun
<1>2. DOMAIN sync = SyncFields /\ sync.resume = NoResume
  BY DEF Init, NoSync, SyncFields
<1>3. state = "off" /\ disconnect = "none"
  BY DEF Init
<1> QED BY <1>1, <1>2, <1>3, NothingToResume DEF OweInv, Interrupts, Steps, OpenRun, Owed, Open

LEMMA NextOwed == IInv /\ OweInv /\ [Next]_vars => OweInv'
<1> SUFFICES ASSUME IInv, OweInv, [Next]_vars PROVE OweInv'
  OBVIOUS
<1>1. Interrupts'
  BY InterruptsStep DEF IInv, OweInv
<1>2. Steps'
  BY StepsStep DEF IInv, OweInv
<1>3. OpenRun'
  BY OpenRunStep DEF IInv, OweInv
<1>4. Owed'
  BY OwedStep DEF IInv, OweInv
<1> QED BY <1>1, <1>2, <1>3, <1>4 DEF OweInv

LEMMA OwedInductive == Spec => []OweInv
BY InitOwed, NextOwed, Inductive, PTL DEF Spec

(* A pair Trakt still accepts is held by the row, the memory, the refresh  *)
(* that brought it or the poller that was handed it, unless its answer,    *)
(* its revoke or the process was lost (Auth.finishConnect, refresh,        *)
(* disconnect).                                                            *)
THEOREM GrantsAreHeld == Spec => []NoGrantLeft
<1>1. GrantInv => NoGrantLeft
  BY DEF GrantInv
<1> QED BY <1>1, GrantsInductive, PTL

(* A user is asked to connect again only after Trakt or a lost answer took *)
(* the pair: no pair is spent twice and no fresh one is dropped            *)
(* (Auth.refresh, Invalidate, setReauth, Load).                            *)
THEOREM ReauthIsBlamed == Spec => []ReauthHasACause
<1>1. BlameInv => ReauthHasACause
  BY DEF BlameInv, BlamedAsk, Asked, ReauthHasACause
<1> QED BY <1>1, BlameInductive, PTL

(* A connect's import is never forgotten while nothing interrupts it:      *)
(* until one from the account's own last_activities ended, it runs or the  *)
(* next sync does it (Syncer.trigger, planLocked, finish, FinishSync).     *)
THEOREM ImportStaysOwed == Spec => []ImportIsOwed
<1>1. OweInv => ImportIsOwed
  BY DEF OweInv, OpenRun, Owed, Due, Open, ImportIsOwed
<1> QED BY <1>1, OwedInductive, PTL
=============================================================================
