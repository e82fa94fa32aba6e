--------------------------- MODULE DownloadSlots ---------------------------
(***************************************************************************)
(* Which torrents download at a time (planTorrents, stepStall and          *)
(* assignSlots in internal/downloads): at most MaxSlots, a slot without    *)
(* progress is given up and retried with backoff, and holds keep torrents  *)
(* waiting.                                                                *)
(*                                                                         *)
(* Times are ages: a stall keeps how long ago its slot was taken and its   *)
(* last progress seen, and how long its retry still waits, each capped     *)
(* where the rules stop telling ages apart.  A unit of time has at least   *)
(* one pass (the loop runs one every 30 s).                                *)
(***************************************************************************)
EXTENDS Integers, FiniteSets

CONSTANTS
    Planned,       \* the torrents of the plan
    Live,          \* those whose peers deliver: data comes in every unit of a slot
    Order,         \* each torrent's place in the plan
    Goal,          \* the measure of a torrent that is all on disk
    MaxSlots, StallAfter, StallBackoff, StallBackoffMax, StreamGrace,
    MaxSlotChanges \* bound on the changes from outside

ASSUME SlotsAssumption ==
    /\ IsFiniteSet(Planned) /\ Live \subseteq Planned
    /\ Order \in [Planned -> Nat] /\ \A t, u \in Planned : Order[t] = Order[u] => t = u
    /\ Goal \in Nat \ {0} /\ MaxSlots \in Nat \ {0} /\ StallAfter \in Nat \ {0}
    /\ StallBackoff \in Nat \ {0} /\ StallBackoffMax \in Nat /\ StallBackoff <= StallBackoffMax
    /\ StreamGrace \in Nat /\ MaxSlotChanges \in Nat

VARIABLES
    wanted,     \* the torrents with admitted files
    measure,    \* the bytes on disk and arrived of each
    paused,     \* those the user paused
    onHold,     \* downloads are disabled, outside every window, or the disk is full
    current,    \* the torrents sessions play
    active,     \* whether anything streams, the CDN included
    seen,       \* how long ago a read of the sessions saw a stream of each torrent
    lastSeen,   \* how long ago one saw any
    stalls,     \* each torrent's slot history
    state,      \* each torrent's state after the last pass
    passed,     \* whether a pass ran in this unit
    idle,       \* how long each has downloaded without anything arriving
    slotChanges

outside == <<wanted, measure, paused, onHold, current, active>>
slotVars == <<outside, seen, lastSeen, stalls, state, passed, idle, slotChanges>>

-----------------------------------------------------------------------------
Lesser(m, n) == IF m < n THEN m ELSE n
NoSlot == -1
Long == StreamGrace   \* an age past the grace
\* The zero stall: no slot, no progress seen.
NoStall == [slot |-> NoSlot, progress |-> 0, since |-> StallAfter, attempts |-> 0, retry |-> 0]
Holds(t) == stalls[t].slot # NoSlot
SlotChange == slotChanges < MaxSlotChanges /\ slotChanges' = slotChanges + 1

\* As if the wait stayed that of the first stall.
BugBackoffFlat(n) == StallBackoff

\* The wait after the nth stall in a row doubles up to the maximum.
backoff(n) == Lesser(StallBackoff * 2^(n - 1), StallBackoffMax)
\* More attempts than these wait as long.
Attempts == StallBackoffMax + 1

\* As if data that goes counted as progress too.
BugStepStall(s, m) ==
    LET grown == IF m # s.progress
                 THEN [s EXCEPT !.progress = m, !.since = 0, !.attempts = 0, !.retry = 0]
                 ELSE s
        n == Lesser(grown.attempts + 1, Attempts)
    IN  IF s.slot # NoSlot /\ Lesser(grown.slot, grown.since) >= StallAfter
        THEN [grown EXCEPT !.slot = NoSlot, !.attempts = n, !.retry = backoff(n)]
        ELSE grown

\* Growth is progress, which starts the backoff over; a slot held StallAfter
\* without any is a stall, which gives the slot up.
stepStall(s, m) ==
    LET grown == IF m > s.progress
                 THEN [s EXCEPT !.progress = m, !.since = 0, !.attempts = 0, !.retry = 0]
                 ELSE [s EXCEPT !.progress = m]
        n == Lesser(grown.attempts + 1, Attempts)
    IN  IF s.slot # NoSlot /\ Lesser(grown.slot, grown.since) >= StallAfter
        THEN [grown EXCEPT !.slot = NoSlot, !.attempts = n, !.retry = backoff(n)]
        ELSE grown

-----------------------------------------------------------------------------
(* A pass, over the sessions it reads.                                     *)

SeenNow(t) == IF t \in current THEN 0 ELSE seen[t]
LastSeenNow == IF active THEN 0 ELSE lastSeen
Streamed(t) == t \in current \/ SeenNow(t) < Long
AwaitsStream == active \/ LastSeenNow < Long

\* The state of torrent t with the stall s, the first that matches.
torrentState(t, s, inSlot) ==
    IF measure[t] = Goal THEN "done"
    ELSE IF onHold \/ t \in paused THEN "held"
    ELSE IF AwaitsStream /\ ~Streamed(t) THEN "waiting_for_stream"
    ELSE IF s.retry > 0 THEN "stalled"
    ELSE IF inSlot THEN "downloading" ELSE "queued"

\* Streamed torrents first, then those that hold a slot, then plan order.
Before(t, u, stepped) ==
    LET holder(v) == Holds(v) /\ stepped[v].slot # NoSlot
    IN  IF Streamed(t) # Streamed(u) THEN Streamed(t)
        ELSE IF holder(t) # holder(u) THEN holder(t)
        ELSE Order[t] < Order[u]

assignSlots(stepped) ==
    LET ready == {t \in wanted : torrentState(t, stepped[t], TRUE) = "downloading"}
    IN  {t \in ready : Cardinality({u \in ready : Before(u, t, stepped)}) < MaxSlots}

SlotAge(s, inSlot) == IF ~inSlot THEN NoSlot ELSE IF s.slot = NoSlot THEN 0 ELSE s.slot

\* planTorrents, and apply keeping its stalls.
Pass ==
    LET stepped == [t \in Planned |-> stepStall(stalls[t], measure[t])]
        slots == assignSlots(stepped)
    IN  /\ stalls' = [t \in Planned |->
              IF t \in wanted THEN [stepped[t] EXCEPT !.slot = SlotAge(stepped[t], t \in slots)]
              ELSE NoStall]
        /\ state' = [t \in Planned |->
              IF t \in wanted THEN torrentState(t, stepped[t], t \in slots) ELSE "none"]
        /\ seen' = [t \in Planned |-> SeenNow(t)] /\ lastSeen' = LastSeenNow
        /\ passed' = TRUE
        /\ idle' = [t \in Planned |-> IF state'[t] = "downloading" /\ Holds(t) THEN idle[t] ELSE 0]
        /\ UNCHANGED <<outside, slotChanges>>

-----------------------------------------------------------------------------
(* What happens around the passes.                                         *)

Downloads(t) == state[t] = "downloading" /\ t \in wanted
Older(age, most) == IF age < most THEN age + 1 ELSE age

\* A unit of time: what downloads or streams from live peers grows.
Tick ==
    LET fetched(t) == t \in Live /\ (Downloads(t) \/ t \in current) /\ measure[t] < Goal
    IN  /\ passed /\ passed' = FALSE
        /\ measure' = [t \in Planned |-> IF fetched(t) THEN measure[t] + 1 ELSE measure[t]]
        /\ idle' = [t \in Planned |->
              IF Downloads(t) /\ ~fetched(t) THEN Older(idle[t], StallAfter + 2) ELSE 0]
        /\ stalls' = [t \in Planned |-> [stalls[t] EXCEPT
              !.slot = IF @ = NoSlot THEN NoSlot ELSE Older(@, StallAfter),
              !.since = Older(@, StallAfter),
              !.retry = IF @ > 0 THEN @ - 1 ELSE 0]]
        /\ seen' = [t \in Planned |-> Older(seen[t], Long)]
        /\ lastSeen' = Older(lastSeen, Long)
        /\ UNCHANGED <<wanted, paused, onHold, current, active, state, slotChanges>>

\* A peer of a dead torrent appears for a while, or chunks that arrived are
\* dropped as their piece fails its hash.
Arrives(t, m) ==
    /\ SlotChange /\ m \in 0..Goal
    /\ measure' = [measure EXCEPT ![t] = m]
    /\ idle' = IF m > measure[t] THEN [idle EXCEPT ![t] = 0] ELSE idle
    /\ UNCHANGED <<wanted, paused, onHold, current, active, seen, lastSeen, stalls, state, passed>>

\* Downloads are kept and released, the user pauses and resumes, windows
\* open and close, sessions start and end.
Changes(w, p, h, c, a) ==
    /\ SlotChange
    /\ wanted' = w /\ paused' = p /\ onHold' = h /\ current' = c /\ active' = (a \/ c # {})
    /\ UNCHANGED <<measure, seen, lastSeen, stalls, state, passed, idle>>

\* The service starts again: the stalls and the sessions are forgotten.
SlotsRestart ==
    /\ SlotChange
    /\ current' = {} /\ active' = FALSE
    /\ seen' = [t \in Planned |-> Long] /\ lastSeen' = Long
    /\ stalls' = [t \in Planned |-> NoStall] /\ state' = [t \in Planned |-> "none"]
    /\ idle' = [t \in Planned |-> 0]
    /\ UNCHANGED <<wanted, measure, paused, onHold, passed>>

SlotsInit ==
    /\ wanted \in SUBSET Planned /\ measure = [t \in Planned |-> 0]
    /\ paused = {} /\ onHold = FALSE /\ current = {} /\ active = FALSE
    /\ seen = [t \in Planned |-> Long] /\ lastSeen = Long
    /\ stalls = [t \in Planned |-> NoStall] /\ state = [t \in Planned |-> "none"]
    /\ passed = FALSE /\ idle = [t \in Planned |-> 0] /\ slotChanges = 0

Flip(set, t) == IF t \in set THEN set \ {t} ELSE set \cup {t}
SlotsNext ==
    \/ Pass \/ Tick \/ SlotsRestart
    \/ \E t \in Planned :
          \/ \E m \in {measure[t] - 1, measure[t] + 1} : Arrives(t, m)
          \/ Changes(Flip(wanted, t), paused, onHold, current, active)
          \/ Changes(wanted, Flip(paused, t), onHold, current, active)
          \/ Changes(wanted, paused, onHold, Flip(current, t), FALSE)
    \/ Changes(wanted, paused, ~onHold, current, active)
    \/ Changes(wanted, paused, onHold, {}, ~active)

SlotsSpec == SlotsInit /\ [][SlotsNext]_slotVars
\* The loop runs its passes, and time goes on.
SlotsFairSpec == SlotsSpec /\ WF_slotVars(Pass) /\ WF_slotVars(Tick)

-----------------------------------------------------------------------------
States == {"none", "done", "held", "waiting_for_stream", "stalled", "downloading", "queued"}
SlotsTypeOK ==
    /\ wanted \subseteq Planned /\ measure \in [Planned -> 0..Goal] /\ paused \subseteq Planned
    /\ onHold \in BOOLEAN /\ current \subseteq Planned /\ active \in BOOLEAN
    /\ seen \in [Planned -> 0..Long] /\ lastSeen \in 0..Long
    /\ stalls \in [Planned -> [slot : NoSlot..StallAfter, progress : 0..Goal, since : 0..StallAfter,
                               attempts : 0..Attempts, retry : 0..StallBackoffMax]]
    /\ state \in [Planned -> States] /\ passed \in BOOLEAN
    /\ idle \in [Planned -> 0..(StallAfter + 2)] /\ slotChanges \in 0..MaxSlotChanges

\* No torrent holds a slot with nothing arriving for longer than StallAfter,
\* and the time to the pass that notices its last bytes, whatever its earlier
\* progress, stalls and losses (planner.go:23-25).
SlotsRotate == \A t \in Planned : idle[t] <= StallAfter + 1

\* A torrent with live peers that stays wanted and unheld is downloaded in
\* the end, although dead ones come before it in the plan and are retried
\* for ever: their backoff leaves it a slot.
LiveIsDownloaded ==
    \A t \in Live :
        <>[](t \in wanted \ paused /\ ~onHold /\ ~active) => <>(measure[t] = Goal)
=============================================================================
