---------------------------- MODULE StuckHistory ----------------------------
(***************************************************************************)
(* The memory of the stuck check (internal/quality/history.go): the last   *)
(* values of each device, filled by every poll, bounded in devices, and    *)
(* seeded at a start from table reading (internal/store/seed_history.go).  *)
(*                                                                         *)
(* A poll observes before it writes, and the same observation may be       *)
(* fetched again: the memory then holds it twice, the table once.  One     *)
(* metric of each device is modelled; the exempt values and the tolerance  *)
(* are left out: an equal window is a stuck one.                           *)
(***************************************************************************)
EXTENDS Integers, Sequences, FiniteSets, SequencesExt, Sorting

CONSTANTS
    Probes,       \* numbers: the seed comes in their order
    Measurements,        \* what a device may measure, in range
    Clamped,       \* a reading that is flagged and not observed
    Depth,         \* quality.history_depth
    TrackedMax,    \* historyMaxTrackedSensors
    SeedWindow,    \* quality.history_seed_window
    Freshness,     \* how long upstream serves an observation
    MaxTime,       \* bound: the clock
    MaxMeasures,   \* bound: observations
    MaxRestarts    \* bound: starts of the process

ASSUME HistoryAssumption ==
    /\ Probes \subseteq Nat /\ IsFiniteSet(Probes) /\ Clamped \notin Measurements
    /\ Depth \in Nat \ {0} /\ TrackedMax \in Nat \ {0}
    /\ SeedWindow \in Nat /\ Freshness \in Nat /\ MaxTime \in Nat
    /\ MaxMeasures \in Nat /\ MaxRestarts \in Nat

VARIABLES
    clock,
    latest,     \* what upstream serves of each device
    stuckHistory,    \* order and the window of each device in it
    reading,    \* table reading: the rows of each device
    lost,       \* history: the devices whose memory and rows a failure set apart
    measures, restarts

historyVars == <<clock, latest, stuckHistory, reading, lost, measures, restarts>>

Samples == [at : 0 .. MaxTime, value : Measurements \cup {Clamped}]
Empty == [order |-> <<>>, window |-> [s \in Probes |-> <<>>]]

HistoryTypeOK ==
    /\ clock \in 0 .. MaxTime
    /\ \A s \in Probes :
           /\ latest[s] \subseteq Samples /\ Cardinality(latest[s]) <= 1
           /\ reading[s] \subseteq Samples
           /\ stuckHistory.window[s] \in Seq([at : 0 .. MaxTime, value : Measurements])
    /\ stuckHistory.order \in Seq(Probes)
    /\ lost \subseteq Probes /\ measures \in 0 .. MaxMeasures /\ restarts \in 0 .. MaxRestarts

HistoryInit ==
    /\ clock = 0
    /\ latest = [s \in Probes |-> {}] /\ reading = latest
    /\ stuckHistory = Empty
    /\ lost = {} /\ measures = 0 /\ restarts = 0

-----------------------------------------------------------------------------

Tracked(h) == {h.order[i] : i \in DOMAIN h.order}

\* Mutant of Evicted: the window stays when the device leaves the order.
Evicted_OrderOnly(h) == [h EXCEPT !.order = Tail(h.order)]
Evicted(h) == [h EXCEPT !.order = Tail(@), !.window[Head(h.order)] = <<>>]

\* A device seen for the first time may cost the one first seen its place.
Seen(h, s) ==
    IF s \in Tracked(h) THEN h
    ELSE LET longer == [h EXCEPT !.order = Append(@, s)]
         IN IF Len(longer.order) > TrackedMax THEN Evicted(longer) ELSE longer

\* Mutant of Trim: a full window takes nothing more.
Trim_Newest(window) == SubSeq(window, 1, IF Len(window) < Depth THEN Len(window) ELSE Depth)
Trim(window) == IF Len(window) > Depth THEN Tail(window) ELSE window

Observe(h, s, o) == [Seen(h, s) EXCEPT !.window[s] = Trim(Append(@, o))]

\* told is a sequence of <<device, observation>>; a clamped one is not observed.
Observed(h, told) ==
    LET after[k \in 0 .. Len(told)] ==
            IF k = 0 THEN h
            ELSE IF told[k][2].value = Clamped THEN after[k - 1]
            ELSE Observe(after[k - 1], told[k][1], told[k][2])
    IN after[Len(told)]

Stuck(window) ==
    Len(window) >= Depth /\ \A i \in DOMAIN window : window[i].value = window[1].value

-----------------------------------------------------------------------------

Measures(s, v) ==
    /\ \A o \in latest[s] : o.at < clock
    /\ measures < MaxMeasures /\ measures' = measures + 1
    /\ latest' = [latest EXCEPT ![s] = {[at |-> clock, value |-> v]}]
    /\ UNCHANGED <<clock, stuckHistory, reading, lost, restarts>>

TimePasses ==
    /\ clock < MaxTime
    /\ clock' = clock + 1
    /\ latest' = [s \in Probes |-> {o \in latest[s] : o.at > clock' - Freshness}]
    /\ UNCHANGED <<stuckHistory, reading, lost, measures, restarts>>

\* Score observes the batch in its order and then the readings are written; when the
\* write fails, what its first chunks carried is stored.
Poll(batch, written) ==
    /\ stuckHistory' = Observed(stuckHistory, batch)
    /\ reading' = [s \in Probes |-> reading[s] \cup IF s \in written THEN latest[s] ELSE {}]
    /\ lost' = lost \cup {s \in Probes \ written : latest[s] # {}}
    /\ UNCHANGED <<clock, latest, measures, restarts>>

\* Mutant of SeedRows: the rows are numbered from the oldest.
SeedRows_Oldest(s) ==
    LET recent == {r \in reading[s] : r.at > clock - SeedWindow /\ r.value # Clamped}
    IN {r \in recent : Cardinality({q \in recent : q.at < r.at}) < Depth}
SeedRows(s) ==
    LET recent == {r \in reading[s] : r.at > clock - SeedWindow /\ r.value # Clamped}
    IN {r \in recent : Cardinality({q \in recent : q.at > r.at}) < Depth}

Earlier(rows) == {p \in rows \X rows : p[1].at < p[2].at}
InOrder(rows) == Sorted(rows, Earlier(rows))

SeedPairs == {p \in Probes \X Samples : p[2] \in SeedRows(p[1])}
SeedBefore ==
    {e \in SeedPairs \X SeedPairs :
        e[1][1] < e[2][1] \/ (e[1][1] = e[2][1] /\ e[1][2].at < e[2][2].at)}
SeedOrder == Sorted(SeedPairs, SeedBefore)

\* A seed that fails is logged: what it had observed stays.
Restart(seeded) ==
    /\ restarts < MaxRestarts /\ restarts' = restarts + 1
    /\ stuckHistory' = Observed(Empty, SubSeq(SeedOrder, 1, seeded))
    /\ lost' = IF seeded = Len(SeedOrder) THEN {} ELSE Probes
    /\ UNCHANGED <<clock, latest, reading, measures>>

HistoryNext ==
    \/ \E s \in Probes, v \in Measurements \cup {Clamped} : Measures(s, v)
    \/ TimePasses
    \/ \E devices \in SetToSeqs({s \in Probes : latest[s] # {}}), written \in SUBSET Probes :
           Poll([i \in DOMAIN devices |-> <<devices[i], CHOOSE o \in latest[devices[i]] : TRUE>>],
                written)
    \/ \E seeded \in 0 .. Len(SeedOrder) : Restart(seeded)

HistorySpec == HistoryInit /\ [][HistoryNext]_historyVars

-----------------------------------------------------------------------------

\* order and state are one set, without a duplicate and within the cap.
MemoryBounded ==
    /\ Len(stuckHistory.order) = Cardinality(Tracked(stuckHistory))
    /\ Len(stuckHistory.order) <= TrackedMax
    /\ \A s \in Probes : stuckHistory.window[s] # <<>> <=> s \in Tracked(stuckHistory)

Instants(window) == {window[i].at : i \in DOMAIN window}
Usable(s) == {r \in reading[s] : r.value # Clamped}

\* Until a write or a seed fails, a window's instants are the newest rows.
WindowIsNewest ==
    \A s \in Probes \ lost :
        LET at == Instants(stuckHistory.window[s])
        IN /\ at \subseteq {r.at : r \in Usable(s)}
           /\ \A r \in Usable(s) : r.at \in at \/ \A t \in at : r.at < t

\* What a restart would make of the check.  It never flags a device whose window was
\* full and not flagged; it clears one only when the memory counted an observation
\* twice or remembers more than the seed reaches.
Reseeded(s) == InOrder(SeedRows(s))
RestartAgrees ==
    \A s \in Probes \ lost :
        LET window == stuckHistory.window[s]
        IN /\ Stuck(Reseeded(s)) /\ Len(window) = Depth => Stuck(window)
           /\ /\ Stuck(window)
              /\ Cardinality(Instants(window)) = Depth
              /\ \A t \in Instants(window) : t > clock - SeedWindow
              => Stuck(Reseeded(s))

(***************************************************************************)
(* The memory that flags a frozen device stays bounded, holds the newest   *)
(* observations, and a restart does not change its mind.                   *)
(***************************************************************************)
StuckMemoryHolds == MemoryBounded /\ WindowIsNewest /\ RestartAgrees

=============================================================================
