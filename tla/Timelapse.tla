------------------------------ MODULE Timelapse ------------------------------
(***************************************************************************)
(* The replay frames: what the server publishes of reading_hourly, on top  *)
(* of Rollup.                                                              *)
(*                                                                         *)
(*   internal/snapshot/timelapse.go   buildTimelapse, extendRing           *)
(*   internal/store/frames.go         FrameReadings                        *)
(*   internal/server/publisher.go     Publish                              *)
(*   internal/ingest/ingest.go        publishSnapshot                      *)
(*   cmd/airbg/main.go                runServe                             *)
(*                                                                         *)
(* One of the drainers is `airbg serve`, the only process with a snapshot. *)
(* Its holder lives in memory.  Each cycle that succeeded builds the next  *)
(* snapshot from the one being served: hours already in the ring are kept, *)
(* hours after the last of them are read.  Metrics are independent and are *)
(* left to Series; the grid a frame is reduced to is a function of the     *)
(* hour's rows, so a frame is the rows.                                    *)
(***************************************************************************)
EXTENDS Rollup

CONSTANTS
    Server,       \* the drainer that serves
    RingHours,    \* ringDur, in hours
    NoSnapshot    \* an empty holder, or no build under way

ASSUME TimelapseAssumption == Server \in Drainers /\ RingHours \in Nat \ {0}

VARIABLES
    life,      \* "starting" until the initial publish is over, then "polling"
    building,  \* the snapshot being built, or NoSnapshot
    served     \* what the holder holds, or NoSnapshot

frameVars == <<life, building, served>>
allVars   == <<vars, frameVars>>

Rows      == [Series -> UsableVersions \cup {NoRows}]
Rings     == UNION {[H -> Rows] : H \in SUBSET Hours}
Snapshots == [end : Hours, ring : Rings]

FramesTypeOK ==
    /\ TypeOK
    /\ life \in {"starting", "polling"}
    /\ building \in Snapshots \cup {NoSnapshot}
    /\ served \in Snapshots \cup {NoSnapshot}

-----------------------------------------------------------------------------

Carried == IF served = NoSnapshot THEN <<>> ELSE served.ring

\* Mutants of Until: the hour in progress is published too; and of Since: only
\* the last hour is read, as if no publish had ever been missed.
Until_InProgress(current) == current + 1
Since_LastHour(kept, current) == current - 1

\* The hour in progress has only part of its samples, so it is left out.
Until(current) == current

\* extendRing reads from after the last hour it kept, or from the oldest.
Since(kept, current) ==
    IF kept = {} THEN current - RingHours
    ELSE 1 + CHOOSE h \in kept : \A k \in kept : k <= h

\* extendRing: hours out of the longest span are dropped, kept ones are never
\* read again, and an hour without rows leaves no entry.
Extend(carried, current) ==
    LET kept  == {h \in DOMAIN carried : h >= current - RingHours}
        fresh == {h \in Hours : /\ h >= Since(kept, current)
                                /\ h < Until(current)
                                /\ hourly[h] # NoHour}
    IN  [h \in kept \cup fresh |-> IF h \in kept THEN carried[h] ELSE hourly[h]]

-----------------------------------------------------------------------------

FramesInit ==
    /\ Init
    /\ life = "starting"
    /\ building = NoSnapshot
    /\ served = NoSnapshot

(* snapshot.Build: runServe's initial one, or the one that ends a cycle    *)
(* none of whose stages failed.                                            *)
Build ==
    /\ building = NoSnapshot
    /\ life = "starting" \/ pc[Server] = "done"
    /\ building' = [end |-> now, ring |-> Extend(Carried, now)]
    /\ UNCHANGED <<vars, life, served>>

\* The publisher is done: the poller starts, or waits for its next tick.
Published ==
    \/ life = "starting" /\ life' = "polling" /\ UNCHANGED vars
    \/ life = "polling" /\ EndCycle(Server) /\ UNCHANGED life

(* Publish stores the snapshot: the handlers see it from now on. *)
Swap ==
    /\ building # NoSnapshot
    /\ served' = building
    /\ building' = NoSnapshot
    /\ Published

(* No snapshot this time: the fetch, a write, AssignSensors or the build   *)
(* failed.  The one being served stays.                                    *)
KeepServed ==
    /\ Published
    /\ building' = NoSnapshot
    /\ UNCHANGED served

(* The cycle is abandoned, and the process with it or not. *)
AbandonCycle ==
    /\ Crash(Server)
    /\ building' = NoSnapshot
    /\ UNCHANGED <<life, served>>

Restart ==
    /\ faults < MaxFaults
    /\ faults' = faults + 1
    /\ Goto(Server, "idle")
    /\ life' = "starting"
    /\ building' = NoSnapshot
    /\ served' = NoSnapshot
    /\ UNCHANGED <<now, tables, at, seen, bucket, processed, rows, others,
                   history>>

\* The steps of a cycle before it ends.
MidCycle(d) ==
    \/ Fetch(d) \/ WriteChunk(d) \/ StartRollup(d) \/ ReadWatermark(d)
    \/ SelectRows(d) \/ CommitDrain(d) \/ FinishDrain(d) \/ CommitReconcile(d)
    \/ TxFails(d)

Elsewhere ==
    \/ life = "polling" /\ MidCycle(Server)
    \/ \E d \in Drainers \ {Server} : MidCycle(d) \/ EndCycle(d) \/ Crash(d)
    \/ WriteStations
    \/ RollupAllSelect
    \/ RollupAllCommit
    \/ Tick
    \/ \E h \in Hours : DropRaw(h)

FramesNext ==
    \/ Build
    \/ Swap
    \/ KeepServed
    \/ AbandonCycle
    \/ Restart
    \/ Elsewhere /\ UNCHANGED frameVars

FramesSpec == FramesInit /\ [][FramesNext]_allVars

-----------------------------------------------------------------------------

(***************************************************************************)
(* A frame is the aggregate of its hour as reading_hourly has it now, all  *)
(* through an orderly life in which samples arrive in their own hour.  The *)
(* ring is never re-read, so it takes the publish to come after the last   *)
(* roll-up that changes the hour, whatever publishes were missed.          *)
(***************************************************************************)
FramesFresh ==
    (Orderly /\ Lag = 0 /\ official = 0 /\ served # NoSnapshot)
        => \A h \in DOMAIN served.ring : served.ring[h] = hourly[h]

(***************************************************************************)
(* Reading only the hours after the last carried one never skips an hour:  *)
(* one that has an aggregate and lies below a published frame, inside the  *)
(* span, is a frame too.  Through failed transactions, missed publishes,   *)
(* a capped backlog and restarts (extendRing).                             *)
(***************************************************************************)
NoHole ==
    (SoleDrainer /\ opRuns = 0 /\ official = 0 /\ Lag + Span <= 1
        /\ served # NoSnapshot)
        => \A h \in DOMAIN served.ring, k \in Hours :
              (k < h /\ k >= served.end - RingHours /\ hourly[k] # NoHour)
                  => k \in DOMAIN served.ring

(***************************************************************************)
(* The snapshot's frames have their shape, stay in the window and leave no *)
(* stored hour out.                                                        *)
(***************************************************************************)
FramesComplete == FramesTypeOK /\ NoHole

(***************************************************************************)
(* What the ring relies on: "carried between cycles: a past hour's rollup  *)
(* does not change" (internal/snapshot/timelapse.go:85-86), for the late   *)
(* samples the previous-hour reconcile exists for.                         *)
(***************************************************************************)
PastRollupDoesNotChange ==
    (Orderly /\ official = 0 /\ served # NoSnapshot)
        => \A h \in DOMAIN served.ring : served.ring[h] = hourly[h]

=============================================================================
