------------------------------- MODULE Rollup -------------------------------
(***************************************************************************)
(* The hourly rollup: how raw readings become the rows of reading_hourly,  *)
(* and what the rollup_watermark row says about it.                        *)
(*                                                                         *)
(*   internal/ingest/ingest.go   RunOnce, rollupBacklog, Loop              *)
(*   internal/store/rollup.go    RollupBacklog, rollupAndAdvance,          *)
(*                               RollupAll                                 *)
(*   internal/store/store.go     WriteReadings, WriteStationReadings       *)
(*                                                                         *)
(* A drainer is a process running ingest.Loop: `airbg serve`, and `airbg   *)
(* collect` where one is deployed next to it.  Each statement is a step of *)
(* its own, since PostgreSQL runs them READ COMMITTED: the SELECT half of  *)
(* rollupSQL fixes its snapshot when the statement starts, and what it     *)
(* computed becomes visible when the transaction commits.                  *)
(*                                                                         *)
(* Data.  All raw rows of one (sensor, metric) in one hour are one opaque  *)
(* version; a write replaces it (a new sample, a revised value, a changed  *)
(* flag).  UsableVersions are those with at least one row the quality      *)
(* filter admits.  avg/min/max/count are a function of the version, so the *)
(* hourly row is the version it was computed from.                         *)
(***************************************************************************)
EXTENDS Integers, FiniteSets

CONSTANTS
    Drainers,         \* processes running ingest.Loop
    Series,           \* (sensor, metric) pairs
    Versions,         \* contents of one series' raw rows in one hour
    UsableVersions,   \* those that pass usableQuality
    NoRows,           \* a series with no row in the hour
    MaxHour,          \* bound: the clock stops here
    MaxBuckets,       \* ingest.maxBucketsPerTick
    Lag,              \* how many hours old a fetched sample may be
    Span,             \* hour boundaries a cycle may cross before its rollup
    Retention,        \* ingest.RawRetentionHours
    AlertThreshold,   \* ingest.backlogAlertThreshold
    MaxSilence,       \* hours the daemon may go without completing a check
    MaxFaults,        \* bound: crashes and failed transactions
    MaxOperatorRuns,  \* bound: runs of `airbg rollup`
    MaxStationWrites  \* bound: chunks of official readings

ASSUME ConstantsAssumption ==
    /\ UsableVersions \subseteq Versions
    /\ NoRows \notin Versions
    /\ MaxHour \in Nat \ {0}
    /\ MaxBuckets \in Nat \ {0}
    /\ Lag \in Nat /\ Span \in Nat
    /\ Retention \in Nat /\ AlertThreshold \in Nat \ {0}
    /\ MaxSilence \in Nat \ {0}
    /\ MaxFaults \in Nat /\ MaxOperatorRuns \in Nat /\ MaxStationWrites \in Nat

Hours       == 0 .. MaxHour
NoWatermark == -1

VARIABLES
    now,        \* the wall clock, in hours
    raw,        \* table reading:          hour -> series -> version
    hourly,     \* table reading_hourly:   hour -> series -> version
    watermark,  \* table rollup_watermark: its bucket, or NoWatermark
    pc,         \* where each drainer is in RunOnce
    at,         \* the clock the cycle read: at the fetch, then for the rollup
    seen,       \* the watermark the cycle last read
    bucket,     \* RollupBacklog's loop variable
    processed,  \* buckets committed by this call
    rows,       \* what the open transaction's rollupSQL selected
    opRows,     \* what a running RollupAll selected, or <<>>
    opRuns,     \* runs of RollupAll started
    official,   \* chunks of official readings written
    faults,     \* crashes and failures so far
    origin,     \* history: the hour the watermark last started from
    rolled,     \* history: hours some drainer's transaction has rolled up
    alerted,    \* history: the backlog alert has been logged
    lastCheck,  \* history: clock of the last cycle that checked the backlog
    lost        \* history: hours retention dropped ahead of the watermark

tables  == <<raw, hourly, watermark>>
locals  == <<pc, at, seen, bucket, processed, rows>>
others  == <<opRows, opRuns, official>>
history == <<origin, rolled, alerted, lastCheck, lost>>
vars    == <<now, tables, locals, others, faults, history>>

Phases == {"idle", "ingest", "read", "drain", "drainTx",
           "reconcile", "reconcileTx", "done"}

TypeOK ==
    /\ now \in Hours
    /\ raw \in [Hours -> [Series -> Versions \cup {NoRows}]]
    /\ hourly \in [Hours -> [Series -> UsableVersions \cup {NoRows}]]
    /\ watermark \in Hours \cup {NoWatermark}
    /\ pc \in [Drainers -> Phases]
    /\ at \in [Drainers -> Hours]
    /\ seen \in [Drainers -> Hours \cup {NoWatermark}]
    /\ bucket \in [Drainers -> -1 .. MaxHour + 1]
    /\ processed \in [Drainers -> 0 .. MaxBuckets]
    /\ rows \in [Drainers -> [Series -> Versions \cup {NoRows}]]
    /\ opRows \in [Hours -> [Series -> Versions \cup {NoRows}]] \cup {<<>>}
    /\ opRuns \in 0 .. MaxOperatorRuns
    /\ official \in 0 .. MaxStationWrites
    /\ faults \in 0 .. MaxFaults
    /\ origin \in Hours \cup {NoWatermark}
    /\ rolled \subseteq Hours
    /\ alerted \in BOOLEAN
    /\ lastCheck \in Hours
    /\ lost \subseteq Hours

-----------------------------------------------------------------------------

\* INSERT ... SELECT ... GROUP BY ... ON CONFLICT DO UPDATE: a series with a
\* usable row replaces its hourly row, one without produces no group at all
\* and leaves whatever row is already there.
Upsert(selected, old) ==
    [s \in Series |-> IF selected[s] \in UsableVersions THEN selected[s] ELSE old[s]]

\* watermarkSQL: the WHERE guard lets the stored bucket only grow.
Advance(b) == IF b > watermark THEN b ELSE watermark

\* ingest.rollupBacklog after RollupBacklog returned the watermark wm.
CheckBacklog(d, wm) ==
    /\ lastCheck' = at[d]
    /\ alerted' = (alerted \/ (wm # NoWatermark /\ at[d] - wm >= AlertThreshold))

Goto(d, phase) == pc' = [pc EXCEPT ![d] = phase]

-----------------------------------------------------------------------------

NoHour == [s \in Series |-> NoRows]

Init ==
    /\ now = 1
    /\ raw = [h \in Hours |-> NoHour]
    /\ hourly = [h \in Hours |-> NoHour]
    /\ watermark = NoWatermark
    /\ pc = [d \in Drainers |-> "idle"]
    /\ at = [d \in Drainers |-> 1]
    /\ seen = [d \in Drainers |-> NoWatermark]
    /\ bucket = [d \in Drainers |-> 0]
    /\ processed = [d \in Drainers |-> 0]
    /\ rows = [d \in Drainers |-> NoHour]
    /\ opRows = <<>>
    /\ opRuns = 0
    /\ official = 0
    /\ faults = 0
    /\ origin = NoWatermark
    /\ rolled = {}
    /\ alerted = FALSE
    /\ lastCheck = 1
    /\ lost = {}

(* The fetch at the head of RunOnce; it fixes which samples the cycle has. *)
Fetch(d) ==
    /\ pc[d] = "idle"
    /\ Goto(d, "ingest")
    /\ at' = [at EXCEPT ![d] = now]
    /\ UNCHANGED <<now, tables, seen, bucket, processed, rows, others, faults,
                   history>>

(* One chunk of WriteReadings commits.  The cycle may write any number of  *)
(* them: none when the fetch, the boundary filter or the first chunk       *)
(* failed, some when a later chunk did.  The rollup runs in every case.    *)
WriteChunk(d) ==
    /\ pc[d] = "ingest"
    /\ \E h \in Hours, s \in Series, v \in Versions :
          /\ h >= at[d] - Lag /\ h <= at[d]
          /\ raw' = [raw EXCEPT ![h] = [@ EXCEPT ![s] = v]]
    /\ UNCHANGED <<now, hourly, watermark, locals, others, faults, history>>

(* The EEA collector runs on its own ticker and writes a chunk of hourly   *)
(* station rows: they arrive hours after their hour, and an hour already   *)
(* stored is revised in place.                                             *)
WriteStations ==
    /\ official < MaxStationWrites
    /\ \E h \in 0 .. now, s \in Series, v \in Versions :
          raw' = [raw EXCEPT ![h] = [@ EXCEPT ![s] = v]]
    /\ official' = official + 1
    /\ UNCHANGED <<now, hourly, watermark, locals, opRows, opRuns, faults,
                   history>>

(* rollupBacklog is called with i.now(), read after the writes. *)
StartRollup(d) ==
    /\ pc[d] = "ingest"
    /\ Goto(d, "read")
    /\ at' = [at EXCEPT ![d] = now]
    /\ UNCHANGED <<now, tables, seen, bucket, processed, rows, others, faults,
                   history>>

\* Mutants of StartBucket: only the current hour is ever rolled up, as before
\* the watermark existed; strictly after the watermark even when it has caught
\* up; at the watermark instead of after it.
StartBucket_CurrentOnly(wm, current) == current
StartBucket_Uncapped(wm, current) ==
    IF wm # NoWatermark THEN wm + 1 ELSE current
StartBucket_AtWatermark(wm, current) ==
    IF wm # NoWatermark /\ wm <= current THEN wm ELSE current

\* Where RollupBacklog's loop starts: just after the watermark, but never
\* past the current hour, which is re-rolled on every call.
StartBucket(wm, current) ==
    IF wm # NoWatermark /\ wm + 1 <= current THEN wm + 1 ELSE current

ReadWatermark(d) ==
    /\ pc[d] = "read"
    /\ Goto(d, "drain")
    /\ seen' = [seen EXCEPT ![d] = watermark]
    /\ bucket' = [bucket EXCEPT ![d] = StartBucket(watermark, at[d])]
    /\ processed' = [processed EXCEPT ![d] = 0]
    /\ UNCHANGED <<now, tables, at, rows, others, faults, history>>

\* Mutant of LoopOpen: one bucket too many.
LoopOpen_OffByOne(d) == processed[d] <= MaxBuckets /\ bucket[d] <= at[d]
LoopOpen(d) == processed[d] < MaxBuckets /\ bucket[d] <= at[d]

(* rollupAndAdvance up to its commit: rollupSQL takes its snapshot. *)
SelectRows(d) ==
    /\ \/ pc[d] = "drain" /\ LoopOpen(d) /\ Goto(d, "drainTx")
       \/ pc[d] = "reconcile" /\ Goto(d, "reconcileTx")
    /\ rows' = [rows EXCEPT ![d] = raw[bucket[d]]]
    /\ UNCHANGED <<now, tables, at, seen, bucket, processed, others, faults,
                   history>>

\* rollupAndAdvance's commit: aggregate rows and watermark appear together.
\* A drainer that read no watermark at all starts the coverage afresh.
CommitBucket(d) ==
    /\ hourly' = [hourly EXCEPT ![bucket[d]] = Upsert(rows[d], @)]
    /\ watermark' = Advance(bucket[d])
    /\ rolled' = rolled \cup {bucket[d]}
    /\ origin' = IF seen[d] = NoWatermark /\ bucket[d] > watermark
                 THEN bucket[d] ELSE origin

CommitDrain(d) ==
    /\ pc[d] = "drainTx"
    /\ CommitBucket(d)
    /\ processed' = [processed EXCEPT ![d] = @ + 1]
    /\ bucket' = [bucket EXCEPT ![d] = @ + 1]
    /\ Goto(d, "drain")
    /\ UNCHANGED <<now, raw, at, seen, rows, others, faults, alerted,
                   lastCheck, lost>>

\* Mutant: without the reconcile of the previous hour.
FinishDrain_NoReconcile(d) ==
    /\ pc[d] = "drain"
    /\ ~LoopOpen(d)
    /\ seen' = [seen EXCEPT ![d] = watermark]
    /\ Goto(d, "done")
    /\ CheckBacklog(d, watermark)
    /\ UNCHANGED <<now, tables, at, bucket, processed, rows, others, faults,
                   origin, rolled, lost>>

(* The loop is over: the watermark is read back from the database, and the *)
(* previous hour is reconciled once the watermark has reached it.          *)
FinishDrain(d) ==
    /\ pc[d] = "drain"
    /\ ~LoopOpen(d)
    /\ seen' = [seen EXCEPT ![d] = watermark]
    /\ \/ /\ watermark # NoWatermark /\ watermark >= at[d] - 1
          /\ bucket' = [bucket EXCEPT ![d] = at[d] - 1]
          /\ Goto(d, "reconcile")
          /\ UNCHANGED <<alerted, lastCheck>>
       \/ /\ watermark = NoWatermark \/ watermark < at[d] - 1
          /\ Goto(d, "done")
          /\ CheckBacklog(d, watermark)
          /\ UNCHANGED bucket
    /\ UNCHANGED <<now, tables, at, processed, rows, others, faults, origin,
                   rolled, lost>>

CommitReconcile(d) ==
    /\ pc[d] = "reconcileTx"
    /\ CommitBucket(d)
    /\ CheckBacklog(d, seen[d])
    /\ Goto(d, "done")
    /\ UNCHANGED <<now, raw, at, seen, bucket, processed, rows, others,
                   faults, lost>>

(* The rest of a cycle whose rollup succeeded, up to the next tick. *)
EndCycle(d) ==
    /\ pc[d] = "done"
    /\ Goto(d, "idle")
    /\ UNCHANGED <<now, tables, at, seen, bucket, processed, rows, others,
                   faults, history>>

\* Mutant: the alert is evaluated only when RollupBacklog returned no error.
TxFails_Silent(d) ==
    /\ faults < MaxFaults
    /\ pc[d] \in {"drainTx", "reconcileTx"}
    /\ faults' = faults + 1
    /\ lastCheck' = at[d]
    /\ Goto(d, "idle")
    /\ UNCHANGED <<now, tables, at, seen, bucket, processed, rows, others,
                   origin, rolled, alerted, lost>>

(* A bucket's transaction fails and rolls back.  In the loop the watermark *)
(* is read again (watermarkOrZero); in the reconcile the one already read  *)
(* is returned; either way the alert is still evaluated.                   *)
TxFails(d) ==
    /\ faults < MaxFaults
    /\ \/ pc[d] = "drainTx" /\ CheckBacklog(d, watermark)
       \/ pc[d] = "reconcileTx" /\ CheckBacklog(d, seen[d])
    /\ faults' = faults + 1
    /\ Goto(d, "idle")
    /\ UNCHANGED <<now, tables, at, seen, bucket, processed, rows, others,
                   origin, rolled, lost>>

(* The process dies, its context is cancelled, or the watermark cannot be  *)
(* read: the cycle ends where it is and nothing is checked.                *)
Crash(d) ==
    /\ faults < MaxFaults
    /\ pc[d] # "idle"
    /\ faults' = faults + 1
    /\ Goto(d, "idle")
    /\ UNCHANGED <<now, tables, at, seen, bucket, processed, rows, others,
                   history>>

-----------------------------------------------------------------------------
(* `airbg rollup`: one statement over every hour, outside the watermark. *)

RollupAllSelect ==
    /\ opRows = <<>> /\ opRuns < MaxOperatorRuns
    /\ opRows' = raw
    /\ opRuns' = opRuns + 1
    /\ UNCHANGED <<now, tables, locals, official, faults, history>>

RollupAllCommit ==
    /\ opRows # <<>>
    /\ hourly' = [h \in Hours |-> Upsert(opRows[h], hourly[h])]
    /\ opRows' = <<>>
    /\ UNCHANGED <<now, raw, watermark, locals, opRuns, official, faults,
                   history>>

-----------------------------------------------------------------------------
(* The environment: the clock, and the retention policy on reading. *)

Tick ==
    /\ now < MaxHour
    /\ \A d \in Drainers : pc[d] = "ingest" => now + 1 - at[d] <= Span
    /\ now + 1 - lastCheck <= MaxSilence
    /\ now' = now + 1
    /\ UNCHANGED <<tables, locals, others, faults, history>>

Stale(h) == \E s \in Series :
                raw[h][s] \in UsableVersions /\ hourly[h][s] # raw[h][s]

DropRaw(h) ==
    /\ h + Retention < now
    /\ raw[h] # NoHour
    /\ raw' = [raw EXCEPT ![h] = NoHour]
    /\ lost' = IF Stale(h) /\ watermark # NoWatermark /\ h > watermark
               THEN lost \cup {h} ELSE lost
    /\ UNCHANGED <<now, hourly, watermark, locals, others, faults, origin,
                   rolled, alerted, lastCheck>>

-----------------------------------------------------------------------------

Cycle(d) == \/ Fetch(d) \/ StartRollup(d) \/ ReadWatermark(d) \/ SelectRows(d)
            \/ CommitDrain(d) \/ FinishDrain(d) \/ CommitReconcile(d)
            \/ EndCycle(d)

Next ==
    \/ \E d \in Drainers : Cycle(d) \/ WriteChunk(d) \/ TxFails(d) \/ Crash(d)
    \/ WriteStations
    \/ RollupAllSelect
    \/ RollupAllCommit
    \/ Tick
    \/ \E h \in Hours : DropRaw(h)

Spec == Init /\ [][Next]_vars

(* ingest.Loop runs RunOnce on every tick until it is cancelled, and a     *)
(* failed cycle never ends it: each drainer keeps taking the steps of its  *)
(* cycle.  Nothing is assumed of the writes, the operator or the clock.    *)
FairSpec == Spec /\ \A d \in Drainers : WF_vars(Cycle(d))

-----------------------------------------------------------------------------

SoleDrainer == \A d, e \in Drainers : d = e
Quiescent   == \A d \in Drainers : pc[d] = "idle"
Covered     == IF watermark = NoWatermark THEN {} ELSE origin .. watermark

(***************************************************************************)
(* No gap, no overshoot: whatever crashed, failed, was capped or raced,    *)
(* every hour from the one the watermark started at up to the watermark    *)
(* has been through a committed rollup transaction (rollupAndAdvance,      *)
(* watermarkSQL).                                                          *)
(***************************************************************************)
GapFree == \A h \in Covered : h \in rolled

\* One process ingests, nothing failed, no operator rollup ran, and a sample
\* is rolled up within an hour boundary of its own hour.
Orderly == SoleDrainer /\ faults = 0 /\ opRuns = 0 /\ Lag + Span <= 1

(***************************************************************************)
(* The aggregate of a covered hour is the aggregate of its raw rows as     *)
(* they are now, between any two cycles of an orderly life with community  *)
(* readings only.  It takes the re-roll of the current hour and the        *)
(* reconcile of the previous one (RollupBacklog).                          *)
(***************************************************************************)
CoveredHoursFresh ==
    (Orderly /\ official = 0 /\ Quiescent)
        => \A h \in Covered : ~Stale(h)

(***************************************************************************)
(* Raw rows that retention drops ahead of the watermark were announced:    *)
(* "alerting at ERROR long before the 30-day raw retention could delete    *)
(* unaggregated rows" (docs/operations.md).  The alert survives a failing  *)
(* transaction; it needs a watermark that can be read once in MaxSilence   *)
(* hours.                                                                  *)
(***************************************************************************)
AlertBeforeLoss ==
    (SoleDrainer /\ MaxSilence + AlertThreshold <= Retention + 2)
        => (lost # {} => alerted)

(***************************************************************************)
(* The backlog drains: MaxBuckets hours at a time, through failures, the   *)
(* watermark catches up with a clock that has stopped moving.              *)
(***************************************************************************)
BacklogDrains == <>[](watermark = now)

(***************************************************************************)
(* A stale aggregate of the current or the previous hour is repaired, or   *)
(* its hour leaves the reconcile window: also after a crash, after another *)
(* drainer's or RollupAll's older result overwrote it.                     *)
(***************************************************************************)
RecentHourHeals == \A h \in Hours : Stale(h) ~> (~Stale(h) \/ h < now - 1)

(***************************************************************************)
(* What the backfill guard relies on: "official readings reach             *)
(* reading_hourly only through the EEA collector"                          *)
(* (cmd/airbg/main.go:132-134), whose rows come 6.6 to 11.6 hours late     *)
(* (airbg.yaml:244).  In an orderly life, the aggregate of a covered hour  *)
(* that no later call re-rolls includes what the collector wrote.          *)
(***************************************************************************)
OfficialHoursAggregated ==
    (Orderly /\ Quiescent) => \A h \in Covered : h < now - 1 => ~Stale(h)

=============================================================================
