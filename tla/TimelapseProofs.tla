--------------------------- MODULE TimelapseProofs ---------------------------
(***************************************************************************)
(* Proofs about Rollup, for every set of drainers, series and versions and *)
(* every value of the bounds.                                              *)
(*                                                                         *)
(*   IndOK     types, and where each phase's loop variable may stand       *)
(*   GapInv    IndOK's companion that makes GapFree inductive              *)
(*   AlertInv  theirs, for AlertBeforeLoss                                 *)
(*   OrderInv  where the one drainer's loop stands to the watermark        *)
(*   FreshInv  theirs, for CoveredHoursFresh                               *)
(*                                                                         *)
(* And about Timelapse, for every span, lag and retention, any metrics and *)
(* any number of hours.  Every step of FramesSpec is a step of Rollup or a *)
(* Restart, so Rollup's invariants hold of it once Restart is seen to keep *)
(* them.  On top come                                                      *)
(*   LifeOK        what is being built, and when                           *)
(*   RingInv       which hours a ring has, and that the clock of a cycle   *)
(*                 under way is past all of them                           *)
(*   FrameFreshInv that no cycle changes an hour of a ring any more        *)
(***************************************************************************)
EXTENDS Timelapse, FiniteSetTheorems, WellFoundedInduction, TLAPS

(* What each phase knows of the cycle's own variables. *)
PhaseOK ==
    \A d \in Drainers :
        /\ at[d] \in 1 .. now
        /\ pc[d] \in {"drain", "drainTx"} => bucket[d] \in 0 .. at[d] + 1
        /\ pc[d] = "drainTx" => bucket[d] <= at[d] /\ processed[d] < MaxBuckets
        /\ pc[d] \in {"reconcile", "reconcileTx"} => bucket[d] = at[d] - 1

IndOK == TypeOK /\ PhaseOK /\ now >= 1

-----------------------------------------------------------------------------

LEMMA UpsertType ==
    ASSUME NEW selected \in [Series -> Versions \cup {NoRows}],
           NEW old \in [Series -> UsableVersions \cup {NoRows}]
    PROVE  Upsert(selected, old) \in [Series -> UsableVersions \cup {NoRows}]
  BY DEF Upsert

LEMMA InitIndOK == Init => IndOK
<1> SUFFICES ASSUME Init PROVE IndOK
  OBVIOUS
<1>1. 1 \in Hours /\ 0 \in -1 .. MaxHour + 1
  BY ConstantsAssumption DEF Hours
<1>2. NoHour \in [Series -> UsableVersions \cup {NoRows}]
  BY DEF NoHour
<1>3. NoHour \in [Series -> Versions \cup {NoRows}]
  BY DEF NoHour
<1>4. 0 \in 0 .. MaxBuckets /\ 0 \in 0 .. MaxOperatorRuns /\ 0 \in 0 .. MaxFaults
      /\ 0 \in 0 .. MaxStationWrites
  BY ConstantsAssumption
<1>5. TypeOK
  BY <1>1, <1>2, <1>3, <1>4 DEF Init, TypeOK, Phases
<1>6. PhaseOK /\ now >= 1
  BY DEF Init, PhaseOK
<1> QED
  BY <1>5, <1>6 DEF IndOK

LEMMA StepIndOK == IndOK /\ [Next]_vars => IndOK'
<1> SUFFICES ASSUME IndOK, [Next]_vars PROVE IndOK'
  OBVIOUS
<1> USE ConstantsAssumption
<1>1. ASSUME NEW d \in Drainers, Fetch(d) PROVE IndOK'
  <2>1. TypeOK'
    BY <1>1 DEF Fetch, Goto, IndOK, TypeOK, Phases, tables, others, history
  <2>2. PhaseOK'
    BY <1>1 DEF Fetch, Goto, IndOK, TypeOK, PhaseOK, Hours
  <2> QED
    BY <1>1, <2>1, <2>2 DEF Fetch, IndOK
<1>2. ASSUME NEW d \in Drainers, StartRollup(d) PROVE IndOK'
  <2>1. TypeOK'
    BY <1>2 DEF StartRollup, Goto, IndOK, TypeOK, Phases, tables, others, history
  <2>2. PhaseOK'
    BY <1>2 DEF StartRollup, Goto, IndOK, TypeOK, PhaseOK, Hours
  <2> QED
    BY <1>2, <2>1, <2>2 DEF StartRollup, IndOK
<1>3. ASSUME NEW d \in Drainers, ReadWatermark(d) PROVE IndOK'
  <2>1. StartBucket(watermark, at[d]) \in 0 .. at[d]
    BY DEF StartBucket, IndOK, TypeOK, PhaseOK, Hours, NoWatermark
  <2>2. at[d] <= MaxHour /\ 0 \in 0 .. MaxBuckets
    BY DEF IndOK, TypeOK, Hours
  <2>3. StartBucket(watermark, at[d]) \in -1 .. MaxHour + 1
    BY <2>1, <2>2 DEF IndOK, TypeOK, Hours
  <2>4. TypeOK'
    BY <1>3, <2>2, <2>3 DEF ReadWatermark, Goto, IndOK, TypeOK, Phases, tables, others, history
  <2>5. PhaseOK'
    BY <1>3, <2>1 DEF ReadWatermark, Goto, IndOK, TypeOK, PhaseOK, Hours
  <2> QED
    BY <1>3, <2>4, <2>5 DEF ReadWatermark, IndOK
<1>4. ASSUME NEW d \in Drainers, SelectRows(d) PROVE IndOK'
  <2>1. bucket[d] \in Hours
    BY <1>4 DEF SelectRows, LoopOpen, IndOK, TypeOK, PhaseOK, Hours
  <2>2. raw[bucket[d]] \in [Series -> Versions \cup {NoRows}]
    BY <2>1 DEF IndOK, TypeOK
  <2> QED
    BY <1>4, <2>2 DEF SelectRows, LoopOpen, Goto, IndOK, TypeOK, PhaseOK, Phases,
                      Hours, tables, others, history
<1>5. ASSUME NEW d \in Drainers, CommitDrain(d) PROVE IndOK'
  <2>1. bucket[d] \in Hours /\ rows[d] \in [Series -> Versions \cup {NoRows}]
    BY <1>5 DEF CommitDrain, IndOK, TypeOK, PhaseOK, Hours
  <2>2. hourly' \in [Hours -> [Series -> UsableVersions \cup {NoRows}]]
    BY <1>5, <2>1, UpsertType DEF CommitDrain, CommitBucket, IndOK, TypeOK
  <2>3. /\ bucket' \in [Drainers -> -1 .. MaxHour + 1]
        /\ processed' \in [Drainers -> 0 .. MaxBuckets]
        /\ watermark' \in Hours \cup {NoWatermark}
    <3>1. bucket[d] + 1 \in -1 .. MaxHour + 1
      BY <2>1 DEF Hours
    <3>2. processed[d] + 1 \in 0 .. MaxBuckets
      BY <1>5 DEF CommitDrain, IndOK, TypeOK, PhaseOK
    <3>3. watermark' \in {bucket[d], watermark}
      BY <1>5 DEF CommitDrain, CommitBucket, Advance
    <3> QED
      BY <1>5, <2>1, <3>1, <3>2, <3>3 DEF CommitDrain, IndOK, TypeOK
  <2>4. rolled' \subseteq Hours /\ origin' \in Hours \cup {NoWatermark}
    BY <1>5, <2>1 DEF CommitDrain, CommitBucket, IndOK, TypeOK
  <2>5. TypeOK'
    BY <1>5, <2>2, <2>3, <2>4 DEF CommitDrain, Goto, IndOK, TypeOK, Phases, others
  <2>6. PhaseOK'
    BY <1>5, <2>1 DEF CommitDrain, Goto, IndOK, TypeOK, PhaseOK, Hours
  <2> QED
    BY <1>5, <2>5, <2>6 DEF CommitDrain, IndOK
<1>6. ASSUME NEW d \in Drainers, FinishDrain(d) PROVE IndOK'
  <2>1. alerted' \in BOOLEAN
    BY <1>6, Zenon DEF FinishDrain, CheckBacklog, IndOK, TypeOK
  <2>2. lastCheck' \in Hours
    <3>1. lastCheck' \in {lastCheck, at[d]}
      BY <1>6, Zenon DEF FinishDrain, CheckBacklog
    <3> QED
      BY <3>1 DEF IndOK, TypeOK
  <2>3. pc' \in [Drainers -> Phases] /\ bucket' \in [Drainers -> -1 .. MaxHour + 1]
    <3>1. \/ bucket' = [bucket EXCEPT ![d] = at[d] - 1] /\ Goto(d, "reconcile")
          \/ bucket' = bucket /\ Goto(d, "done")
      BY <1>6, Zenon DEF FinishDrain
    <3>2. at[d] - 1 \in -1 .. MaxHour + 1
      BY DEF IndOK, TypeOK, Hours
    <3>3. pc' \in [Drainers -> Phases]
      BY <3>1 DEF Goto, IndOK, TypeOK, Phases
    <3>4. bucket' \in [Drainers -> -1 .. MaxHour + 1]
      BY <3>1, <3>2 DEF IndOK, TypeOK
    <3> QED
      BY <3>3, <3>4
  <2>4. TypeOK'
    BY <1>6, <2>1, <2>2, <2>3 DEF FinishDrain, IndOK, TypeOK, tables, others
  <2>5. PhaseOK'
    <3>1. \/ bucket' = [bucket EXCEPT ![d] = at[d] - 1] /\ Goto(d, "reconcile")
          \/ bucket' = bucket /\ Goto(d, "done")
      BY <1>6, Zenon DEF FinishDrain
    <3>2. UNCHANGED <<now, at, processed>>
      BY <1>6 DEF FinishDrain
    <3>3. ASSUME NEW e \in Drainers, e # d
          PROVE  pc'[e] = pc[e] /\ bucket'[e] = bucket[e]
      BY <3>1, <3>3 DEF Goto, IndOK, TypeOK
    <3>4. pc'[d] = "done" \/ (pc'[d] = "reconcile" /\ bucket'[d] = at[d] - 1)
      BY <3>1 DEF Goto, IndOK, TypeOK
    <3> QED
      BY <3>2, <3>3, <3>4 DEF IndOK, PhaseOK
  <2> QED
    BY <1>6, <2>4, <2>5 DEF FinishDrain, IndOK
<1>7. ASSUME NEW d \in Drainers, CommitReconcile(d) PROVE IndOK'
  <2>1. bucket[d] \in Hours /\ rows[d] \in [Series -> Versions \cup {NoRows}]
    BY <1>7 DEF CommitReconcile, IndOK, TypeOK, PhaseOK, Hours
  <2>2. hourly' \in [Hours -> [Series -> UsableVersions \cup {NoRows}]]
    BY <1>7, <2>1, UpsertType DEF CommitReconcile, CommitBucket, IndOK, TypeOK
  <2> QED
    BY <1>7, <2>1, <2>2 DEF CommitReconcile, CommitBucket, CheckBacklog, Advance, Goto,
                            IndOK, TypeOK, PhaseOK, Phases, Hours, NoWatermark, others
<1>8. ASSUME NEW d \in Drainers, EndCycle(d) PROVE IndOK'
  BY <1>8 DEF EndCycle, Goto, IndOK, TypeOK, PhaseOK, Phases, tables, others, history
<1>9. ASSUME NEW d \in Drainers, WriteChunk(d) PROVE IndOK'
  BY <1>9 DEF WriteChunk, IndOK, TypeOK, PhaseOK, locals, others, history
<1>10. ASSUME NEW d \in Drainers, TxFails(d) PROVE IndOK'
  <2>1. alerted' \in BOOLEAN
    BY <1>10, Zenon DEF TxFails, CheckBacklog, IndOK, TypeOK
  <2>2. lastCheck' \in Hours /\ faults' \in 0 .. MaxFaults
    BY <1>10 DEF TxFails, CheckBacklog, IndOK, TypeOK
  <2>3. TypeOK'
    BY <1>10, <2>1, <2>2 DEF TxFails, Goto, IndOK, TypeOK, Phases, tables, others
  <2>4. PhaseOK'
    BY <1>10 DEF TxFails, Goto, IndOK, TypeOK, PhaseOK
  <2> QED
    BY <1>10, <2>3, <2>4 DEF TxFails, IndOK
<1>11. ASSUME NEW d \in Drainers, Crash(d) PROVE IndOK'
  BY <1>11 DEF Crash, Goto, IndOK, TypeOK, PhaseOK, Phases, tables, others, history
<1>17. CASE WriteStations
  <2>1. official + 1 \in 0 .. MaxStationWrites
    BY <1>17 DEF WriteStations, IndOK, TypeOK
  <2>2. raw' \in [Hours -> [Series -> Versions \cup {NoRows}]]
    <3>1. PICK h \in 0 .. now, s \in Series, v \in Versions :
             raw' = [raw EXCEPT ![h] = [@ EXCEPT ![s] = v]]
      BY <1>17 DEF WriteStations
    <3>2. h \in Hours
      BY <3>1 DEF IndOK, TypeOK, Hours
    <3> QED
      BY <3>1, <3>2 DEF IndOK, TypeOK
  <2> QED
    BY <1>17, <2>1, <2>2 DEF WriteStations, IndOK, TypeOK, PhaseOK, locals, history
<1>12. CASE RollupAllSelect
  BY <1>12 DEF RollupAllSelect, IndOK, TypeOK, PhaseOK, tables, locals, others, history
<1>13. CASE RollupAllCommit
  <2>1. ASSUME NEW h \in Hours
        PROVE  Upsert(opRows[h], hourly[h]) \in [Series -> UsableVersions \cup {NoRows}]
    BY <1>13, UpsertType DEF RollupAllCommit, IndOK, TypeOK
  <2> QED
    BY <1>13, <2>1 DEF RollupAllCommit, IndOK, TypeOK, PhaseOK, locals, others, history
<1>14. CASE Tick
  BY <1>14 DEF Tick, IndOK, TypeOK, PhaseOK, Hours, tables, locals, others, history
<1>15. ASSUME NEW h \in Hours, DropRaw(h) PROVE IndOK'
  BY <1>15 DEF DropRaw, NoHour, IndOK, TypeOK, PhaseOK, locals, others
<1>16. CASE UNCHANGED vars
  BY <1>16 DEF vars, IndOK, TypeOK, PhaseOK, tables, locals, others, history
<1> QED
  BY <1>1, <1>2, <1>3, <1>4, <1>5, <1>6, <1>7, <1>8, <1>9, <1>10, <1>11, <1>12,
     <1>13, <1>14, <1>15, <1>16, <1>17 DEF Next, Cycle

LEMMA AlwaysIndOK == Spec => []IndOK
<1>1. IndOK /\ [Next]_vars => IndOK'
  BY StepIndOK
<1> QED
  BY InitIndOK, <1>1, PTL DEF Spec

(* Every variable keeps its type in every reachable state: in particular   *)
(* neither RollupBacklog's loop nor the reconcile reaches an hour off the  *)
(* clock.                                                                  *)
THEOREM TypeCorrect == Spec => []TypeOK
<1>1. IndOK => TypeOK
  BY DEF IndOK
<1> QED
  BY AlwaysIndOK, <1>1, PTL

-----------------------------------------------------------------------------
(* GapFree: a drainer that found a watermark never stands more than one    *)
(* hour past the one stored now, however far others have moved it since.   *)

Cursor(d) ==
    /\ pc[d] \in {"drain", "drainTx"} /\ seen[d] # NoWatermark
          => watermark # NoWatermark /\ bucket[d] <= watermark + 1
    /\ pc[d] \in {"reconcile", "reconcileTx"}
          => /\ watermark # NoWatermark /\ seen[d] # NoWatermark
             /\ bucket[d] <= watermark

CursorOK == \A d \in Drainers : Cursor(d)

OriginOK == watermark # NoWatermark => origin \in Hours

GapInv == GapFree /\ CursorOK /\ OriginOK

LEMMA CommitGap ==
    ASSUME IndOK, GapInv, NEW d \in Drainers, CommitBucket(d),
           pc[d] \in {"drainTx", "reconcileTx"}
    PROVE  /\ GapFree' /\ OriginOK'
           /\ watermark' # NoWatermark /\ watermark' >= watermark
           /\ watermark' >= bucket[d]
           /\ watermark' \in Int /\ bucket[d] \in Int
<1>1. bucket[d] \in Hours /\ watermark \in Hours \cup {NoWatermark}
  BY ConstantsAssumption DEF IndOK, TypeOK, PhaseOK, Hours
<1>2. /\ watermark' = IF bucket[d] > watermark THEN bucket[d] ELSE watermark
      /\ rolled' = rolled \cup {bucket[d]}
      /\ origin' = IF seen[d] = NoWatermark /\ bucket[d] > watermark
                   THEN bucket[d] ELSE origin
  BY DEF CommitBucket, Advance
<1>3. /\ watermark' \in Hours /\ watermark' >= watermark
      /\ watermark' >= bucket[d] /\ watermark' # NoWatermark
      /\ watermark' \in Int /\ bucket[d] \in Int
  BY <1>1, <1>2, ConstantsAssumption DEF Hours, NoWatermark
<1>4. Covered' = origin' .. watermark'
  BY <1>3 DEF Covered
<1>5. CASE seen[d] = NoWatermark /\ bucket[d] > watermark
  <2>1. origin' = bucket[d] /\ watermark' = bucket[d]
    BY <1>2, <1>5
  <2>2. \A h \in origin' .. watermark' : h \in rolled'
    BY <1>2, <1>3, <2>1
  <2> QED
    BY <1>1, <1>3, <1>4, <2>1, <2>2 DEF GapFree, OriginOK
<1>6. CASE ~(seen[d] = NoWatermark /\ bucket[d] > watermark)
  <2>1. watermark # NoWatermark /\ bucket[d] <= watermark + 1 /\ origin' = origin
    BY <1>1, <1>2, <1>6 DEF GapInv, CursorOK, Cursor, Hours, NoWatermark
  <2>2. origin \in Hours /\ \A h \in origin .. watermark : h \in rolled
    BY <2>1 DEF GapInv, GapFree, Covered, OriginOK
  <2>3. \A h \in origin .. watermark' : h \in rolled'
    BY <1>1, <1>2, <2>1, <2>2 DEF Hours, NoWatermark
  <2> QED
    BY <1>3, <1>4, <2>1, <2>2, <2>3 DEF GapFree, OriginOK
<1> QED
  BY <1>3, <1>5, <1>6

(* A drainer's own bound survives any growth of the watermark. *)
LEMMA CursorGrows ==
    ASSUME IndOK, GapInv, NEW e \in Drainers,
           pc'[e] = pc[e], seen'[e] = seen[e], bucket'[e] = bucket[e],
           watermark' # NoWatermark, watermark' \in Int, watermark' >= watermark
    PROVE  Cursor(e)'
<1>1. Cursor(e) /\ bucket[e] \in Int /\ watermark \in Int
  BY ConstantsAssumption DEF GapInv, CursorOK, IndOK, TypeOK, Hours, NoWatermark
<1> QED
  BY <1>1 DEF Cursor

LEMMA InitGapInv == Init => GapInv
  BY DEF Init, GapInv, GapFree, Covered, CursorOK, Cursor, OriginOK

LEMMA StepGapInv == IndOK /\ GapInv /\ [Next]_vars => GapInv'
<1> SUFFICES ASSUME IndOK, GapInv, [Next]_vars PROVE GapInv'
  OBVIOUS
<1>1. CASE UNCHANGED <<watermark, origin, rolled>> /\ CursorOK'
  BY <1>1 DEF GapInv, GapFree, Covered, OriginOK
<1>2. ASSUME NEW d \in Drainers, CommitDrain(d) PROVE GapInv'
  <2>1. /\ GapFree' /\ OriginOK' /\ watermark' # NoWatermark
        /\ watermark' >= watermark /\ watermark' >= bucket[d]
        /\ watermark' \in Int /\ bucket[d] \in Int
    BY <1>2, CommitGap DEF CommitDrain
  <2>2. CursorOK'
    <3> SUFFICES ASSUME NEW e \in Drainers PROVE Cursor(e)'
      BY DEF CursorOK
    <3>1. CASE e # d
      <4>1. pc'[e] = pc[e] /\ seen'[e] = seen[e] /\ bucket'[e] = bucket[e]
        BY <1>2, <3>1 DEF CommitDrain, Goto, IndOK, TypeOK
      <4> QED
        BY <2>1, <4>1, CursorGrows
    <3>2. CASE e = d
      <4>1. pc'[d] = "drain" /\ bucket'[d] = bucket[d] + 1
        BY <1>2 DEF CommitDrain, Goto, IndOK, TypeOK
      <4> QED
        BY <2>1, <3>2, <4>1 DEF Cursor
    <3> QED
      BY <3>1, <3>2
  <2> QED
    BY <2>1, <2>2 DEF GapInv
<1>3. ASSUME NEW d \in Drainers, CommitReconcile(d) PROVE GapInv'
  <2>1. /\ GapFree' /\ OriginOK' /\ watermark' # NoWatermark
        /\ watermark' >= watermark /\ watermark' \in Int
    BY <1>3, CommitGap DEF CommitReconcile
  <2>2. CursorOK'
    <3> SUFFICES ASSUME NEW e \in Drainers PROVE Cursor(e)'
      BY DEF CursorOK
    <3>1. CASE e # d
      <4>1. pc'[e] = pc[e] /\ seen'[e] = seen[e] /\ bucket'[e] = bucket[e]
        BY <1>3, <3>1 DEF CommitReconcile, Goto, IndOK, TypeOK
      <4> QED
        BY <2>1, <4>1, CursorGrows
    <3>2. CASE e = d
      BY <1>3, <3>2 DEF CommitReconcile, Goto, Cursor, IndOK, TypeOK
    <3> QED
      BY <3>1, <3>2
  <2> QED
    BY <2>1, <2>2 DEF GapInv
<1>4. ASSUME NEW d \in Drainers, Fetch(d) PROVE GapInv'
  BY <1>1, <1>4 DEF Fetch, Goto, CursorOK, Cursor, GapInv, IndOK, TypeOK, tables, others, history
<1>5. ASSUME NEW d \in Drainers, StartRollup(d) PROVE GapInv'
  BY <1>1, <1>5 DEF StartRollup, Goto, CursorOK, Cursor, GapInv, IndOK, TypeOK, tables, others, history
<1>6. ASSUME NEW d \in Drainers, ReadWatermark(d) PROVE GapInv'
  BY <1>1, <1>6 DEF ReadWatermark, StartBucket, Goto, CursorOK, Cursor, GapInv, IndOK, TypeOK,
                    Hours, NoWatermark, tables, others, history
<1>7. ASSUME NEW d \in Drainers, SelectRows(d) PROVE GapInv'
  BY <1>1, <1>7 DEF SelectRows, Goto, CursorOK, Cursor, GapInv, IndOK, TypeOK, tables, others, history
<1>8. ASSUME NEW d \in Drainers, FinishDrain(d) PROVE GapInv'
  <2>1. \/ /\ watermark # NoWatermark /\ watermark >= at[d] - 1
           /\ bucket' = [bucket EXCEPT ![d] = at[d] - 1] /\ Goto(d, "reconcile")
        \/ bucket' = bucket /\ Goto(d, "done")
    BY <1>8, Zenon DEF FinishDrain
  <2>2. CursorOK'
    BY <1>8, <2>1 DEF FinishDrain, Goto, CursorOK, Cursor, GapInv, IndOK, TypeOK, Hours, tables
  <2> QED
    BY <1>1, <1>8, <2>2 DEF FinishDrain, tables
<1>9. ASSUME NEW d \in Drainers, EndCycle(d) PROVE GapInv'
  BY <1>1, <1>9 DEF EndCycle, Goto, CursorOK, Cursor, GapInv, IndOK, TypeOK, tables, others, history
<1>10. ASSUME NEW d \in Drainers, WriteChunk(d) PROVE GapInv'
  BY <1>1, <1>10 DEF WriteChunk, CursorOK, Cursor, GapInv, locals, others, history
<1>11. ASSUME NEW d \in Drainers, TxFails(d) PROVE GapInv'
  BY <1>1, <1>11 DEF TxFails, Goto, CursorOK, Cursor, GapInv, IndOK, TypeOK, tables
<1>12. ASSUME NEW d \in Drainers, Crash(d) PROVE GapInv'
  BY <1>1, <1>12 DEF Crash, Goto, CursorOK, Cursor, GapInv, IndOK, TypeOK, tables, others, history
<1>18. CASE WriteStations
  BY <1>1, <1>18 DEF WriteStations, CursorOK, Cursor, GapInv, locals, history
<1>13. CASE RollupAllSelect
  BY <1>1, <1>13 DEF RollupAllSelect, CursorOK, Cursor, GapInv, tables, locals, others, history
<1>14. CASE RollupAllCommit
  BY <1>1, <1>14 DEF RollupAllCommit, CursorOK, Cursor, GapInv, locals, others, history
<1>15. CASE Tick
  BY <1>1, <1>15 DEF Tick, CursorOK, Cursor, GapInv, tables, locals, others, history
<1>16. ASSUME NEW h \in Hours, DropRaw(h) PROVE GapInv'
  BY <1>1, <1>16 DEF DropRaw, CursorOK, Cursor, GapInv, locals
<1>17. CASE UNCHANGED vars
  BY <1>1, <1>17 DEF vars, CursorOK, Cursor, GapInv, tables, locals, others, history
<1> QED
  BY <1>2, <1>3, <1>4, <1>5, <1>6, <1>7, <1>8, <1>9, <1>10, <1>11, <1>12, <1>13,
     <1>14, <1>15, <1>16, <1>17, <1>18 DEF Next, Cycle

(* The watermark never skips an hour, for any number of concurrent         *)
(* drainers, any cap on a call and any crash or failed transaction: every  *)
(* hour from its starting point to it has been rolled up and committed.    *)
THEOREM NoGap == Spec => []GapFree
<1>1. IndOK /\ GapInv /\ [Next]_vars => GapInv'
  BY StepGapInv
<1>2. GapInv => GapFree
  BY DEF GapInv
<1> QED
  BY AlwaysIndOK, InitGapInv, <1>1, <1>2, PTL DEF Spec

-----------------------------------------------------------------------------
(* AlertBeforeLoss: the alert follows the watermark of the last check; a    *)
(* watermark that was not there then starts no earlier than that check.     *)

\* A call that found no watermark starts at its own clock; the watermark the
\* reconcile goes by is not above the one stored.
StartsAtClock ==
    \A d \in Drainers :
        /\ pc[d] \in {"drain", "drainTx"} /\ seen[d] = NoWatermark => bucket[d] >= at[d]
        /\ pc[d] \in {"reconcile", "reconcileTx"} => seen[d] <= watermark

\* The last check is as old as the daemon may be silent, and was made at a clock
\* some cycle read.
ChecksInTime ==
    /\ now - lastCheck <= MaxSilence
    /\ \A d \in Drainers : lastCheck <= at[d]

\* A backlog as long as the threshold at the last check was announced.
BacklogAnnounced ==
    watermark # NoWatermark /\ lastCheck - watermark >= AlertThreshold => alerted

AlertInv == StartsAtClock /\ ChecksInTime /\ BacklogAnnounced /\ AlertBeforeLoss

LEMMA InitAlertInv == Init => AlertInv
<1> SUFFICES ASSUME Init PROVE AlertInv
  OBVIOUS
<1>1. StartsAtClock /\ ChecksInTime
  BY ConstantsAssumption DEF Init, StartsAtClock, ChecksInTime
<1>2. BacklogAnnounced /\ AlertBeforeLoss
  BY DEF Init, BacklogAnnounced, AlertBeforeLoss
<1> QED
  BY <1>1, <1>2 DEF AlertInv

\* The steps that leave the check and the watermark alone.
LEMMA QuietAlert ==
    ASSUME AlertInv, UNCHANGED <<watermark, alerted, lastCheck, lost>>,
           StartsAtClock', now' - lastCheck <= MaxSilence,
           \A d \in Drainers : lastCheck <= at'[d]
    PROVE  AlertInv'
  BY DEF AlertInv, ChecksInTime, BacklogAnnounced, AlertBeforeLoss

\* A commit only moves the watermark on, and not below the last check when there was
\* none.
LEMMA CommitAlert ==
    ASSUME IndOK, GapInv, AlertInv, NEW d \in Drainers, CommitBucket(d),
           pc[d] \in {"drainTx", "reconcileTx"}
    PROVE  /\ watermark' \in Int /\ watermark' # NoWatermark
           /\ watermark # NoWatermark => watermark' >= watermark
           /\ watermark = NoWatermark => watermark' >= lastCheck
           /\ pc[d] = "reconcileTx" => seen[d] <= watermark' /\ seen[d] # NoWatermark
<1>1. /\ watermark' \in Int /\ bucket[d] \in Int
      /\ watermark' # NoWatermark /\ watermark' >= watermark /\ watermark' >= bucket[d]
  BY CommitGap
<1>2. Cursor(d) /\ watermark \in Int /\ seen[d] \in Int /\ at[d] \in Int /\ lastCheck \in Int
  BY ConstantsAssumption DEF GapInv, CursorOK, IndOK, TypeOK, Hours, NoWatermark
<1>3. CASE pc[d] = "drainTx"
  <2>1. watermark = NoWatermark => bucket[d] >= at[d] /\ at[d] >= lastCheck
    BY <1>2, <1>3 DEF Cursor, AlertInv, StartsAtClock, ChecksInTime
  <2> QED
    BY <1>1, <1>2, <1>3, <2>1
<1>4. CASE pc[d] = "reconcileTx"
  <2>1. watermark # NoWatermark /\ seen[d] # NoWatermark /\ seen[d] <= watermark
    BY <1>2, <1>4 DEF Cursor, AlertInv, StartsAtClock
  <2> QED
    BY <1>1, <1>2, <1>4, <2>1
<1> QED
  BY <1>3, <1>4

\* A check at a clock the only drainer read.
LEMMA CheckAlert ==
    ASSUME IndOK, AlertInv, SoleDrainer, NEW d \in Drainers, NEW wm \in Int,
           CheckBacklog(d, wm), UNCHANGED <<now, at, lost>>,
           watermark' # NoWatermark => wm # NoWatermark /\ wm <= watermark',
           watermark' \in Int
    PROVE  ChecksInTime' /\ BacklogAnnounced' /\ AlertBeforeLoss'
<1>1. lastCheck' = at[d] /\ (alerted' <=> alerted \/ (wm # NoWatermark /\ at[d] - wm >= AlertThreshold))
      /\ alerted \in BOOLEAN
  BY DEF CheckBacklog, IndOK, TypeOK
<1>2. \A e \in Drainers : e = d
  BY DEF SoleDrainer
<1>3. now \in Int /\ lastCheck \in Int /\ at[d] \in Int /\ at[d] >= lastCheck /\ AlertThreshold \in Int
      /\ MaxSilence \in Int
  BY ConstantsAssumption DEF AlertInv, ChecksInTime, IndOK, TypeOK, Hours
<1>4. ChecksInTime'
  BY <1>1, <1>2, <1>3 DEF AlertInv, ChecksInTime
<1>5. BacklogAnnounced'
  <2> SUFFICES ASSUME watermark' # NoWatermark, lastCheck' - watermark' >= AlertThreshold
               PROVE  alerted'
    BY DEF BacklogAnnounced
  <2>1. wm # NoWatermark /\ at[d] - wm >= AlertThreshold
    BY <1>1, <1>3
  <2> QED
    BY <1>1, <2>1
<1>6. AlertBeforeLoss'
  BY <1>1 DEF AlertInv, AlertBeforeLoss
<1> QED
  BY <1>4, <1>5, <1>6

LEMMA StepAlertInv ==
    ASSUME IndOK, GapInv, AlertInv, SoleDrainer, [Next]_vars
    PROVE  AlertInv'
<1> USE ConstantsAssumption
<1>0. /\ watermark \in Int /\ now \in Int /\ lastCheck \in Int /\ MaxSilence \in Int
      /\ AlertThreshold \in Int /\ Retention \in Int
      /\ \A d \in Drainers : at[d] \in Int /\ at[d] <= now /\ seen[d] \in Int /\ bucket[d] \in Int
  BY DEF IndOK, TypeOK, PhaseOK, Hours, NoWatermark
<1>1. ASSUME NEW d \in Drainers, Fetch(d) \/ StartRollup(d) PROVE AlertInv'
  <2>1. /\ UNCHANGED <<now, watermark, seen, bucket, alerted, lastCheck, lost>>
        /\ at' = [at EXCEPT ![d] = now]
        /\ pc' = [pc EXCEPT ![d] = "ingest"] \/ pc' = [pc EXCEPT ![d] = "read"]
    BY <1>1 DEF Fetch, StartRollup, Goto, tables, history
  <2>2. at \in [Drainers -> Hours] /\ pc \in [Drainers -> Phases]
    BY DEF IndOK, TypeOK
  <2>3. StartsAtClock'
    BY <2>1, <2>2 DEF AlertInv, StartsAtClock
  <2>4. \A e \in Drainers : lastCheck <= at'[e]
    BY <1>0, <2>1, <2>2 DEF AlertInv, ChecksInTime
  <2> QED
    BY <2>1, <2>3, <2>4, QuietAlert DEF AlertInv, ChecksInTime
<1>2. ASSUME NEW d \in Drainers, ReadWatermark(d) PROVE AlertInv'
  <2>1. StartsAtClock'
    BY <1>0, <1>2 DEF ReadWatermark, StartBucket, Goto, AlertInv, StartsAtClock, IndOK, TypeOK, tables
  <2> QED
    BY <1>2, <2>1, QuietAlert DEF ReadWatermark, AlertInv, ChecksInTime, tables, history
<1>3. ASSUME NEW d \in Drainers, SelectRows(d) PROVE AlertInv'
  <2>1. StartsAtClock'
    BY <1>3 DEF SelectRows, Goto, AlertInv, StartsAtClock, IndOK, TypeOK, tables
  <2> QED
    BY <1>3, <2>1, QuietAlert DEF SelectRows, AlertInv, ChecksInTime, tables, history
<1>4. ASSUME NEW d \in Drainers, CommitDrain(d) PROVE AlertInv'
  <2>1. /\ watermark' \in Int /\ watermark' # NoWatermark
        /\ watermark # NoWatermark => watermark' >= watermark
        /\ watermark = NoWatermark => watermark' >= lastCheck
    BY <1>4, CommitAlert DEF CommitDrain
  <2>2. /\ UNCHANGED <<now, at, seen, alerted, lastCheck, lost>>
        /\ bucket' = [bucket EXCEPT ![d] = @ + 1] /\ pc' = [pc EXCEPT ![d] = "drain"]
        /\ pc[d] = "drainTx"
    BY <1>4 DEF CommitDrain, Goto
  <2>3. \A e \in Drainers : e = d
    BY DEF SoleDrainer
  <2>4. StartsAtClock'
    BY <1>0, <2>2, <2>3 DEF AlertInv, StartsAtClock, IndOK, TypeOK
  <2>5. BacklogAnnounced'
    BY <1>0, <2>1, <2>2 DEF AlertInv, BacklogAnnounced
  <2> QED
    BY <2>2, <2>4, <2>5 DEF AlertInv, ChecksInTime, AlertBeforeLoss
<1>5. ASSUME NEW d \in Drainers, FinishDrain(d) PROVE AlertInv'
  <2>1. \/ /\ pc' = [pc EXCEPT ![d] = "reconcile"] /\ UNCHANGED <<alerted, lastCheck>>
        \/ pc' = [pc EXCEPT ![d] = "done"] /\ CheckBacklog(d, watermark)
    BY <1>5, Zenon DEF FinishDrain, Goto
  <2>2. UNCHANGED <<now, watermark, at, lost>> /\ seen' = [seen EXCEPT ![d] = watermark]
    BY <1>5 DEF FinishDrain, tables
  <2>3. \A e \in Drainers : e = d
    BY DEF SoleDrainer
  <2>4. StartsAtClock'
    BY <1>0, <2>1, <2>2, <2>3 DEF StartsAtClock, IndOK, TypeOK
  <2>5. CASE UNCHANGED <<alerted, lastCheck>>
    BY <2>2, <2>4, <2>5, QuietAlert DEF AlertInv, ChecksInTime
  <2>6. CASE CheckBacklog(d, watermark)
    BY <1>0, <2>2, <2>4, <2>6, CheckAlert DEF AlertInv
  <2> QED
    BY <2>1, <2>5, <2>6
<1>6. ASSUME NEW d \in Drainers, CommitReconcile(d) PROVE AlertInv'
  <2>1. /\ watermark' \in Int /\ watermark' # NoWatermark
        /\ seen[d] <= watermark' /\ seen[d] # NoWatermark
    BY <1>6, CommitAlert DEF CommitReconcile
  <2>2. UNCHANGED <<now, at, lost>> /\ CheckBacklog(d, seen[d]) /\ pc' = [pc EXCEPT ![d] = "done"]
    BY <1>6 DEF CommitReconcile, Goto
  <2>3. \A e \in Drainers : e = d
    BY DEF SoleDrainer
  <2>4. StartsAtClock'
    BY <2>2, <2>3 DEF StartsAtClock, IndOK, TypeOK
  <2> QED
    BY <1>0, <2>1, <2>2, <2>4, CheckAlert DEF AlertInv
<1>7. ASSUME NEW d \in Drainers, TxFails(d) PROVE AlertInv'
  <2>1. /\ UNCHANGED <<now, watermark, at, seen, bucket, lost>> /\ pc' = [pc EXCEPT ![d] = "idle"]
        /\ \/ CheckBacklog(d, watermark)
           \/ pc[d] = "reconcileTx" /\ CheckBacklog(d, seen[d])
    BY <1>7 DEF TxFails, Goto, tables
  <2>2. StartsAtClock'
    BY <2>1 DEF AlertInv, StartsAtClock, IndOK, TypeOK
  <2>3. CASE CheckBacklog(d, watermark)
    BY <1>0, <2>1, <2>2, <2>3, CheckAlert DEF AlertInv
  <2>4. CASE pc[d] = "reconcileTx" /\ CheckBacklog(d, seen[d])
    <3>1. seen[d] # NoWatermark /\ seen[d] <= watermark
      BY <2>4 DEF GapInv, CursorOK, Cursor, AlertInv, StartsAtClock
    <3> QED
      BY <1>0, <2>1, <2>2, <2>4, <3>1, CheckAlert DEF AlertInv
  <2> QED
    BY <2>1, <2>3, <2>4
<1>8. ASSUME NEW d \in Drainers, EndCycle(d) \/ Crash(d) PROVE AlertInv'
  <2>1. StartsAtClock'
    BY <1>8 DEF EndCycle, Crash, Goto, AlertInv, StartsAtClock, IndOK, TypeOK, tables
  <2> QED
    BY <1>8, <2>1, QuietAlert DEF EndCycle, Crash, AlertInv, ChecksInTime, tables, history
<1>9. ASSUME (\E d \in Drainers : WriteChunk(d)) \/ WriteStations
             \/ RollupAllSelect \/ RollupAllCommit
      PROVE  AlertInv'
  <2>1. UNCHANGED <<now, watermark, locals, history>>
    BY <1>9 DEF WriteChunk, WriteStations, RollupAllSelect, RollupAllCommit, tables
  <2> QED
    BY <2>1, QuietAlert DEF AlertInv, StartsAtClock, ChecksInTime, locals, history
<1>10. CASE Tick
  <2>1. UNCHANGED <<watermark, locals, history>> /\ now' - lastCheck <= MaxSilence
    BY <1>0, <1>10 DEF Tick, tables
  <2> QED
    BY <2>1, QuietAlert DEF AlertInv, StartsAtClock, ChecksInTime, locals, history
<1>11. ASSUME NEW h \in Hours, DropRaw(h) PROVE AlertInv'
  <2>1. /\ UNCHANGED <<now, watermark, locals, alerted, lastCheck>>
        /\ h + Retention < now /\ h \in Int
        /\ lost' = lost \/ (watermark # NoWatermark /\ h > watermark)
    BY <1>11 DEF DropRaw, Hours
  <2>2. StartsAtClock' /\ ChecksInTime' /\ BacklogAnnounced'
    BY <2>1 DEF AlertInv, StartsAtClock, ChecksInTime, BacklogAnnounced, locals
  <2>3. AlertBeforeLoss'
    <3> SUFFICES ASSUME MaxSilence + AlertThreshold <= Retention + 2,
                        watermark # NoWatermark, h > watermark
                 PROVE  alerted
      BY <2>1 DEF AlertInv, AlertBeforeLoss
    <3>1. lastCheck - watermark >= AlertThreshold
      BY <1>0, <2>1 DEF AlertInv, ChecksInTime
    <3> QED
      BY <3>1 DEF AlertInv, BacklogAnnounced
  <2> QED
    BY <2>2, <2>3 DEF AlertInv
<1>12. CASE UNCHANGED vars
  BY <1>12 DEF vars, AlertInv, StartsAtClock, ChecksInTime, BacklogAnnounced, AlertBeforeLoss,
               tables, locals, history
<1> QED
  BY <1>1, <1>2, <1>3, <1>4, <1>5, <1>6, <1>7, <1>8, <1>9, <1>10, <1>11, <1>12 DEF Next, Cycle

(* No row that retention drops ahead of the watermark goes unannounced, for *)
(* every retention, threshold and silence that leave the alert its time,    *)
(* through failed transactions, crashes and late writes (rollupBacklog).    *)
THEOREM AlertAlwaysBeforeLoss == Spec => []AlertBeforeLoss
<1>1. CASE SoleDrainer
  <2>1. IndOK /\ GapInv /\ AlertInv /\ [Next]_vars => AlertInv'
    BY <1>1, StepAlertInv
  <2>2. IndOK /\ GapInv /\ [Next]_vars => GapInv'
    BY StepGapInv
  <2>3. AlertInv => AlertBeforeLoss
    BY DEF AlertInv
  <2> QED
    BY AlwaysIndOK, InitGapInv, InitAlertInv, <2>1, <2>2, <2>3, PTL DEF Spec
<1>2. CASE ~ SoleDrainer
  <2>1. AlertBeforeLoss
    BY <1>2 DEF AlertBeforeLoss
  <2> QED
    BY <2>1, PTL
<1> QED
  BY <1>1, <1>2

-----------------------------------------------------------------------------
(* CoveredHoursFresh: with one drainer and no operator, the loop runs ahead *)
(* of the watermark (InOrder); an aggregate that is behind its raw rows is  *)
(* one this very cycle still has to commit (Owes).                          *)

Alone == SoleDrainer /\ opRuns = 0
Quiet == Orderly /\ official = 0

Aggregated == {h \in Hours : hourly[h] # NoHour}

InOrder(d) ==
    /\ watermark <= at[d]
    /\ pc[d] \in {"drain", "drainTx"} =>
          \/ watermark < bucket[d]
          \/ watermark = at[d] /\ bucket[d] = at[d] /\ processed[d] = 0

OrderParts ==
    /\ opRows = <<>>
    /\ \A d \in Drainers : InOrder(d)
    /\ \A h \in Aggregated : watermark # NoWatermark /\ h <= watermark

OrderInv == Alone => OrderParts

LEMMA InitOrderInv == Init => OrderInv
<1> SUFFICES ASSUME Init PROVE OrderParts
  BY DEF OrderInv
<1>1. Aggregated = {}
  BY DEF Init, Aggregated
<1> QED
  BY <1>1 DEF Init, OrderParts, InOrder, NoWatermark

\* A commit of the sole drainer moves the watermark to its bucket at most, and
\* aggregates no hour beside it.
LEMMA CommitOrder ==
    ASSUME IndOK, OrderParts, NEW d \in Drainers, CommitBucket(d),
           pc[d] \in {"drainTx", "reconcileTx"}
    PROVE  /\ bucket[d] \in Hours /\ bucket[d] <= at[d]
           /\ watermark' \in Hours /\ watermark' <= at[d]
           /\ watermark' = IF bucket[d] > watermark THEN bucket[d] ELSE watermark
           /\ \A h \in Hours : h # bucket[d] => hourly'[h] = hourly[h]
           /\ hourly'[bucket[d]] = Upsert(rows[d], hourly[bucket[d]])
           /\ \A h \in Aggregated' : watermark' # NoWatermark /\ h <= watermark'
<1>1. bucket[d] \in Hours /\ bucket[d] <= at[d]
  BY ConstantsAssumption DEF IndOK, TypeOK, PhaseOK, Hours
<1>2. watermark' = IF bucket[d] > watermark THEN bucket[d] ELSE watermark
  BY DEF CommitBucket, Advance
<1>3. /\ watermark' \in Hours /\ watermark' <= at[d]
      /\ watermark' >= bucket[d] /\ watermark' >= watermark
      /\ watermark' # NoWatermark
  BY <1>1, <1>2, ConstantsAssumption DEF IndOK, TypeOK, OrderParts, InOrder, Hours, NoWatermark
<1>4. /\ \A h \in Hours : h # bucket[d] => hourly'[h] = hourly[h]
      /\ hourly'[bucket[d]] = Upsert(rows[d], hourly[bucket[d]])
  BY <1>1 DEF CommitBucket, IndOK, TypeOK
<1>5. ASSUME NEW h \in Aggregated'
      PROVE  watermark' # NoWatermark /\ h <= watermark'
  <2>1. h \in Hours /\ (h = bucket[d] \/ h \in Aggregated)
    BY <1>4 DEF Aggregated, NoHour
  <2>2. h \in Aggregated => h <= watermark
    BY DEF OrderParts
  <2> QED
    BY <1>1, <1>3, <2>1, <2>2 DEF IndOK, TypeOK, Hours, NoWatermark
<1> QED
  BY <1>1, <1>2, <1>3, <1>4, <1>5

\* The steps that commit nothing and leave the cycle's variables alone.
LEMMA KeepOrder ==
    ASSUME OrderParts, UNCHANGED <<opRows, hourly, watermark>>,
           \A e \in Drainers : InOrder(e)'
    PROVE  OrderParts'
  BY DEF OrderParts, Aggregated, NoHour

LEMMA StepOrderInv == IndOK /\ OrderInv /\ [Next]_vars => OrderInv'
<1> SUFFICES ASSUME IndOK, OrderInv, [Next]_vars, Alone' PROVE OrderParts'
  BY DEF OrderInv
<1>a. SoleDrainer /\ opRuns' = 0
  BY DEF Alone, SoleDrainer
<1>b. opRuns = 0
  <2>1. CASE RollupAllSelect
    BY <1>a, <2>1 DEF RollupAllSelect, IndOK, TypeOK
  <2>2. CASE ~RollupAllSelect
    BY <1>a, <2>2 DEF Next, Cycle, Fetch, StartRollup, ReadWatermark, SelectRows, CommitDrain,
       FinishDrain, CommitReconcile, EndCycle, WriteChunk, TxFails, Crash, WriteStations,
       RollupAllCommit, Tick, DropRaw, vars, others
  <2> QED
    BY <2>1, <2>2
<1>c. OrderParts
  BY <1>a, <1>b DEF OrderInv, Alone
<1>d. \A e \in Drainers : InOrder(e)
  BY <1>c DEF OrderParts
<1>1. ASSUME NEW d \in Drainers, Fetch(d) PROVE OrderParts'
  <2>1. \A e \in Drainers : InOrder(e)'
    BY <1>1, <1>a, <1>d, ConstantsAssumption
       DEF Fetch, Goto, InOrder, SoleDrainer, IndOK, TypeOK, PhaseOK, Hours, NoWatermark, tables
  <2> QED
    BY <1>1, <1>c, <2>1, KeepOrder DEF Fetch, tables, others
<1>2. ASSUME NEW d \in Drainers, StartRollup(d) PROVE OrderParts'
  <2>1. \A e \in Drainers : InOrder(e)'
    BY <1>2, <1>a, <1>d, ConstantsAssumption
       DEF StartRollup, Goto, InOrder, SoleDrainer, IndOK, TypeOK, PhaseOK, Hours, NoWatermark, tables
  <2> QED
    BY <1>2, <1>c, <2>1, KeepOrder DEF StartRollup, tables, others
<1>3. ASSUME NEW d \in Drainers, ReadWatermark(d) PROVE OrderParts'
  <2>1. \A e \in Drainers : InOrder(e)'
    BY <1>3, <1>a, <1>d, ConstantsAssumption
       DEF ReadWatermark, StartBucket, Goto, InOrder, SoleDrainer, IndOK, TypeOK, PhaseOK,
           Hours, NoWatermark, tables
  <2> QED
    BY <1>3, <1>c, <2>1, KeepOrder DEF ReadWatermark, tables, others
<1>4. ASSUME NEW d \in Drainers, SelectRows(d) PROVE OrderParts'
  <2>1. \A e \in Drainers : InOrder(e)'
    BY <1>4, <1>a, <1>d
       DEF SelectRows, Goto, InOrder, SoleDrainer, IndOK, TypeOK, tables
  <2> QED
    BY <1>4, <1>c, <2>1, KeepOrder DEF SelectRows, tables, others
<1>5. ASSUME NEW d \in Drainers, CommitDrain(d) PROVE OrderParts'
  <2>1. /\ bucket[d] \in Hours /\ watermark' \in Hours /\ watermark' <= at[d]
        /\ watermark' = IF bucket[d] > watermark THEN bucket[d] ELSE watermark
        /\ \A h \in Aggregated' : watermark' # NoWatermark /\ h <= watermark'
    BY <1>5, <1>c, CommitOrder DEF CommitDrain
  <2>2. bucket'[d] = bucket[d] + 1 /\ at' = at /\ pc'[d] = "drain"
    BY <1>5 DEF CommitDrain, Goto, IndOK, TypeOK
  <2>3. watermark <= bucket[d]
    BY <1>5, <1>d, <2>1 DEF CommitDrain, InOrder, IndOK, TypeOK, Hours, NoWatermark
  <2>4. \A e \in Drainers : InOrder(e)'
    BY <1>a, <2>1, <2>2, <2>3 DEF InOrder, SoleDrainer, Hours
  <2> QED
    BY <1>5, <1>c, <2>1, <2>4 DEF CommitDrain, OrderParts, others
<1>6. ASSUME NEW d \in Drainers, FinishDrain(d) PROVE OrderParts'
  <2>1. pc' \in {[pc EXCEPT ![d] = "reconcile"], [pc EXCEPT ![d] = "done"]}
    BY <1>6, Zenon DEF FinishDrain, Goto
  <2>2. \A e \in Drainers : InOrder(e)'
    BY <1>6, <1>a, <1>d, <2>1 DEF FinishDrain, InOrder, SoleDrainer, IndOK, TypeOK, tables
  <2> QED
    BY <1>6, <1>c, <2>2, KeepOrder DEF FinishDrain, tables, others
<1>7. ASSUME NEW d \in Drainers, CommitReconcile(d) PROVE OrderParts'
  <2>1. /\ watermark' <= at[d]
        /\ \A h \in Aggregated' : watermark' # NoWatermark /\ h <= watermark'
    BY <1>7, <1>c, CommitOrder DEF CommitReconcile
  <2>2. \A e \in Drainers : InOrder(e)'
    BY <1>7, <1>a, <2>1 DEF CommitReconcile, Goto, InOrder, SoleDrainer, IndOK, TypeOK
  <2> QED
    BY <1>7, <1>c, <2>1, <2>2 DEF CommitReconcile, OrderParts, others
<1>8. ASSUME NEW d \in Drainers, EndCycle(d) PROVE OrderParts'
  <2>1. \A e \in Drainers : InOrder(e)'
    BY <1>8, <1>a, <1>d DEF EndCycle, Goto, InOrder, SoleDrainer, IndOK, TypeOK, tables
  <2> QED
    BY <1>8, <1>c, <2>1, KeepOrder DEF EndCycle, tables, others
<1>9. ASSUME NEW d \in Drainers, TxFails(d) \/ Crash(d) PROVE OrderParts'
  <2>1. /\ pc' = [pc EXCEPT ![d] = "idle"]
        /\ UNCHANGED <<at, opRows, hourly, watermark>>
    BY <1>9, Zenon DEF TxFails, Crash, Goto, tables, others
  <2>2. \A e \in Drainers : InOrder(e)'
    BY <1>a, <1>d, <2>1 DEF InOrder, SoleDrainer, IndOK, TypeOK
  <2> QED
    BY <1>c, <2>1, <2>2, KeepOrder
<1>10. ASSUME UNCHANGED <<locals, opRows, hourly, watermark>> PROVE OrderParts'
  <2>1. \A e \in Drainers : InOrder(e)'
    BY <1>10, <1>d DEF InOrder, locals
  <2> QED
    BY <1>10, <1>c, <2>1, KeepOrder
<1>11. ASSUME \/ \E d \in Drainers : WriteChunk(d)
              \/ WriteStations \/ Tick \/ \E h \in Hours : DropRaw(h)
              \/ UNCHANGED vars
       PROVE  OrderParts'
  BY <1>10, <1>11 DEF WriteChunk, WriteStations, Tick, DropRaw, vars, tables, others
<1>12. ~RollupAllSelect /\ ~RollupAllCommit
  BY <1>a, <1>b, <1>c DEF RollupAllSelect, RollupAllCommit, OrderParts
<1> QED
  BY <1>1, <1>2, <1>3, <1>4, <1>5, <1>6, <1>7, <1>8, <1>9, <1>11, <1>12 DEF Next, Cycle

\* The hours whose aggregate has something to keep up with.
Tracked == Covered \cup Aggregated

\* The stale hours a cycle in this phase still has a commit ahead for.
Owes(d, h) ==
    \/ pc[d] = "ingest" /\ h >= at[d] - Lag
    \/ pc[d] = "read" /\ h >= at[d] - 1
    \/ pc[d] \in {"drain", "drainTx"} /\ (h = at[d] - 1 \/ (h = at[d] /\ bucket[d] <= at[d]))
    \/ pc[d] \in {"reconcile", "reconcileTx"} /\ h = at[d] - 1

\* A cycle is at most Span hours old when its rollup starts, and what its open
\* transaction selected is what is there, unless retention dropped it since.
Holding(d) ==
    /\ pc[d] = "ingest" => now - at[d] <= Span
    /\ pc[d] \in {"drainTx", "reconcileTx"} => raw[bucket[d]] \in {rows[d], NoHour}

FreshParts ==
    /\ \A d \in Drainers : Holding(d)
    /\ \A h \in Tracked : Stale(h) => \E d \in Drainers : Owes(d, h)

FreshInv == Quiet => FreshParts

LEMMA NoHourFresh == ASSUME ConstantsAssumption, NEW h, raw[h] = NoHour PROVE ~Stale(h)
  BY DEF Stale, NoHour, ConstantsAssumption

LEMMA NoHourFreshNext ==
    ASSUME ConstantsAssumption, NEW h, raw'[h] = NoHour PROVE ~Stale(h)'
  BY DEF Stale, NoHour, ConstantsAssumption

LEMMA InitFreshInv == Init => FreshInv
<1> SUFFICES ASSUME Init PROVE FreshParts
  BY DEF FreshInv
<1>1. \A h \in Hours : ~Stale(h)
  BY ConstantsAssumption DEF Init, Stale, NoHour
<1>2. Tracked = {}
  BY DEF Init, Tracked, Covered, Aggregated
<1> QED
  BY <1>2 DEF Init, FreshParts, Holding

\* What the commit of the sole drainer makes of the tracked hours.
LEMMA CommitFresh ==
    ASSUME IndOK, GapInv, OrderParts, FreshParts, NEW d \in Drainers, NEW b \in Hours, b = bucket[d], CommitBucket(d),
           pc[d] \in {"drainTx", "reconcileTx"}, raw' = raw
    PROVE  /\ ~Stale(b)'
           /\ \A h \in Hours : h # b => Stale(h)' = Stale(h)
           /\ Tracked' \subseteq Tracked \cup {b}
           /\ Tracked' \subseteq Hours
<1>1. /\ b <= at[d]
      /\ watermark' \in Hours /\ watermark' <= at[d]
      /\ watermark' = IF b > watermark THEN b ELSE watermark
      /\ \A h \in Hours : h # b => hourly'[h] = hourly[h]
      /\ hourly'[b] = Upsert(rows[d], hourly[b])
  BY CommitOrder
<1>2. ~Stale(b)'
  <2>1. CASE raw[b] = rows[d]
    BY <1>1, <2>1 DEF Stale, Upsert
  <2>2. CASE raw[b] = NoHour
    BY <2>2, NoHourFreshNext, ConstantsAssumption DEF Stale, NoHour
  <2> QED
    BY <2>1, <2>2 DEF FreshParts, Holding
<1>3. \A h \in Hours : h # b => Stale(h)' = Stale(h)
  BY <1>1 DEF Stale
<1>4. Aggregated' \subseteq Aggregated \cup {b}
  BY <1>1 DEF Aggregated, NoHour
<1>5. Covered' \subseteq Covered \cup {b} /\ Covered' \subseteq Hours
  <2>1. /\ origin' = IF seen[d] = NoWatermark /\ b > watermark
                     THEN b ELSE origin
        /\ watermark' # NoWatermark
    BY <1>1 DEF CommitBucket, Hours, NoWatermark
  <2>2. Covered' = origin' .. watermark'
    BY <2>1 DEF Covered
  <2>3. CASE seen[d] = NoWatermark /\ b > watermark
    BY <1>1, <2>1, <2>2, <2>3 DEF Hours
  <2>4. CASE ~(seen[d] = NoWatermark /\ b > watermark)
    <3>1. watermark # NoWatermark /\ b <= watermark + 1 /\ origin' = origin
      BY <1>1, <2>1, <2>4 DEF GapInv, CursorOK, Cursor, IndOK, TypeOK, Hours, NoWatermark
    <3>2. Covered = origin .. watermark /\ origin \in Hours /\ watermark \in Hours
      BY <3>1 DEF Covered, GapInv, OriginOK, IndOK, TypeOK
    <3>3. watermark' <= watermark + 1 /\ (watermark' > watermark => watermark' = b)
      BY <1>1, <3>1, <3>2 DEF Hours
    <3>4. \A h \in origin .. watermark' : h \in Hours /\ (h \in origin .. watermark \/ h = b)
      BY <1>1, <3>2, <3>3, ConstantsAssumption DEF Hours
    <3> QED
      BY <2>1, <2>2, <3>1, <3>2, <3>4
  <2> QED
    BY <2>3, <2>4
<1>6. Aggregated' \subseteq Hours
  BY DEF Aggregated
<1> QED
  BY <1>2, <1>3, <1>4, <1>5, <1>6 DEF Tracked

LEMMA TrackedBelow ==
    ASSUME IndOK, GapInv, OrderParts, NEW h \in Tracked
    PROVE  h \in Hours /\ h <= watermark /\ watermark \in Hours
<1>1. watermark # NoWatermark
  BY DEF Tracked, Covered, OrderParts
<1>2. CASE h \in Covered
  BY <1>1, <1>2, ConstantsAssumption DEF Covered, GapInv, OriginOK, IndOK, TypeOK, Hours, NoWatermark
<1>3. CASE h \in Aggregated
  BY <1>1, <1>3 DEF Aggregated, OrderParts, IndOK, TypeOK
<1> QED
  BY <1>2, <1>3 DEF Tracked

\* A step that touches neither table: each stale hour is still owed.
LEMMA KeepFresh ==
    ASSUME FreshParts, UNCHANGED <<raw, hourly, watermark, origin>>,
           NEW d \in Drainers, SoleDrainer, Holding(d)',
           \A h \in Tracked : Owes(d, h) => Owes(d, h)'
    PROVE  FreshParts'
<1>1. Tracked' = Tracked /\ \A h \in Tracked : Stale(h)' = Stale(h)
  BY DEF Tracked, Covered, Aggregated, Stale, NoHour
<1>2. \A e \in Drainers : e = d
  BY DEF SoleDrainer
<1>3. \A h \in Tracked : Stale(h) => Owes(d, h)
  BY <1>2 DEF FreshParts
<1>4. \A e \in Drainers : Holding(e)'
  BY <1>2
<1> QED
  BY <1>1, <1>3, <1>4 DEF FreshParts

LEMMA StepFreshInv ==
    IndOK /\ GapInv /\ OrderInv /\ FreshInv /\ [Next]_vars => FreshInv'
<1> SUFFICES ASSUME IndOK, GapInv, OrderInv, FreshInv, [Next]_vars, Quiet'
             PROVE  FreshParts'
  BY DEF FreshInv
<1> USE ConstantsAssumption
<1>a. /\ SoleDrainer /\ Lag + Span <= 1
      /\ faults' = 0 /\ opRuns' = 0 /\ official' = 0
  BY DEF Quiet, Orderly, SoleDrainer
<1>b. /\ ~RollupAllSelect /\ ~WriteStations
      /\ \A d \in Drainers : ~TxFails(d) /\ ~Crash(d)
  BY <1>a DEF RollupAllSelect, WriteStations, TxFails, Crash, IndOK, TypeOK
<1>c. faults = 0 /\ opRuns = 0 /\ official = 0
  BY <1>a, <1>b
     DEF Next, Cycle, Fetch, StartRollup, ReadWatermark, SelectRows, CommitDrain, FinishDrain,
         CommitReconcile, EndCycle, WriteChunk, RollupAllCommit, Tick, DropRaw, vars, others
<1>d. OrderParts /\ FreshParts
  BY <1>a, <1>c DEF OrderInv, Alone, FreshInv, Quiet, Orderly
<1>e. ~RollupAllCommit
  BY <1>d DEF RollupAllCommit, OrderParts
<1>f. \A h \in Tracked : h \in Hours /\ h <= watermark /\ watermark \in Hours
  BY <1>d, TrackedBelow
<1>g. /\ now \in Hours /\ \A d \in Drainers : at[d] \in Hours /\ at[d] <= now
      /\ \A d \in Drainers : bucket[d] \in Int /\ InOrder(d) /\ Holding(d)
  BY <1>d DEF IndOK, TypeOK, PhaseOK, Hours, OrderParts, FreshParts
<1>1. ASSUME NEW d \in Drainers, Fetch(d) PROVE FreshParts'
  <2>1. pc' = [pc EXCEPT ![d] = "ingest"] /\ at' = [at EXCEPT ![d] = now] /\ now' = now
    BY <1>1 DEF Fetch, Goto
  <2>2. Holding(d)'
    BY <1>g, <2>1 DEF Holding, IndOK, TypeOK, Hours
  <2>3. \A h \in Tracked : ~Owes(d, h)
    BY <1>1 DEF Fetch, Owes
  <2> QED
    BY <1>1, <1>a, <1>d, <2>2, <2>3, KeepFresh DEF Fetch, tables, history
<1>2. ASSUME NEW d \in Drainers, StartRollup(d) PROVE FreshParts'
  <2>1. pc' = [pc EXCEPT ![d] = "read"] /\ at' = [at EXCEPT ![d] = now] /\ pc[d] = "ingest"
    BY <1>2 DEF StartRollup, Goto
  <2>2. pc'[d] = "read" /\ at'[d] = now /\ now - at[d] <= Span
    BY <1>g, <2>1 DEF Holding, IndOK, TypeOK
  <2>3. \A h \in Tracked : Owes(d, h) => Owes(d, h)'
    BY <1>a, <1>f, <1>g, <2>1, <2>2 DEF Owes, Hours
  <2>4. Holding(d)'
    BY <2>2 DEF Holding
  <2> QED
    BY <1>2, <1>a, <1>d, <2>3, <2>4, KeepFresh DEF StartRollup, tables, history
<1>3. ASSUME NEW d \in Drainers, ReadWatermark(d) PROVE FreshParts'
  <2>1. /\ pc[d] = "read" /\ pc'[d] = "drain" /\ at' = at
        /\ bucket'[d] = StartBucket(watermark, at[d])
    BY <1>3 DEF ReadWatermark, Goto, IndOK, TypeOK
  <2>2. bucket'[d] <= at[d]
    BY <1>g, <2>1 DEF StartBucket, IndOK, TypeOK, Hours, NoWatermark
  <2>3. \A h \in Tracked : Owes(d, h) => Owes(d, h)'
    BY <1>f, <1>g, <2>1, <2>2 DEF Owes, InOrder, Hours
  <2>4. Holding(d)'
    BY <2>1 DEF Holding
  <2> QED
    BY <1>3, <1>a, <1>d, <2>3, <2>4, KeepFresh DEF ReadWatermark, tables, history
<1>4. ASSUME NEW d \in Drainers, SelectRows(d) PROVE FreshParts'
  <2>1. /\ \/ pc[d] = "drain" /\ pc'[d] = "drainTx"
           \/ pc[d] = "reconcile" /\ pc'[d] = "reconcileTx"
        /\ rows'[d] = raw[bucket[d]]
        /\ UNCHANGED <<at, bucket, raw>>
    BY <1>4 DEF SelectRows, Goto, IndOK, TypeOK, tables
  <2>2. Holding(d)'
    BY <2>1 DEF Holding
  <2>3. \A h \in Tracked : Owes(d, h) => Owes(d, h)'
    BY <2>1 DEF Owes
  <2> QED
    BY <1>4, <1>a, <1>d, <2>2, <2>3, KeepFresh DEF SelectRows, tables, history
<1>5. ASSUME NEW d \in Drainers, CommitDrain(d) \/ CommitReconcile(d) PROVE FreshParts'
  <2>1. /\ bucket[d] \in Hours /\ bucket[d] <= at[d]
        /\ CommitBucket(d) /\ pc[d] \in {"drainTx", "reconcileTx"}
        /\ raw' = raw /\ at' = at
    <3>1. CommitBucket(d) /\ pc[d] \in {"drainTx", "reconcileTx"} /\ raw' = raw /\ at' = at
      BY <1>5 DEF CommitDrain, CommitReconcile
    <3> QED
      BY <1>d, <3>1, CommitOrder
  <2>2. PICK b \in Hours : b = bucket[d]
    BY <2>1
  <2>3. /\ ~Stale(b)' /\ \A h \in Hours : h # b => Stale(h)' = Stale(h)
        /\ Tracked' \subseteq Tracked \cup {b} /\ Tracked' \subseteq Hours
    BY <1>d, <2>1, <2>2, CommitFresh
  <2>4. \A e \in Drainers : e = d
    BY <1>a DEF SoleDrainer
  <2>5. \/ /\ pc[d] = "drainTx" /\ pc'[d] = "drain" /\ bucket'[d] = b + 1
        \/ /\ pc[d] = "reconcileTx" /\ pc'[d] = "done" /\ b = at[d] - 1
    BY <1>5, <2>2 DEF CommitDrain, CommitReconcile, Goto, IndOK, TypeOK, PhaseOK
  <2>6. ASSUME NEW h \in Tracked', Stale(h)' PROVE Owes(d, h)'
    <3>1. h # b /\ h \in Tracked /\ Stale(h) /\ h \in Hours
      BY <2>3, <2>6
    <3>2. Owes(d, h)
      BY <1>d, <2>4, <3>1 DEF FreshParts
    <3> QED
      BY <1>g, <2>1, <2>2, <2>5, <3>1, <3>2 DEF Owes, Hours
  <2>7. \A e \in Drainers : Holding(e)'
    BY <2>4, <2>5 DEF Holding
  <2> QED
    BY <2>6, <2>7 DEF FreshParts
<1>6. ASSUME NEW d \in Drainers, FinishDrain(d) PROVE FreshParts'
  <2>1. /\ pc[d] = "drain" /\ at' = at /\ ~LoopOpen(d)
        /\ UNCHANGED <<raw, hourly, watermark, origin>>
        /\ \/ pc' = [pc EXCEPT ![d] = "reconcile"]
           \/ /\ watermark = NoWatermark \/ watermark < at[d] - 1
              /\ pc' = [pc EXCEPT ![d] = "done"]
    BY <1>6, Zenon DEF FinishDrain, Goto, tables
  <2>2. ASSUME NEW h \in Tracked, Owes(d, h) PROVE h = at[d] - 1
    <3>1. h = at[d] - 1 \/ (h = at[d] /\ bucket[d] <= at[d])
      BY <2>1, <2>2 DEF Owes
    <3>2. ASSUME h = at[d], bucket[d] <= at[d] PROVE FALSE
      <4>1. processed[d] \in Nat /\ MaxBuckets <= processed[d]
        BY <2>1, <3>2 DEF LoopOpen, IndOK, TypeOK
      <4>2. watermark < bucket[d]
        BY <1>g, <2>1, <4>1 DEF InOrder
      <4> QED
        BY <1>f, <1>g, <3>2, <4>2 DEF Hours
    <3> QED
      BY <3>1, <3>2
  <2>3. pc'[d] = "reconcile" \/ (pc'[d] = "done" /\ (watermark = NoWatermark \/ watermark < at[d] - 1))
    BY <2>1 DEF IndOK, TypeOK
  <2>4. \A h \in Tracked : Owes(d, h) => Owes(d, h)'
    BY <1>f, <1>g, <2>1, <2>2, <2>3 DEF Owes, Hours, NoWatermark
  <2>5. Holding(d)'
    BY <2>3 DEF Holding
  <2> QED
    BY <1>a, <1>d, <2>1, <2>4, <2>5, KeepFresh
<1>7. ASSUME NEW d \in Drainers, EndCycle(d) PROVE FreshParts'
  <2>1. pc[d] = "done" /\ pc'[d] = "idle"
    BY <1>7 DEF EndCycle, Goto, IndOK, TypeOK
  <2>2. Holding(d)' /\ \A h \in Tracked : ~Owes(d, h)
    BY <2>1 DEF Holding, Owes
  <2> QED
    BY <1>7, <1>a, <1>d, <2>2, KeepFresh DEF EndCycle, tables, history
<1>8. ASSUME NEW d \in Drainers, WriteChunk(d) PROVE FreshParts'
  <2>1. PICK k \in Hours, s \in Series, v \in Versions :
           /\ k >= at[d] - Lag /\ k <= at[d]
           /\ raw' = [raw EXCEPT ![k] = [@ EXCEPT ![s] = v]]
    BY <1>8 DEF WriteChunk
  <2>2. /\ pc[d] = "ingest" /\ UNCHANGED <<now, hourly, watermark, origin, locals>>
    BY <1>8 DEF WriteChunk, history
  <2>3. Tracked' = Tracked
    BY <2>2 DEF Tracked, Covered, Aggregated, NoHour
  <2>4. \A h \in Hours : h # k => Stale(h)' = Stale(h)
    BY <2>1, <2>2 DEF Stale, IndOK, TypeOK
  <2>5. \A e \in Drainers : e = d
    BY <1>a DEF SoleDrainer
  <2>6. \A e \in Drainers : Holding(e)'
    BY <1>g, <2>2, <2>5 DEF Holding, locals
  <2>7. ASSUME NEW h \in Tracked', Stale(h)' PROVE Owes(d, h)'
    <3>1. CASE h = k
      BY <2>1, <2>2, <3>1 DEF Owes, locals
    <3>2. CASE h # k
      <4>1. h \in Tracked /\ Stale(h)
        BY <1>f, <2>3, <2>4, <2>7, <3>2
      <4>2. Owes(d, h)
        BY <1>d, <2>5, <4>1 DEF FreshParts
      <4> QED
        BY <2>2, <4>2 DEF Owes, locals
    <3> QED
      BY <3>1, <3>2
  <2> QED
    BY <2>6, <2>7 DEF FreshParts
<1>9. CASE Tick
  <2>1. /\ now' = now + 1 /\ UNCHANGED <<raw, hourly, watermark, origin, locals>>
        /\ \A d \in Drainers : pc[d] = "ingest" => now + 1 - at[d] <= Span
    BY <1>9 DEF Tick, tables, history
  <2>2. ASSUME NEW d \in Drainers PROVE Holding(d)'
    <3>1. now' - at'[d] = now + 1 - at[d]
      BY <1>g, <2>1 DEF locals, Hours
    <3>2. raw'[bucket'[d]] = raw[bucket[d]] /\ rows'[d] = rows[d] /\ pc'[d] = pc[d]
      BY <2>1 DEF locals
    <3> QED
      BY <1>g, <2>1, <3>1, <3>2 DEF Holding, NoHour
  <2>3. /\ Tracked' = Tracked /\ \A h \in Tracked : Stale(h)' = Stale(h)
        /\ \A d \in Drainers, h \in Tracked : Owes(d, h)' = Owes(d, h)
    BY <2>1 DEF Tracked, Covered, Aggregated, Stale, NoHour, Owes, locals
  <2> QED
    BY <1>d, <2>2, <2>3 DEF FreshParts
<1>10. ASSUME NEW k \in Hours, DropRaw(k) PROVE FreshParts'
  <2>1. /\ raw' = [raw EXCEPT ![k] = NoHour]
        /\ UNCHANGED <<now, hourly, watermark, origin, locals>>
    BY <1>10 DEF DropRaw
  <2>2. raw'[k] = NoHour /\ \A h \in Hours : h # k => raw'[h] = raw[h]
    BY <2>1 DEF IndOK, TypeOK
  <2>3. \A h \in Hours : Stale(h)' => Stale(h)
    BY <2>1, <2>2, NoHourFreshNext DEF Stale
  <2>4. Tracked' = Tracked /\ \A d \in Drainers, h \in Tracked : Owes(d, h)' = Owes(d, h)
    BY <2>1 DEF Tracked, Covered, Aggregated, NoHour, Owes, locals
  <2>5. ASSUME NEW d \in Drainers PROVE Holding(d)'
    <3>1. pc[d] \in {"drainTx", "reconcileTx"} => bucket[d] \in Hours
      BY DEF IndOK, TypeOK, PhaseOK, Hours
    <3> QED
      BY <1>g, <2>1, <2>2, <3>1 DEF Holding, locals, NoHour
  <2> QED
    BY <1>d, <1>f, <2>3, <2>4, <2>5 DEF FreshParts
<1>11. CASE UNCHANGED vars
  <2>1. UNCHANGED <<now, raw, hourly, watermark, origin, locals>>
    BY <1>11 DEF vars, tables, history
  <2>2. /\ Tracked' = Tracked /\ \A h \in Tracked : Stale(h)' = Stale(h)
        /\ \A d \in Drainers, h \in Tracked : Owes(d, h)' = Owes(d, h)
    BY <2>1 DEF Tracked, Covered, Aggregated, Stale, NoHour, Owes, locals
  <2>3. \A d \in Drainers : Holding(d)'
    BY <1>g, <2>1 DEF Holding, locals, NoHour
  <2> QED
    BY <1>d, <2>2, <2>3 DEF FreshParts
<1> QED
  BY <1>1, <1>2, <1>3, <1>4, <1>5, <1>6, <1>7, <1>8, <1>9, <1>10, <1>11, <1>b, <1>e DEF Next, Cycle

\* Between two cycles nothing is owed.
LEMMA FreshIsCovered == FreshInv => CoveredHoursFresh
<1> SUFFICES ASSUME FreshInv, Orderly, official = 0, Quiescent, NEW h \in Covered
             PROVE  ~Stale(h)
  BY DEF CoveredHoursFresh
<1>1. Stale(h) => \E d \in Drainers : Owes(d, h)
  BY DEF FreshInv, FreshParts, Quiet, Tracked
<1> QED
  BY <1>1 DEF Quiescent, Owes

LEMMA AlwaysOrder == Spec => [](IndOK /\ GapInv /\ OrderInv)
<1>1. IndOK /\ GapInv /\ [Next]_vars => GapInv'
  BY StepGapInv
<1>2. IndOK /\ OrderInv /\ [Next]_vars => OrderInv'
  BY StepOrderInv
<1> QED
  BY AlwaysIndOK, InitGapInv, InitOrderInv, <1>1, <1>2, PTL DEF Spec

(* Between two cycles of an orderly life the aggregate of every covered     *)
(* hour is that of its raw rows, whatever the cap on a call, however many   *)
(* hours the process was idle or behind, and whatever retention dropped     *)
(* meanwhile (RollupBacklog's re-roll of the current hour and its           *)
(* reconcile of the previous one).                                          *)
THEOREM CoveredAlwaysFresh == Spec => []CoveredHoursFresh
<1>1. IndOK /\ GapInv /\ OrderInv /\ FreshInv /\ [Next]_vars => FreshInv'
  BY StepFreshInv
<1> QED
  BY AlwaysOrder, InitFreshInv, FreshIsCovered, <1>1, PTL DEF Spec

-----------------------------------------------------------------------------
(* The rings of frames, over the rollup. *)

LEMMA StepIsRollup == [FramesNext]_allVars => [Next]_vars \/ Restart
<1> SUFFICES ASSUME FramesNext PROVE [Next]_vars \/ Restart
  BY DEF allVars
<1>1. ASSUME Build PROVE UNCHANGED vars
  BY <1>1 DEF Build
<1>2. ASSUME Published PROVE UNCHANGED vars \/ EndCycle(Server)
  BY <1>2 DEF Published
<1>3. ASSUME EndCycle(Server) \/ Crash(Server) PROVE Next
  BY <1>3, TimelapseAssumption DEF Next, Cycle
<1>4. ASSUME Elsewhere PROVE Next
  <2>1. ASSUME NEW d \in Drainers, MidCycle(d) \/ EndCycle(d) \/ Crash(d) PROVE Next
    BY <2>1 DEF Next, Cycle, MidCycle
  <2> QED
    BY <1>4, <2>1, TimelapseAssumption DEF Elsewhere, Next
<1> QED
  BY <1>1, <1>2, <1>3, <1>4 DEF FramesNext, Swap, KeepServed, AbandonCycle

RollupInv == IndOK /\ GapInv /\ OrderInv /\ FreshInv /\ (SoleDrainer => AlertInv)

LEMMA RestartRollup == RollupInv /\ Restart => RollupInv'
<1> SUFFICES ASSUME RollupInv, Restart PROVE RollupInv'
  OBVIOUS
<1>1. /\ pc' = [pc EXCEPT ![Server] = "idle"] /\ faults' = faults + 1 /\ faults < MaxFaults
      /\ UNCHANGED <<now, raw, hourly, watermark, at, seen, bucket, processed, rows,
                     opRows, opRuns, official, origin, rolled, alerted, lastCheck, lost>>
  BY DEF Restart, Goto, tables, others, history
<1>2. \A d \in Drainers : pc'[d] = "idle" \/ pc'[d] = pc[d]
  BY <1>1 DEF RollupInv, IndOK, TypeOK
<1>3. IndOK'
  <2>1. TypeOK'
    <3>1. faults' \in 0 .. MaxFaults
      BY <1>1, ConstantsAssumption DEF RollupInv, IndOK, TypeOK
    <3>2. pc' \in [Drainers -> Phases]
      BY <1>1 DEF RollupInv, IndOK, TypeOK, Phases
    <3> QED
      BY <1>1, <3>1, <3>2, Zenon DEF RollupInv, IndOK, TypeOK
  <2>2. PhaseOK'
    BY <1>1, <1>2 DEF RollupInv, IndOK, PhaseOK
  <2> QED
    BY <1>1, <2>1, <2>2 DEF RollupInv, IndOK
<1>4. GapInv'
  BY <1>1, <1>2 DEF RollupInv, GapInv, GapFree, Covered, CursorOK, Cursor, OriginOK
<1>5. SoleDrainer => AlertInv'
  BY <1>1, <1>2 DEF RollupInv, AlertInv, StartsAtClock, ChecksInTime, BacklogAnnounced,
                    AlertBeforeLoss
<1>6. OrderInv'
  BY <1>1, <1>2 DEF RollupInv, OrderInv, Alone, OrderParts, InOrder, Aggregated, NoHour
<1>7. FreshInv'
  BY <1>1 DEF RollupInv, IndOK, TypeOK, FreshInv, Quiet, Orderly
<1> QED
  BY <1>3, <1>4, <1>5, <1>6, <1>7 DEF RollupInv, SoleDrainer

LEMMA StepRollupInv == RollupInv /\ [FramesNext]_allVars => RollupInv'
<1> SUFFICES ASSUME RollupInv, [Next]_vars PROVE RollupInv'
  BY StepIsRollup, RestartRollup
<1>1. SoleDrainer => AlertInv'
  BY StepAlertInv DEF RollupInv
<1>2. SoleDrainer' = SoleDrainer
  BY DEF SoleDrainer
<1> QED
  BY <1>1, <1>2, StepIndOK, StepGapInv, StepOrderInv, StepFreshInv DEF RollupInv

LEMMA InitRollupInv == FramesInit => RollupInv
  BY InitIndOK, InitGapInv, InitOrderInv, InitFreshInv, InitAlertInv DEF FramesInit, RollupInv

(* What is proved of the rollup holds beside a server that publishes, is    *)
(* restarted and starts over from an empty holder (runServe).               *)
THEOREM RollupStillHolds == FramesSpec => [](GapFree /\ CoveredHoursFresh /\ AlertBeforeLoss)
<1>1. RollupInv => GapFree /\ CoveredHoursFresh /\ AlertBeforeLoss
  <2> SUFFICES ASSUME RollupInv PROVE GapFree /\ CoveredHoursFresh /\ AlertBeforeLoss
    OBVIOUS
  <2>1. CoveredHoursFresh
    BY FreshIsCovered DEF RollupInv
  <2>2. AlertBeforeLoss
    BY DEF RollupInv, AlertInv, AlertBeforeLoss
  <2> QED
    BY <2>1, <2>2 DEF RollupInv, GapInv
<1> QED
  BY InitRollupInv, StepRollupInv, <1>1, PTL DEF FramesSpec

-----------------------------------------------------------------------------
(* What extendRing makes of a ring. *)

RingOK(ring) == DOMAIN ring \in SUBSET Hours /\ \A h \in DOMAIN ring : ring[h] \in Rows

LEMMA RingFits == ASSUME NEW ring \in Rings PROVE RingOK(ring)
  BY DEF Rings, RingOK

LEMMA RingBuilt ==
    ASSUME NEW H \in SUBSET Hours, NEW ring \in [H -> Rows] PROVE ring \in Rings
  BY DEF Rings

LEMMA CarriedFits == ASSUME FramesTypeOK PROVE RingOK(Carried)
<1>1. CASE served = NoSnapshot
  <2>1. Carried = <<>> /\ DOMAIN Carried = {}
    BY <1>1 DEF Carried
  <2> QED
    BY <2>1 DEF RingOK
<1>2. CASE served # NoSnapshot
  <2>1. served.ring \in Rings /\ Carried = served.ring
    BY <1>2 DEF FramesTypeOK, Snapshots, Carried
  <2> QED
    BY <2>1, RingFits
<1> QED
  BY <1>1, <1>2

\* A set of hours has a last one.
LEMMA LastHour ==
    ASSUME NEW T \in SUBSET Hours, T # {}
    PROVE  \E x \in T : \A h \in T : h <= x
<1>1. \A h \in Hours : h \in Nat
  BY ConstantsAssumption DEF Hours
<1> DEFINE Later(h) == {k \in Hours : k > h}
           F == {Later(h) : h \in T}
<1>2. IsFiniteSet(Hours)
  BY FS_Interval, ConstantsAssumption DEF Hours
<1>3. IsWellFoundedOn(StrictSubsetOrdering(Hours), SUBSET Hours)
  BY <1>2, FS_StrictSubsetOrderingWellFounded, FS_FiniteSubsetsOfFinite
<1>4. \E X \in F : \A Y \in F : ~ (<<Y, X>> \in StrictSubsetOrdering(Hours))
  <2>1. F \subseteq SUBSET Hours /\ F # {}
    OBVIOUS
  <2> HIDE DEF F
  <2> QED
    BY <1>3, <2>1, WFMin
<1>5. PICK x \in T : \A h \in T : ~ (<<Later(h), Later(x)>> \in StrictSubsetOrdering(Hours))
  BY <1>4
<1>6. ASSUME NEW h \in T, h > x PROVE FALSE
  <2>1. Later(h) \subseteq Later(x) /\ h \in Later(x) /\ h \notin Later(h)
    BY <1>1, <1>6
  <2>2. <<Later(h), Later(x)>> \in StrictSubsetOrdering(Hours)
    BY <2>1 DEF StrictSubsetOrdering
  <2> QED
    BY <1>5, <2>2
<1> QED
  BY <1>1, <1>5, <1>6

Kept(carried, current) == {h \in DOMAIN carried : h >= current - RingHours}
Read(carried, current) == {h \in Hours : /\ h >= Since(Kept(carried, current), current)
                                         /\ h < Until(current)
                                         /\ hourly[h] # NoHour}

LEMMA ExtendIs ==
    ASSUME NEW carried, NEW current
    PROVE  Extend(carried, current)
           = [h \in Kept(carried, current) \cup Read(carried, current) |->
                IF h \in Kept(carried, current) THEN carried[h] ELSE hourly[h]]
  BY DEF Extend, Kept, Read

LEMMA ExtendFacts ==
    ASSUME IndOK, NEW carried, RingOK(carried), NEW current \in Hours,
           NEW ring, ring = Extend(carried, current)
    PROVE  /\ ring \in Rings
           /\ \A h \in DOMAIN ring :
                 \/ h \in DOMAIN carried /\ h >= current - RingHours /\ ring[h] = carried[h]
                 \/ h \in Aggregated /\ h < current /\ ring[h] = hourly[h]
           /\ \A h \in DOMAIN carried : h >= current - RingHours => h \in DOMAIN ring
           /\ \A k \in Aggregated :
                 k >= current - RingHours /\ k < current
                   => k \in DOMAIN ring \/ \E m \in DOMAIN carried : k < m
<1> DEFINE K == Kept(carried, current)
           R == Read(carried, current)
<1>1. ring = [h \in K \cup R |-> IF h \in K THEN carried[h] ELSE hourly[h]]
  BY ExtendIs
<1>2. /\ K \in SUBSET Hours /\ K \subseteq DOMAIN carried
      /\ \A h \in DOMAIN carried : h \in K <=> h >= current - RingHours
      /\ \A h \in K : carried[h] \in Rows
  BY DEF Kept, RingOK
<1>3. /\ R \in SUBSET Hours
      /\ \A h \in R : h \in Aggregated /\ h < current /\ hourly[h] \in Rows
      /\ \A h \in Aggregated : h < current /\ h >= Since(K, current) => h \in R
  BY DEF Read, Until, Aggregated, IndOK, TypeOK, Rows
<1> HIDE DEF K, R
<1>4. ring \in Rings
  <2>1. ring \in [K \cup R -> Rows]
    BY <1>1, <1>2, <1>3
  <2> QED
    BY <1>2, <1>3, <2>1, RingBuilt
<1>5. ASSUME NEW k \in Aggregated, k >= current - RingHours, k < current
      PROVE  k \in DOMAIN ring \/ \E m \in DOMAIN carried : k < m
  <2>1. CASE k >= Since(K, current)
    BY <1>1, <1>3, <1>5, <2>1
  <2>2. CASE ~(k >= Since(K, current))
    <3>1. K # {}
      BY <1>5, <2>2 DEF Since
    <3>2. PICK m \in K : \A h \in K : h <= m
      BY <1>2, <3>1, LastHour
    <3> DEFINE x == CHOOSE h \in K : \A j \in K : j <= h
    <3>3. x \in K /\ \A j \in K : j <= x
      BY <3>2
    <3>4. Since(K, current) = 1 + x
      BY <3>1 DEF Since
    <3> HIDE DEF x
    <3>5. x \in Int /\ k \in Int
      <4>1. x \in Hours /\ k \in Hours
        BY <1>2, <3>3 DEF Aggregated
      <4> QED
        BY <4>1 DEF Hours
    <3>6. k <= x
      BY <2>2, <3>4, <3>5
    <3>7. CASE k = x
      BY <1>1, <3>3, <3>7
    <3>8. CASE k < x
      BY <1>2, <3>3, <3>8
    <3> QED
      BY <3>5, <3>6, <3>7, <3>8
  <2> QED
    BY <2>1, <2>2
<1> QED
  BY <1>1, <1>2, <1>3, <1>4, <1>5

-----------------------------------------------------------------------------
(* The server's life around its cycles. *)

LifeOK ==
    /\ building # NoSnapshot => life = "starting" \/ pc[Server] = "done"
    /\ life = "starting" => pc[Server] = "idle"

LEMMA OthersKeepServer ==
    ASSUME IndOK, NEW d \in Drainers \ {Server}, MidCycle(d) \/ EndCycle(d) \/ Crash(d)
    PROVE  pc'[Server] = pc[Server]
<1>1. \E phase \in Phases : pc' = [pc EXCEPT ![d] = phase]
  <2>1. CASE WriteChunk(d)
    <3>1. pc' = pc /\ pc = [pc EXCEPT ![d] = pc[d]] /\ pc[d] \in Phases
      BY <2>1 DEF WriteChunk, locals, IndOK, TypeOK
    <3> QED
      BY <3>1
  <2>2. CASE ~WriteChunk(d)
    <3>1. \/ Goto(d, "ingest") \/ Goto(d, "read") \/ Goto(d, "drain") \/ Goto(d, "drainTx")
          \/ Goto(d, "reconcile") \/ Goto(d, "reconcileTx") \/ Goto(d, "done")
          \/ Goto(d, "idle")
      BY <2>2, Zenon DEF MidCycle, Fetch, StartRollup, ReadWatermark, SelectRows, CommitDrain,
             FinishDrain, CommitReconcile, TxFails, EndCycle, Crash
    <3> QED
      BY <3>1 DEF Goto, Phases
  <2> QED
    BY <2>1, <2>2
<1> QED
  BY <1>1, TimelapseAssumption DEF IndOK, TypeOK

\* What a step does to the snapshots, for any number of drainers.
LEMMA StepLife ==
    ASSUME RollupInv, FramesTypeOK, LifeOK, [FramesNext]_allVars
    PROVE  FramesTypeOK' /\ LifeOK'
<1> USE TimelapseAssumption
<1>0. TypeOK' /\ pc[Server] \in Phases
  BY StepRollupInv DEF RollupInv, IndOK, TypeOK
<1>1. CASE Build
  <2>1. Extend(Carried, now) \in Rings /\ now \in Hours
    BY CarriedFits, ExtendFacts DEF RollupInv, IndOK, TypeOK
  <2>2. building' \in Snapshots
    BY <1>1, <2>1 DEF Build, Snapshots
  <2>3. UNCHANGED <<life, served, pc>> /\ (life = "starting" \/ pc[Server] = "done")
    BY <1>1 DEF Build, vars, locals
  <2> QED
    BY <1>0, <2>2, <2>3 DEF FramesTypeOK, LifeOK
<1>2. CASE Swap \/ KeepServed
  <2>1. /\ building' = NoSnapshot /\ served' \in {served, building}
        /\ life' = "polling"
    BY <1>2 DEF Swap, KeepServed, Published
  <2> QED
    BY <1>0, <2>1 DEF FramesTypeOK, LifeOK
<1>3. CASE AbandonCycle \/ Restart
  <2>1. /\ building' = NoSnapshot /\ served' \in {served, NoSnapshot}
        /\ life' \in {life, "starting"} /\ pc' = [pc EXCEPT ![Server] = "idle"]
    BY <1>3 DEF AbandonCycle, Restart, Crash, Goto
  <2>2. pc'[Server] = "idle"
    BY <2>1 DEF RollupInv, IndOK, TypeOK
  <2> QED
    BY <1>0, <2>1, <2>2 DEF FramesTypeOK, LifeOK
<1>4. CASE Elsewhere /\ UNCHANGED frameVars
  <2>1. ASSUME life = "polling", MidCycle(Server) PROVE LifeOK'
    <3>1. pc[Server] # "done"
      BY <2>1 DEF MidCycle, Fetch, WriteChunk, StartRollup, ReadWatermark, SelectRows,
                  CommitDrain, FinishDrain, CommitReconcile, TxFails
    <3> QED
      BY <1>4, <2>1, <3>1 DEF LifeOK, frameVars
  <2>2. ASSUME pc'[Server] = pc[Server] PROVE LifeOK'
    BY <1>4, <2>2 DEF LifeOK, frameVars
  <2>3. ASSUME NEW d \in Drainers \ {Server}, MidCycle(d) \/ EndCycle(d) \/ Crash(d)
        PROVE  LifeOK'
    BY <2>2, <2>3, OthersKeepServer DEF RollupInv
  <2>4. ASSUME \/ WriteStations \/ RollupAllSelect \/ RollupAllCommit \/ Tick
               \/ \E h \in Hours : DropRaw(h)
        PROVE  LifeOK'
    BY <2>2, <2>4 DEF WriteStations, RollupAllSelect, RollupAllCommit, Tick, DropRaw, locals
  <2>5. LifeOK'
    BY <1>4, <2>1, <2>3, <2>4 DEF Elsewhere
  <2> QED
    BY <1>0, <1>4, <2>5 DEF FramesTypeOK, frameVars
<1>5. CASE UNCHANGED allVars
  BY <1>0, <1>5 DEF allVars, frameVars, vars, locals, FramesTypeOK, LifeOK
<1> QED
  BY <1>1, <1>2, <1>3, <1>4, <1>5 DEF FramesNext

LEMMA InitLife == FramesInit => FramesTypeOK /\ LifeOK
<1> SUFFICES ASSUME FramesInit PROVE FramesTypeOK /\ LifeOK
  OBVIOUS
<1>1. TypeOK
  BY InitRollupInv DEF RollupInv, IndOK
<1> QED
  BY <1>1, TimelapseAssumption DEF FramesInit, Init, FramesTypeOK, LifeOK

-----------------------------------------------------------------------------
(* Which hours a ring has. *)

Standing == {served, building} \ {NoSnapshot}

\* A ring's hours are past hours with an aggregate, and between the oldest hour
\* of its span and the last of them it has every hour that has one.
Whole(snap) ==
    /\ snap.end <= now
    /\ \A h \in DOMAIN snap.ring : h \in Aggregated /\ h < snap.end
    /\ \A h \in DOMAIN snap.ring, k \in Aggregated :
          k < h /\ k >= snap.end - RingHours => k \in DOMAIN snap.ring

RingParts ==
    /\ \A snap \in Standing : Whole(snap)
    /\ served # NoSnapshot /\ pc[Server] # "idle" => served.end <= at[Server]

RingInv == Alone => RingParts

LEMMA InitRingInv == FramesInit => RingInv
  BY DEF FramesInit, RingInv, RingParts, Standing

LEMMA SnapFacts ==
    ASSUME FramesTypeOK, NEW snap \in Standing
    PROVE  snap.end \in Hours /\ snap.ring \in Rings /\ RingOK(snap.ring)
<1>1. snap.end \in Hours /\ snap.ring \in Rings
  BY DEF FramesTypeOK, Standing, Snapshots
<1> QED
  BY <1>1, RingFits

\* With one drainer, a step is one of these.
LEMMA SoleStep ==
    ASSUME IndOK, SoleDrainer, [FramesNext]_allVars
    PROVE  \/ Build
           \/ Swap
           \/ KeepServed
           \/ AbandonCycle \/ Restart
           \/ life = "polling" /\ MidCycle(Server) /\ UNCHANGED frameVars
           \/ /\ \/ WriteStations \/ RollupAllSelect \/ RollupAllCommit \/ Tick
                 \/ \E h \in Hours : DropRaw(h)
                 \/ UNCHANGED vars
              /\ UNCHANGED frameVars
  BY TimelapseAssumption DEF FramesNext, Elsewhere, SoleDrainer, allVars

LEMMA AloneBefore ==
    ASSUME IndOK, [FramesNext]_allVars, Alone'
    PROVE  Alone /\ ~RollupAllSelect
<1>1. SoleDrainer /\ opRuns' = 0
  BY DEF Alone, SoleDrainer
<1>2. ~RollupAllSelect
  BY <1>1 DEF RollupAllSelect, IndOK, TypeOK
<1>3. CASE Restart
  BY <1>1, <1>2, <1>3 DEF Restart, others, Alone
<1>4. CASE [Next]_vars
  <2>1. opRuns' = opRuns
    BY <1>2, <1>4 DEF Next, Cycle, Fetch, StartRollup, ReadWatermark, SelectRows, CommitDrain,
       FinishDrain, CommitReconcile, EndCycle, WriteChunk, TxFails, Crash, WriteStations,
       RollupAllCommit, Tick, DropRaw, vars, others
  <2> QED
    BY <1>1, <1>2, <2>1 DEF Alone
<1> QED
  BY <1>3, <1>4, StepIsRollup

LEMMA KeepWhole ==
    ASSUME NEW snap, Whole(snap), snap.end \in Int, now \in Int, now' \in Int, now' >= now,
           hourly' = hourly
    PROVE  Whole(snap)'
  BY DEF Whole, Aggregated, NoHour

\* The hour a cycle commits lies above every hour of the ring, or is one of them.
LEMMA CommitAboveRing ==
    ASSUME IndOK, OrderParts, FramesTypeOK, RingParts, served # NoSnapshot,
           pc[Server] \in {"drainTx", "reconcileTx"}, NEW h \in DOMAIN served.ring
    PROVE  /\ h <= bucket[Server] /\ h \in Int /\ bucket[Server] \in Int
           /\ pc[Server] = "drainTx" => h # bucket[Server]
<1> USE TimelapseAssumption
<1>1. Whole(served) /\ served.end \in Hours /\ RingOK(served.ring)
  BY SnapFacts DEF RingParts, Standing
<1>2. h \in Aggregated /\ h < served.end /\ served.end <= at[Server]
  BY <1>1 DEF Whole, RingParts
<1>3. h <= watermark /\ InOrder(Server)
  BY <1>2 DEF OrderParts
<1>4. /\ h \in Int /\ watermark \in Int /\ at[Server] \in Int /\ bucket[Server] \in Int
      /\ served.end \in Int
      /\ pc[Server] = "reconcileTx" => bucket[Server] = at[Server] - 1
  BY <1>1, <1>2 DEF IndOK, TypeOK, PhaseOK, Hours, NoWatermark, Aggregated
<1> QED
  BY <1>2, <1>3, <1>4 DEF InOrder

LEMMA StepRing ==
    ASSUME RollupInv, FramesTypeOK, LifeOK, RingInv, [FramesNext]_allVars
    PROVE  RingInv'
<1> SUFFICES ASSUME Alone' PROVE RingParts'
  BY DEF RingInv
<1> USE TimelapseAssumption
<1>a. Alone /\ ~RollupAllSelect
  BY AloneBefore DEF RollupInv
<1>b. RingParts /\ OrderParts /\ IndOK
  BY <1>a DEF RingInv, RollupInv, OrderInv
<1>c. ~RollupAllCommit
  BY <1>b DEF RollupAllCommit, OrderParts
<1>d. /\ now \in Hours /\ now \in Int /\ pc \in [Drainers -> Phases] /\ at \in [Drainers -> Hours]
      /\ \A snap \in Standing : snap.end \in Int
  BY <1>b, SnapFacts DEF IndOK, TypeOK, Hours
<1>1. CASE Build
  <2>1. /\ UNCHANGED <<vars, served>>
        /\ building' = [end |-> now, ring |-> Extend(Carried, now)]
    BY <1>1 DEF Build
  <2>2. UNCHANGED <<now, hourly, pc, at>>
    BY <2>1 DEF vars, tables, locals
  <2>3. building'.end = now /\ building'.ring = Extend(Carried, now)
    BY <2>1
  <2>4. PICK ring : ring = Extend(Carried, now)
    OBVIOUS
  <2>5. RingOK(Carried)
    BY CarriedFits
  <2>6. /\ \A h \in DOMAIN ring :
              \/ h \in DOMAIN Carried /\ h >= now - RingHours
              \/ h \in Aggregated /\ h < now
        /\ \A h \in DOMAIN Carried : h >= now - RingHours => h \in DOMAIN ring
        /\ \A k \in Aggregated :
              k >= now - RingHours /\ k < now
                => k \in DOMAIN ring \/ \E m \in DOMAIN Carried : k < m
    BY <1>b, <1>d, <2>4, <2>5, ExtendFacts
  <2>7. \A h \in DOMAIN Carried :
           /\ h \in Aggregated /\ h < now
           /\ \A k \in Aggregated :
                 k < h /\ k >= now - RingHours => k \in DOMAIN Carried
    <3>1. CASE served = NoSnapshot
      BY <3>1 DEF Carried
    <3>2. CASE served # NoSnapshot
      <4>1. Whole(served) /\ served.end \in Hours /\ Carried = served.ring
        BY <1>b, <3>2, SnapFacts DEF RingParts, Standing, Carried
      <4>2. /\ served.end \in Int /\ served.end <= now /\ RingHours \in Int
            /\ \A k \in Aggregated : k \in Int
        BY <4>1 DEF Whole, Hours, Aggregated
      <4> QED
        BY <1>d, <4>1, <4>2 DEF Whole
    <3> QED
      BY <3>1, <3>2
  <2>8. \A h \in Aggregated : h \in Int
    BY DEF Aggregated, Hours
  <2>9. ASSUME NEW h \in DOMAIN ring, NEW k \in Aggregated, k < h, k >= now - RingHours
        PROVE  k \in DOMAIN ring
    <3>1. h \in Aggregated /\ h < now
      BY <2>6, <2>7
    <3>2. k < now
      BY <1>d, <2>8, <2>9, <3>1
    <3>3. ASSUME NEW m \in DOMAIN Carried, k < m PROVE k \in DOMAIN ring
      BY <2>6, <2>7, <2>9, <3>3
    <3> QED
      BY <2>6, <2>9, <3>2, <3>3
  <2>10. Aggregated' = Aggregated
    BY <2>2 DEF Aggregated, NoHour
  <2>11. \A h \in DOMAIN ring : h \in Aggregated /\ h < now
    BY <2>6, <2>7
  <2>12. ASSUME NEW snap, snap = building' PROVE Whole(snap)'
    <3>1. snap.end = now /\ snap.ring = ring
      BY <2>3, <2>4, <2>12
    <3> QED
      BY <1>d, <2>2, <2>9, <2>10, <2>11, <3>1 DEF Whole
  <2>13. ASSUME NEW snap, snap = served, snap # NoSnapshot PROVE Whole(snap)'
    BY <1>b, <1>d, <2>2, <2>13, KeepWhole DEF RingParts, Standing
  <2>14. \A snap \in Standing' : Whole(snap)'
    <3> SUFFICES ASSUME NEW snap \in Standing' PROVE Whole(snap)'
      OBVIOUS
    <3>1. snap = building' \/ (snap = served /\ snap # NoSnapshot)
      BY <2>1 DEF Standing
    <3> QED
      BY <2>12, <2>13, <3>1
  <2>15. served' # NoSnapshot /\ pc'[Server] # "idle" => served'.end <= at'[Server]
    BY <1>b, <2>1, <2>2 DEF RingParts
  <2> QED
    BY <2>14, <2>15 DEF RingParts
<1>2. ASSUME \/ Swap \/ KeepServed \/ AbandonCycle \/ Restart
      PROVE  RingParts'
  <2>1. Standing' \subseteq Standing
    BY <1>2 DEF Swap, KeepServed, AbandonCycle, Restart, Standing
  <2>2. now' = now /\ hourly' = hourly
    BY <1>2 DEF Swap, KeepServed, Published, AbandonCycle, Restart, EndCycle, Crash, vars, tables
  <2>3. pc'[Server] = "idle"
    <3>1. ASSUME Published PROVE pc'[Server] = "idle"
      BY <1>d, <3>1 DEF Published, EndCycle, Goto, LifeOK, vars, locals
    <3>2. ASSUME AbandonCycle \/ Restart PROVE pc'[Server] = "idle"
      BY <1>d, <3>2 DEF AbandonCycle, Restart, Crash, Goto
    <3> QED
      BY <1>2, <3>1, <3>2 DEF Swap, KeepServed
  <2>4. ASSUME NEW snap \in Standing PROVE Whole(snap)'
    BY <1>b, <1>d, <2>2, KeepWhole DEF RingParts
  <2> QED
    BY <2>1, <2>3, <2>4 DEF RingParts
<1>3. ASSUME life = "polling", MidCycle(Server), UNCHANGED frameVars PROVE RingParts'
  <2>1. Standing' = Standing /\ served' = served
    BY <1>3 DEF frameVars, Standing
  <2>2. now' = now
    BY <1>3 DEF MidCycle, Fetch, WriteChunk, StartRollup, ReadWatermark, SelectRows, CommitDrain,
                FinishDrain, CommitReconcile, TxFails
  <2>3. served # NoSnapshot /\ pc'[Server] # "idle" => served.end <= at'[Server]
    <3>1. CASE Fetch(Server) \/ StartRollup(Server)
      <4>1. at'[Server] = now
        BY <1>d, <3>1 DEF Fetch, StartRollup
      <4> QED
        BY <1>b, <4>1 DEF RingParts, Standing, Whole
    <3>2. CASE ~(Fetch(Server) \/ StartRollup(Server))
      <4>1. at' = at /\ pc[Server] # "idle"
        BY <1>3, <3>2 DEF MidCycle, WriteChunk, ReadWatermark, SelectRows, CommitDrain,
                          FinishDrain, CommitReconcile, TxFails, locals
      <4> QED
        BY <1>b, <4>1 DEF RingParts
    <3> QED
      BY <3>1, <3>2
  <2>4. CASE hourly' = hourly
    <3>1. ASSUME NEW snap \in Standing PROVE Whole(snap)'
      BY <1>b, <1>d, <2>2, <2>4, KeepWhole DEF RingParts
    <3> QED
      BY <2>1, <2>3, <3>1 DEF RingParts
  <2>5. CASE hourly' # hourly
    <3>1. /\ pc[Server] \in {"drainTx", "reconcileTx"} /\ CommitBucket(Server)
      BY <1>3, <2>5 DEF MidCycle, Fetch, WriteChunk, StartRollup, ReadWatermark, SelectRows,
                        CommitDrain, FinishDrain, CommitReconcile, TxFails, tables
    <3>2. building = NoSnapshot
      BY <1>3, <3>1 DEF LifeOK
    <3>3. /\ bucket[Server] \in Hours
          /\ \A h \in Hours : h # bucket[Server] => hourly'[h] = hourly[h]
          /\ hourly'[bucket[Server]] = Upsert(rows[Server], hourly[bucket[Server]])
      BY <1>b, <3>1, CommitOrder
    <3>4. /\ Aggregated' \subseteq Aggregated \cup {bucket[Server]}
          /\ Aggregated \subseteq Aggregated'
      <4>1. ASSUME hourly[bucket[Server]] # NoHour
            PROVE  hourly'[bucket[Server]] # NoHour
        <5>1. PICK s \in Series : hourly[bucket[Server]][s] # NoRows
          BY <1>b, <3>3, <4>1 DEF NoHour, IndOK, TypeOK
        <5>2. hourly'[bucket[Server]][s] # NoRows
          BY <3>3, <5>1, ConstantsAssumption DEF Upsert
        <5> QED
          BY <5>2 DEF NoHour
      <4> QED
        BY <3>3, <4>1 DEF Aggregated, NoHour
    <3>5. ASSUME NEW snap \in Standing PROVE Whole(snap)'
      <4>1. snap = served /\ served # NoSnapshot /\ Whole(served)
        BY <1>b, <3>2 DEF Standing, RingParts
      <4>2. \A h \in DOMAIN snap.ring :
               h \in Int /\ bucket[Server] \in Int /\ h <= bucket[Server]
        BY <1>b, <3>1, <4>1, CommitAboveRing
      <4>3. \A h \in DOMAIN snap.ring, k \in Aggregated' : k < h => k \in Aggregated
        BY <3>4, <4>2
      <4> QED
        BY <2>2, <3>4, <4>1, <4>3 DEF Whole
    <3> QED
      BY <2>1, <2>3, <3>5 DEF RingParts
  <2> QED
    BY <2>4, <2>5
<1>4. ASSUME WriteStations \/ Tick \/ UNCHANGED vars \/ \E h \in Hours : DropRaw(h),
             UNCHANGED frameVars
      PROVE  RingParts'
  <2>1. Standing' = Standing /\ served' = served
    BY <1>4 DEF frameVars, Standing
  <2>2. /\ now' \in Int /\ now' >= now
        /\ UNCHANGED <<hourly, pc, at>>
    BY <1>4, <1>d DEF WriteStations, Tick, DropRaw, vars, tables, locals
  <2>3. ASSUME NEW snap \in Standing PROVE Whole(snap)'
    BY <1>b, <1>d, <2>2, KeepWhole DEF RingParts
  <2> QED
    BY <1>b, <2>1, <2>2, <2>3 DEF RingParts
<1>5. SoleDrainer
  BY <1>a DEF Alone
<1> QED
  BY <1>1, <1>2, <1>3, <1>4, <1>5, <1>a, <1>b, <1>c, SoleStep

\* FramesTypeOK, LifeOK and RingInv hold together.
FramesInv == RollupInv /\ FramesTypeOK /\ LifeOK /\ RingInv

LEMMA AlwaysFramesInv == FramesSpec => []FramesInv
<1>1. FramesInit => FramesInv
  BY InitRollupInv, InitLife, InitRingInv DEF FramesInv
<1>2. FramesInv /\ [FramesNext]_allVars => FramesInv'
  BY StepRollupInv, StepLife, StepRing DEF FramesInv
<1> QED
  BY <1>1, <1>2, PTL DEF FramesSpec

(* The published frames have their shape, and between the oldest hour of    *)
(* the span and the last frame no hour with an aggregate is missing, for    *)
(* every span, cap and lag and whatever crashed, failed or was restarted    *)
(* (extendRing reads only the hours after the last one it kept).            *)
THEOREM FramesAlwaysComplete == FramesSpec => []FramesComplete
<1>1. FramesInv => FramesComplete
  <2> SUFFICES ASSUME FramesInv PROVE FramesTypeOK /\ NoHole
    BY DEF FramesComplete
  <2>1. ASSUME SoleDrainer, opRuns = 0, served # NoSnapshot,
               NEW h \in DOMAIN served.ring, NEW k \in Hours,
               k < h, k >= served.end - RingHours, hourly[k] # NoHour
        PROVE  k \in DOMAIN served.ring
    <3>1. Whole(served)
      BY <2>1 DEF FramesInv, RingInv, Alone, RingParts, Standing
    <3> QED
      BY <2>1, <3>1 DEF Whole, Aggregated
  <2> QED
    BY <2>1 DEF FramesInv, NoHole
<1> QED
  BY AlwaysFramesInv, <1>1, PTL

-----------------------------------------------------------------------------
(* FramesFresh: no commit changes an hour the ring has. *)

Settled(snap) ==
    \A h \in DOMAIN snap.ring : snap.ring[h] = hourly[h] /\ ~Stale(h)

\* The reconcile under way computed what the hour already has.
Reconciled ==
    pc[Server] = "reconcileTx" /\ served # NoSnapshot /\ bucket[Server] \in DOMAIN served.ring
        => Upsert(rows[Server], hourly[bucket[Server]]) = hourly[bucket[Server]]

FrameFreshParts == (\A snap \in Standing : Settled(snap)) /\ Reconciled

FrameFreshInv == Quiet /\ Lag = 0 => FrameFreshParts

LEMMA InitFrameFresh == FramesInit => FrameFreshInv
  BY DEF FramesInit, Init, FrameFreshInv, FrameFreshParts, Standing, Reconciled

LEMMA KeepSettled ==
    ASSUME NEW snap, Settled(snap), hourly' = hourly,
           \A h \in DOMAIN snap.ring : Stale(h)' => Stale(h)
    PROVE  Settled(snap)'
  BY DEF Settled

LEMMA QuietBefore ==
    ASSUME IndOK, [FramesNext]_allVars, Quiet'
    PROVE  /\ Quiet /\ ~RollupAllSelect /\ ~WriteStations /\ ~Restart /\ ~AbandonCycle
           /\ \A d \in Drainers : ~TxFails(d)
<1>1. SoleDrainer /\ Lag + Span <= 1 /\ faults' = 0 /\ opRuns' = 0 /\ official' = 0
  BY DEF Quiet, Orderly, SoleDrainer
<1>2. /\ ~RollupAllSelect /\ ~WriteStations /\ ~Restart
      /\ \A d \in Drainers : ~TxFails(d) /\ ~Crash(d)
  BY <1>1 DEF RollupAllSelect, WriteStations, Restart, TxFails, Crash, IndOK, TypeOK
<1>3. UNCHANGED <<faults, opRuns, official>>
  BY <1>2, StepIsRollup
     DEF Next, Cycle, Fetch, StartRollup, ReadWatermark, SelectRows, CommitDrain, FinishDrain,
         CommitReconcile, EndCycle, WriteChunk, RollupAllCommit, Tick, DropRaw, vars, others
<1> QED
  BY <1>1, <1>2, <1>3, TimelapseAssumption DEF Quiet, Orderly, AbandonCycle

LEMMA StepFrameFresh ==
    ASSUME FramesInv, FrameFreshInv, [FramesNext]_allVars
    PROVE  FrameFreshInv'
<1> SUFFICES ASSUME Quiet', Lag = 0 PROVE FrameFreshParts'
  BY DEF FrameFreshInv
<1> USE TimelapseAssumption
<1>a. /\ Quiet /\ ~RollupAllSelect /\ ~WriteStations /\ ~Restart /\ ~AbandonCycle
      /\ ~TxFails(Server)
  BY QuietBefore DEF FramesInv, RollupInv
<1>b. /\ FrameFreshParts /\ FreshParts /\ OrderParts /\ RingParts /\ IndOK
      /\ SoleDrainer /\ ~RollupAllCommit
  BY <1>a DEF FrameFreshInv, FramesInv, RollupInv, FreshInv, OrderInv, RingInv, Alone, Quiet,
              Orderly, OrderParts, RollupAllCommit
<1>c. \A snap \in Standing : /\ Settled(snap) /\ Whole(snap) /\ RingOK(snap.ring)
                             /\ snap.end \in Hours
  BY <1>b, SnapFacts DEF FrameFreshParts, RingParts, FramesInv
<1>d. /\ pc \in [Drainers -> Phases] /\ at \in [Drainers -> Hours] /\ now \in Hours
      /\ Server \in Drainers
  BY <1>b DEF IndOK, TypeOK
<1>1. CASE Build
  <2>1. /\ UNCHANGED <<vars, served>>
        /\ building' = [end |-> now, ring |-> Extend(Carried, now)]
        /\ life = "starting" \/ pc[Server] = "done"
    BY <1>1 DEF Build
  <2>2. UNCHANGED <<raw, hourly, pc, bucket, rows>>
    BY <2>1 DEF vars, tables, locals
  <2>3. \A h \in Aggregated : ~Stale(h)
    <3>1. pc[Server] \in {"idle", "done"}
      BY <2>1 DEF FramesInv, LifeOK
    <3>2. \A d \in Drainers, h \in Aggregated : ~Owes(d, h)
      BY <1>b, <3>1 DEF Owes, SoleDrainer
    <3> QED
      BY <1>b, <3>2 DEF FreshParts, Tracked
  <2>4. PICK ring : ring = Extend(Carried, now)
    OBVIOUS
  <2>5. \A h \in DOMAIN ring :
           \/ h \in DOMAIN Carried /\ ring[h] = Carried[h]
           \/ h \in Aggregated /\ ring[h] = hourly[h]
    BY <1>b, <1>d, <2>4, CarriedFits, ExtendFacts DEF FramesInv
  <2>6. \A h \in DOMAIN Carried : Carried[h] = hourly[h] /\ ~Stale(h)
    <3>1. CASE served = NoSnapshot
      BY <3>1 DEF Carried
    <3>2. CASE served # NoSnapshot
      BY <1>c, <3>2 DEF Carried, Standing, Settled
    <3> QED
      BY <3>1, <3>2
  <2>7. \A h \in DOMAIN ring : ring[h] = hourly[h] /\ ~Stale(h)
    BY <2>3, <2>5, <2>6
  <2>8. ASSUME NEW snap \in Standing' PROVE Settled(snap)'
    <3>1. snap = building' \/ (snap = served /\ snap \in Standing)
      BY <2>1 DEF Standing
    <3>2. \A h : Stale(h)' = Stale(h)
      BY <2>2 DEF Stale
    <3>3. CASE snap = building'
      BY <2>1, <2>2, <2>4, <2>7, <3>2, <3>3 DEF Settled
    <3>4. CASE snap \in Standing
      BY <1>c, <2>2, <3>2, <3>4, KeepSettled
    <3> QED
      BY <3>1, <3>3, <3>4
  <2>9. Reconciled'
    BY <1>b, <2>1, <2>2 DEF FrameFreshParts, Reconciled, Upsert
  <2> QED
    BY <2>8, <2>9 DEF FrameFreshParts
<1>2. ASSUME Swap \/ KeepServed PROVE FrameFreshParts'
  <2>1. Standing' \subseteq Standing
    BY <1>2 DEF Swap, KeepServed, Standing
  <2>2. raw' = raw /\ hourly' = hourly
    BY <1>2 DEF Swap, KeepServed, Published, EndCycle, vars, tables
  <2>3. pc'[Server] = "idle"
    BY <1>2, <1>d DEF Swap, KeepServed, Published, EndCycle, Goto, FramesInv, LifeOK, vars, locals
  <2>4. ASSUME NEW snap \in Standing PROVE Settled(snap)'
    <3>1. \A h : Stale(h)' = Stale(h)
      BY <2>2 DEF Stale
    <3> QED
      BY <1>c, <2>2, <3>1, KeepSettled
  <2> QED
    BY <2>1, <2>3, <2>4 DEF FrameFreshParts, Reconciled
<1>3. ASSUME life = "polling", MidCycle(Server), UNCHANGED frameVars PROVE FrameFreshParts'
  <2>1. Standing' = Standing /\ served' = served
    BY <1>3 DEF frameVars, Standing
  <2>2. pc[Server] # "done"
    BY <1>3 DEF MidCycle, Fetch, WriteChunk, StartRollup, ReadWatermark, SelectRows, CommitDrain,
                FinishDrain, CommitReconcile, TxFails
  <2>3. building = NoSnapshot /\ (\A snap \in Standing : snap = served)
    BY <1>3, <2>2 DEF FramesInv, LifeOK, Standing
  <2>4. CASE WriteChunk(Server)
    <3>1. PICK k \in Hours, s \in Series, v \in Versions :
             /\ k >= at[Server] - Lag
             /\ raw' = [raw EXCEPT ![k] = [@ EXCEPT ![s] = v]]
      BY <2>4 DEF WriteChunk
    <3>2. UNCHANGED <<hourly, pc>> /\ pc[Server] = "ingest"
      BY <2>4 DEF WriteChunk, locals
    <3>3. ASSUME NEW snap \in Standing PROVE Settled(snap)'
      <4>1. \A h \in DOMAIN snap.ring : h < snap.end /\ h \in Hours
        BY <1>c DEF Whole, RingOK
      <4>2. snap.end <= at[Server]
        BY <1>b, <2>3, <3>2 DEF RingParts, Standing
      <4>3. \A h \in DOMAIN snap.ring : h # k
        BY <1>c, <1>d, <3>1, <4>1, <4>2 DEF Hours
      <4>4. \A h \in DOMAIN snap.ring : raw'[h] = raw[h]
        BY <1>b, <3>1, <4>1, <4>3 DEF IndOK, TypeOK
      <4>5. \A h \in DOMAIN snap.ring : Stale(h)' => Stale(h)
        BY <3>2, <4>4 DEF Stale
      <4> QED
        BY <1>c, <3>2, <4>5, KeepSettled
    <3> QED
      BY <2>1, <3>2, <3>3 DEF FrameFreshParts, Reconciled
  <2>5. CASE SelectRows(Server)
    <3>1. /\ UNCHANGED <<raw, hourly, bucket>> /\ rows'[Server] = raw[bucket[Server]]
      BY <1>b, <2>5 DEF SelectRows, tables, IndOK, TypeOK
    <3>2. ASSUME NEW snap \in Standing PROVE Settled(snap)'
      <4>1. \A h : Stale(h)' = Stale(h)
        BY <3>1 DEF Stale
      <4> QED
        BY <1>c, <3>1, <4>1, KeepSettled
    <3>3. ASSUME served # NoSnapshot, bucket[Server] \in DOMAIN served.ring
          PROVE  Upsert(raw[bucket[Server]], hourly[bucket[Server]]) = hourly[bucket[Server]]
      <4>1. /\ ~Stale(bucket[Server]) /\ bucket[Server] \in Hours
        BY <1>c, <3>3 DEF Settled, Standing, RingOK
      <4>2. hourly[bucket[Server]] \in [Series -> UsableVersions \cup {NoRows}]
        BY <1>b, <4>1 DEF IndOK, TypeOK
      <4> QED
        BY <4>1, <4>2 DEF Stale, Upsert
    <3> QED
      BY <2>1, <3>1, <3>2, <3>3 DEF FrameFreshParts, Reconciled
  <2>6. CASE CommitDrain(Server) \/ CommitReconcile(Server)
    <3>1. /\ pc[Server] \in {"drainTx", "reconcileTx"} /\ CommitBucket(Server)
          /\ raw' = raw /\ pc'[Server] # "reconcileTx"
      BY <1>d, <2>6 DEF CommitDrain, CommitReconcile, Goto
    <3>2. /\ \A h \in Hours : h # bucket[Server] => hourly'[h] = hourly[h]
          /\ hourly'[bucket[Server]] = Upsert(rows[Server], hourly[bucket[Server]])
      BY <1>b, <3>1, CommitOrder
    <3>3. ASSUME NEW snap \in Standing PROVE Settled(snap)'
      <4>1. snap = served /\ served # NoSnapshot
        BY <2>3 DEF Standing
      <4>2. ASSUME NEW h \in DOMAIN snap.ring PROVE hourly'[h] = hourly[h] /\ h \in Hours
        <5>1. h \in Hours
          BY <1>c DEF RingOK
        <5>2. CASE h # bucket[Server]
          BY <3>2, <5>1, <5>2
        <5>3. CASE h = bucket[Server]
          <6>1. pc[Server] = "reconcileTx"
            BY <1>b, <3>1, <4>1, <5>3, CommitAboveRing DEF FramesInv
          <6> QED
            BY <1>b, <3>2, <4>1, <5>1, <5>3, <6>1 DEF FrameFreshParts, Reconciled
        <5> QED
          BY <5>2, <5>3
      <4>3. \A h \in DOMAIN snap.ring : Stale(h)' = Stale(h)
        BY <3>1, <4>2 DEF Stale
      <4> QED
        BY <1>c, <4>2, <4>3 DEF Settled
    <3> QED
      BY <2>1, <3>1, <3>3 DEF FrameFreshParts, Reconciled
  <2>7. CASE \/ Fetch(Server) \/ StartRollup(Server) \/ ReadWatermark(Server)
             \/ FinishDrain(Server)
    <3>1. UNCHANGED <<raw, hourly>>
      BY <2>7 DEF Fetch, StartRollup, ReadWatermark, FinishDrain, tables
    <3>2. pc'[Server] # "reconcileTx"
      <4>1. \E phase \in {"ingest", "read", "drain", "reconcile", "done"} : Goto(Server, phase)
        BY <2>7, Zenon DEF Fetch, StartRollup, ReadWatermark, FinishDrain
      <4> QED
        BY <1>d, <4>1 DEF Goto
    <3>3. ASSUME NEW snap \in Standing PROVE Settled(snap)'
      <4>1. \A h : Stale(h)' = Stale(h)
        BY <3>1 DEF Stale
      <4> QED
        BY <1>c, <3>1, <4>1, KeepSettled
    <3> QED
      BY <2>1, <3>2, <3>3 DEF FrameFreshParts, Reconciled
  <2> QED
    BY <1>3, <1>a, <2>4, <2>5, <2>6, <2>7 DEF MidCycle
<1>4. ASSUME Tick \/ UNCHANGED vars \/ \E k \in Hours : DropRaw(k), UNCHANGED frameVars
      PROVE  FrameFreshParts'
  <2>1. Standing' = Standing /\ served' = served
    BY <1>4 DEF frameVars, Standing
  <2>2. UNCHANGED <<hourly, pc, bucket, rows>>
    BY <1>4 DEF Tick, DropRaw, vars, tables, locals
  <2>3. \A h \in Hours : raw'[h] \in {raw[h], NoHour}
    BY <1>4, <1>b DEF Tick, DropRaw, vars, tables, IndOK, TypeOK
  <2>4. \A h \in Hours : Stale(h)' => Stale(h)
    BY <2>2, <2>3, ConstantsAssumption DEF Stale, NoHour
  <2>5. ASSUME NEW snap \in Standing PROVE Settled(snap)'
    <3>1. \A h \in DOMAIN snap.ring : Stale(h)' => Stale(h)
      BY <1>c, <2>4 DEF RingOK
    <3> QED
      BY <1>c, <2>2, <3>1, KeepSettled
  <2>6. Reconciled'
    BY <1>b, <2>1, <2>2 DEF FrameFreshParts, Reconciled, Upsert
  <2> QED
    BY <2>1, <2>5, <2>6 DEF FrameFreshParts
<1> QED
  BY <1>1, <1>2, <1>3, <1>4, <1>a, <1>b, SoleStep

(* A published frame is the aggregate of its hour as reading_hourly has it  *)
(* now, as long as samples arrive in their own hour: the roll-up of an hour *)
(* is over when its frame is made, and neither the reconcile nor retention  *)
(* changes it afterwards (timelapse.go keeps frames between cycles).        *)
THEOREM FramesAlwaysFresh == FramesSpec => []FramesFresh
<1>1. FramesInv /\ FrameFreshInv /\ [FramesNext]_allVars => FrameFreshInv'
  BY StepFrameFresh
<1>2. FrameFreshInv => FramesFresh
  BY DEF FrameFreshInv, FrameFreshParts, Settled, Standing, FramesFresh, Quiet
<1> QED
  BY AlwaysFramesInv, InitFrameFresh, <1>1, <1>2, PTL DEF FramesSpec

=============================================================================
