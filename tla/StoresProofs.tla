---------------------------- MODULE StoresProofs ----------------------------
(***************************************************************************)
(* What the server and the browser keep of what they were told, for every  *)
(* value of the constants.                                                 *)
(*                                                                         *)
(* Areas: tables that agree.  An assignment that deleted what was not      *)
(* contained, and was not disturbed since, inserts the rest                *)
(* (SettledWithdraws).                                                     *)
(*                                                                         *)
(* VisitorDays: no day is left behind.  Behind the reach of a pull every   *)
(* day is final (NoneLeftBehind), because a pull reaches back further than *)
(* a figure shifts and starts no later than where the last stored day was  *)
(* when it was sized (PullsInStep).                                        *)
(*                                                                         *)
(* BodyCache: a snapshot's shelf keeps its bounds and holds what that      *)
(* snapshot encoded for the key (Shelf).                                   *)
(*                                                                         *)
(* StuckHistory: the memory is the newest of what is stored.  A window is  *)
(* in order and holds the newest rows (Newest), because what upstream      *)
(* serves is never older than what is stored (StoresHistory) and a batch   *)
(* or a seed tells each device its rows in their order (TellsInOrder); and *)
(* what the seed leaves out is older than all it finds (SeedIsNewest).     *)
(*                                                                         *)
(* ApiCache, the browser's own store of what it was told: one request of a *)
(* URL is held by the callers that wait for it (FetchInv), and the cache   *)
(* is the URLs used last since the clear (StoreInv).                       *)
(***************************************************************************)
EXTENDS MCStores, Counting, SequenceTheorems, FunctionTheorems

-----------------------------------------------------------------------------
(* Areas, sensors and rows. *)

\* Whoever deleted what was not contained will leave what is.
SettledWithdraws == \A a \in settled : member \ withdrawn[a] \subseteq Contained

\* Between its two writes a cycle's devices have their row.
UpsertedStays ==
    ingest = "upserted" /\ ~raced => \A d \in Batch : placed[d] # Nowhere

\* The check's boundary is there as long as no import committed.
BoundaryStays == purge # "no" /\ ~renamed => Of("country") # {}

AreasInv ==
    AreasTypeOK /\ MembershipExact /\ SettledWithdraws
    /\ OrphansExplained /\ UpsertedStays /\ BoundaryStays

\* With no areas and no devices all tables agree.
LEMMA AreasInitInv == AreasInit => AreasInv
<1> SUFFICES ASSUME AreasInit PROVE AreasInv
  OBVIOUS
<1> USE DEF AreasInit
<1>1. AreasTypeOK
  BY DEF AreasTypeOK, Located, NothingRemoved
<1>2. MembershipExact /\ SettledWithdraws
  BY DEF MembershipExact, SettledWithdraws
<1>3. OrphansExplained /\ UpsertedStays /\ BoundaryStays
  BY DEF OrphansExplained, UpsertedStays, BoundaryStays
<1> QED
  BY <1>1, <1>2, <1>3 DEF AreasInv

\* Containment is a relation of slugs and devices.
LEMMA ContainedTyped == Contained \in SUBSET (Slugs \X Devices)
  BY DEF Contained, Of

\* An import takes every claim back.
LEMMA ImportKeeps ==
    ASSUME AreasInv, NEW s \in Slugs, NEW shape \in Shapes, Import(s, shape)
    PROVE  AreasInv'
<1> USE DEF AreasInv, Import, Disturbs, cycleOfAreas, purging
<1>1. AreasTypeOK'
  BY DEF AreasTypeOK, Assigners
<1>2. MembershipExact' /\ SettledWithdraws'
  BY DEF MembershipExact, SettledWithdraws
<1>3. OrphansExplained' /\ UpsertedStays' /\ BoundaryStays'
  BY DEF OrphansExplained, UpsertedStays, BoundaryStays, Batch
<1> QED
  BY <1>1, <1>2, <1>3

\* The cycle's filter, and its end by a failure, touch no table.
LEMMA FilterKeeps ==
    ASSUME AreasInv,
           (\E reported \in [Devices -> Places] : FilterJoin(reported))
           \/ FilterPresent \/ CycleFails
    PROVE  AreasInv'
<1> USE DEF AreasInv, tablesOfAreas, assignments, purging, historyOfAreas
<1>1. /\ UNCHANGED <<tablesOfAreas, assignments, purging, historyOfAreas>>
      /\ ingest' \in {"idle", "joined", "filtered"}
      /\ accepted' \in Located
  <2>1. ASSUME NEW reported \in [Devices -> Places], FilterJoin(reported)
        PROVE  accepted' \in Located /\ ingest' = "joined"
    BY <2>1 DEF FilterJoin, Located
  <2>2. FilterPresent \/ CycleFails => UNCHANGED accepted
    BY DEF FilterPresent, CycleFails
  <2> QED
    BY <2>1, <2>2 DEF FilterJoin, FilterPresent, CycleFails, AreasTypeOK
<1>2. AreasTypeOK'
  BY <1>1 DEF AreasTypeOK
<1>3. Contained' = Contained /\ Of("country")' = Of("country")
  BY <1>1 DEF Contained, Of
<1>4. MembershipExact' /\ SettledWithdraws'
  BY <1>1, <1>3 DEF MembershipExact, SettledWithdraws
<1>5. OrphansExplained' /\ UpsertedStays' /\ BoundaryStays'
  BY <1>1, <1>3 DEF OrphansExplained, UpsertedStays, BoundaryStays
<1> QED
  BY <1>2, <1>4, <1>5

\* The cycle's two writes.
LEMMA UpsertKeeps ==
    ASSUME AreasInv, UpsertSensors
    PROVE  AreasInv'
<1> USE DEF AreasInv, UpsertSensors, assignments, purging
<1>1. placed' \in Located /\ \A d \in Devices : placed'[d] = Nowhere => placed[d] = Nowhere
  BY DEF AreasTypeOK, Located, Batch
<1>2. AreasTypeOK'
  BY <1>1 DEF AreasTypeOK, Disturbs
<1>3. MembershipExact' /\ SettledWithdraws'
  <2>1. CASE placed' = placed
    <3>1. Contained' = Contained /\ UNCHANGED <<settled, exact, member, withdrawn>>
      BY <2>1 DEF Contained, Of
    <3> QED
      BY <3>1 DEF MembershipExact, SettledWithdraws
  <2>2. CASE placed' # placed
    BY <2>2 DEF MembershipExact, SettledWithdraws, Disturbs
  <2> QED
    BY <2>1, <2>2
<1>4. OrphansExplained'
  BY <1>1 DEF OrphansExplained, AreasTypeOK
<1>5. UpsertedStays'
  BY DEF UpsertedStays, Batch
<1>6. BoundaryStays'
  BY DEF BoundaryStays, Of
<1> QED
  BY <1>2, <1>3, <1>4, <1>5, <1>6

\* The rows are of devices that have their row in sensor.
LEMMA WriteKeeps ==
    ASSUME AreasInv, WriteReadings
    PROVE  AreasInv'
<1> USE DEF AreasInv, WriteReadings, purging
<1>1. AreasTypeOK'
  BY DEF AreasTypeOK, Batch, Assigners
<1>2. Contained' = Contained /\ Of("country")' = Of("country")
  BY DEF Contained, Of
<1>3. MembershipExact' /\ SettledWithdraws'
  BY <1>2 DEF MembershipExact, SettledWithdraws
<1>4. OrphansExplained'
  BY DEF OrphansExplained, UpsertedStays
<1>5. UpsertedStays' /\ BoundaryStays'
  BY <1>2 DEF UpsertedStays, BoundaryStays
<1> QED
  BY <1>1, <1>3, <1>4, <1>5

\* The two statements of an assignment, and its failure.
LEMMA AssignKeeps ==
    ASSUME AreasInv, NEW a \in Assigners,
           AssignDelete(a) \/ AssignInsert(a) \/ AssignFails(a)
    PROVE  AreasInv'
<1> USE DEF AreasInv, tablesOfAreas, cycleOfAreas, purging
<1>1. /\ UNCHANGED <<area, placed, rowsOf, accepted, purging, renamed, raced>>
      /\ ingest' = ingest \/ ingest' = "idle"
  BY DEF AssignDelete, AssignInsert, AssignFails, Assigned
<1>2. Contained' = Contained /\ Of("country")' = Of("country") /\ Batch' = Batch
  BY <1>1 DEF Contained, Of, Batch
<1>3. AreasTypeOK'
  <2>1. member' \subseteq Slugs \X Devices
    BY ContainedTyped DEF AreasTypeOK, AssignDelete, AssignInsert, AssignFails
  <2>2. withdrawn' \in [Assigners -> SUBSET (Slugs \X Devices)]
    BY DEF AreasTypeOK, AssignDelete, AssignInsert, AssignFails, Assigned, Withdraws
  <2>3. settled' \subseteq Assigners /\ exact' \in BOOLEAN
        /\ assign' \in [Assigners -> {"no", "due", "deleted"}]
    BY DEF AreasTypeOK, AssignDelete, AssignInsert, AssignFails, Assigned
  <2> QED
    BY <1>1, <2>1, <2>2, <2>3 DEF AreasTypeOK
<1>4. MembershipExact' /\ SettledWithdraws'
  <2>1. withdrawn \in [Assigners -> SUBSET (Slugs \X Devices)] /\ settled \subseteq Assigners
    BY DEF AreasTypeOK
  <2>2. CASE AssignDelete(a)
    BY <1>2, <2>1, <2>2 DEF AssignDelete, Withdraws, MembershipExact, SettledWithdraws
  <2>3. CASE AssignInsert(a)
    <3>1. member' = (member \ withdrawn[a]) \cup Contained
          /\ exact' = (exact \/ a \in settled) /\ settled' = settled \ {a}
          /\ withdrawn' = [withdrawn EXCEPT ![a] = {}]
      BY <2>3 DEF AssignInsert, Assigned
    <3>2. MembershipExact'
      BY <1>2, <3>1 DEF MembershipExact, SettledWithdraws
    <3>3. SettledWithdraws'
      BY <1>2, <2>1, <3>1 DEF SettledWithdraws
    <3> QED
      BY <3>2, <3>3
  <2>4. CASE AssignFails(a)
    BY <1>2, <2>1, <2>4 DEF AssignFails, Assigned, MembershipExact, SettledWithdraws
  <2> QED
    BY <2>2, <2>3, <2>4
<1>5. OrphansExplained' /\ UpsertedStays' /\ BoundaryStays'
  BY <1>1, <1>2 DEF OrphansExplained, UpsertedStays, BoundaryStays
<1> QED
  BY <1>3, <1>4, <1>5

\* What the purge does before it commits is its own.
LEMMA PurgeKeeps ==
    ASSUME AreasInv,
           PurgeCheck \/ PurgeSelect \/ PurgeReadings \/ PurgeSensors \/ PurgeFails
    PROVE  AreasInv'
<1> USE DEF AreasInv, tablesOfAreas, cycleOfAreas, assignments, historyOfAreas
<1>1. UNCHANGED <<tablesOfAreas, cycleOfAreas, assignments, settled, exact, raced>>
  BY DEF PurgeCheck, PurgeSelect, PurgeReadings, PurgeSensors, PurgeFails
<1>2. Contained' = Contained /\ Of("country")' = Of("country") /\ Batch' = Batch
  BY <1>1 DEF Contained, Of, Batch
<1>3. AreasTypeOK'
  <2>1. /\ purge' \in {"no", "checked", "selected", "emptied", "deleted"}
        /\ condemned' \subseteq Devices /\ renamed' \in BOOLEAN
    BY DEF AreasTypeOK, PurgeCheck, PurgeSelect, PurgeReadings, PurgeSensors, PurgeFails
  <2>2. removed' \in [sensors : SUBSET Devices, readings : SUBSET Devices]
    BY DEF AreasTypeOK, PurgeCheck, PurgeSelect, PurgeReadings, PurgeSensors, PurgeFails,
           NothingRemoved
  <2> QED
    BY <1>1, <2>1, <2>2 DEF AreasTypeOK
<1>4. MembershipExact' /\ SettledWithdraws' /\ OrphansExplained' /\ UpsertedStays'
  BY <1>1, <1>2 DEF MembershipExact, SettledWithdraws, OrphansExplained, UpsertedStays
<1>5. BoundaryStays'
  BY <1>2 DEF BoundaryStays, BoundaryPresent,
              PurgeCheck, PurgeSelect, PurgeReadings, PurgeSensors, PurgeFails
<1> QED
  BY <1>3, <1>4, <1>5

\* A device that goes takes its memberships and its rows with it.
LEMMA CommitKeeps ==
    ASSUME AreasInv, PurgeCommit
    PROVE  AreasInv'
<1> USE DEF AreasInv, cycleOfAreas, assignments
<1> DEFINE gone == removed.sensors
<1>1. /\ placed' = [d \in Devices |-> IF d \in gone THEN Nowhere ELSE placed[d]]
      /\ rowsOf' = rowsOf \ (removed.readings \cup Orphans)
      /\ member' = {m \in member : m[2] \notin gone}
      /\ purge' = "no" /\ condemned' = {} /\ removed' = NothingRemoved
      /\ raced' = (raced \/ (ingest = "upserted" /\ Batch \cap gone # {}))
      /\ UNCHANGED <<area, cycleOfAreas, assignments, settled, exact, renamed>>
  BY DEF PurgeCommit
<1>2. AreasTypeOK'
  BY <1>1 DEF AreasTypeOK, Located, NothingRemoved
<1>3. Contained' = {m \in Contained : m[2] \notin gone}
  <2>1. \A s \in Of("city") : area[s].geom \subseteq Places
    BY DEF Of, AreasTypeOK, Shapes
  <2>2. Of("city")' = Of("city") /\ area' = area
    BY <1>1 DEF Of
  <2>3. \A s \in Of("city"), d \in Devices :
            placed'[d] \in area[s].geom <=> placed[d] \in area[s].geom /\ d \notin gone
    BY <1>1, <2>1, AreasAssumption
  <2> QED
    BY <2>2, <2>3 DEF Contained
<1>4. MembershipExact'
  BY <1>1, <1>3 DEF MembershipExact
<1>5. SettledWithdraws'
  BY <1>1, <1>3 DEF SettledWithdraws
<1>6. OrphansExplained'
  BY <1>1 DEF OrphansExplained, Orphans, AreasTypeOK
<1>7. UpsertedStays'
  BY <1>1 DEF UpsertedStays, Batch
<1>8. BoundaryStays'
  BY <1>1 DEF BoundaryStays
<1> QED
  BY <1>2, <1>4, <1>5, <1>6, <1>7, <1>8

\* Nothing changes when nothing moves.
LEMMA AreasStutter ==
    ASSUME AreasInv, UNCHANGED areaVars
    PROVE  AreasInv'
<1>1. UNCHANGED <<area, placed, member, rowsOf, ingest, accepted, assign, withdrawn,
                  purge, condemned, removed, settled, exact, renamed, raced>>
  BY DEF areaVars, tablesOfAreas, cycleOfAreas, assignments, purging, historyOfAreas
<1>2. AreasTypeOK'
  BY <1>1 DEF AreasInv, AreasTypeOK
<1>3. Contained' = Contained /\ Of("country")' = Of("country") /\ Batch' = Batch
  BY <1>1 DEF Contained, Of, Batch
<1> QED
  BY <1>1, <1>2, <1>3 DEF AreasInv, MembershipExact, SettledWithdraws, OrphansExplained,
                          UpsertedStays, BoundaryStays

(***************************************************************************)
(* Memberships, rows and boundaries agree for every number of areas,       *)
(* devices, imports, cycles and purges (Import, AssignSensors, RunOnce and *)
(* PurgeOutsideBoundary).                                                  *)
(***************************************************************************)
THEOREM AreasAlwaysAgree == AreasSpec => []AreasAgree
<1>1. AreasInv /\ [AreasNext]_areaVars => AreasInv'
  BY ImportKeeps, FilterKeeps, UpsertKeeps, WriteKeeps, AssignKeeps, PurgeKeeps,
     CommitKeeps, AreasStutter DEF AreasNext
<1>2. AreasInv => AreasAgree
  BY DEF AreasInv, AreasAgree, PurgeFailsClosed, BoundaryStays
<1> QED
  BY AreasInitInv, <1>1, <1>2, PTL DEF AreasSpec

-----------------------------------------------------------------------------
(* The daily visitor figures. *)

\* A set of days has a last one: the one after which the fewest days come.
LEMMA LastOfDays ==
    ASSUME NEW T \in SUBSET Days, T # {}
    PROVE  Max(T) \in T /\ \A d \in T : d <= Max(T)
<1>1. \A d \in Days : d \in Nat
  BY VisitorAssumption DEF Days
<1> DEFINE After_(d) == {k \in Days : k > d}
           F == {After_(d) : d \in T}
<1>2. IsFiniteSet(Days)
  BY FS_Interval, VisitorAssumption DEF Days
<1>3. IsWellFoundedOn(StrictSubsetOrdering(Days), SUBSET Days)
  BY <1>2, FS_StrictSubsetOrderingWellFounded, FS_FiniteSubsetsOfFinite
<1>4. \E X \in F : \A Y \in F : ~ (<<Y, X>> \in StrictSubsetOrdering(Days))
  <2>1. F \subseteq SUBSET Days /\ F # {}
    OBVIOUS
  <2> HIDE DEF F
  <2> QED
    BY <1>3, <2>1, WFMin
<1>5. PICK x \in T : \A d \in T : ~ (<<After_(d), After_(x)>> \in StrictSubsetOrdering(Days))
  BY <1>4
<1>6. \A d \in T : d <= x
  <2> SUFFICES ASSUME NEW d \in T, d > x PROVE FALSE
    BY <1>1
  <2>1. After_(d) \subseteq After_(x) /\ d \in After_(x) /\ d \notin After_(d)
    BY <1>1
  <2>2. <<After_(d), After_(x)>> \in StrictSubsetOrdering(Days)
    BY <2>1 DEF StrictSubsetOrdering
  <2> QED
    BY <1>5, <2>2
<1> QED
  BY <1>1, <1>6 DEF Max

\* The larger and the smaller of two numbers.
LEMMA OfTwo ==
    ASSUME NEW a \in Int, NEW b \in Int
    PROVE  /\ Max({a, b}) = IF a >= b THEN a ELSE b
           /\ Min({a, b}) = IF a <= b THEN a ELSE b
<1>1. \E x \in {a, b} : \A y \in {a, b} : x >= y
  OBVIOUS
<1>2. \E x \in {a, b} : \A y \in {a, b} : x <= y
  OBVIOUS
<1>3. Max({a, b}) \in {a, b} /\ Max({a, b}) >= a /\ Max({a, b}) >= b
  BY <1>1 DEF Max
<1>4. Min({a, b}) \in {a, b} /\ Min({a, b}) <= a /\ Min({a, b}) <= b
  BY <1>2 DEF Min
<1> QED
  BY <1>3, <1>4

\* A pull reaches back MinLookback days before the last stored one, or as far as
\* Cloudflare keeps.
LEMMA SinceFacts ==
    ASSUME NEW now \in Days, NEW last \in Days \cup {NoFigure}, last <= now
    PROVE  /\ Since(now, last) \in -MaxLookback .. MaxDay
           /\ Since(now, last) >= last - MinLookback + 1 \/ last = NoFigure
           /\ \/ Since(now, last) = now - MaxLookback + 1
              \/ Since(now, last) = last - MinLookback + 1 /\ last # NoFigure
<1>1. now \in Nat /\ now <= MaxDay /\ last \in Int /\ MinLookback \in Nat /\ MinLookback > 0
      /\ MaxLookback \in Nat /\ MinLookback <= MaxLookback /\ MaxDay \in Nat
  BY VisitorAssumption DEF Days, NoFigure
<1>2. CASE last = NoFigure
  BY <1>1, <1>2 DEF Since, Lookback
<1>3. CASE last # NoFigure
  <2> DEFINE n == now - last + MinLookback
  <2>1. n \in Int /\ n >= MinLookback
    BY <1>1
  <2>2. Clamp(n) = IF n <= MaxLookback THEN n ELSE MaxLookback
    <3>1. Max({n, MinLookback}) = n
      BY <1>1, <2>1, OfTwo
    <3>2. Min({n, MaxLookback}) = IF n <= MaxLookback THEN n ELSE MaxLookback
      BY <1>1, <2>1, OfTwo
    <3> QED
      BY <3>1, <3>2 DEF Clamp
  <2>3. Since(now, last) = now - (Clamp(n) - 1)
    BY <1>3 DEF Since, Lookback
  <2>4. last \in Nat
    BY <1>3, VisitorAssumption DEF Days
  <2> QED
    BY <1>1, <2>1, <2>2, <2>3, <2>4, <1>3
<1> QED
  BY <1>2, <1>3

-----------------------------------------------------------------------------

\* Only days that have begun are stored.
StoredHasBegun == \A d \in Stored : d <= today

\* A pull in flight read a day that is still stored or an earlier one, and was asked for
\* today or yesterday.
PullsInStep ==
    \A p \in Pullers :
        /\ pull[p].at # "idle" => pull[p].last <= LastStored
        /\ pull[p].at = "fetched" =>
               /\ pull[p].until <= today /\ today <= pull[p].until + 1
               /\ pull[p].last <= pull[p].until
               /\ pull[p].since = Since(pull[p].until, pull[p].last)

\* Behind the reach of a pull of today every day since the first stored one is final,
\* but for those a seed leapt over.
NoneLeftBehind ==
    \A d \in Days : \A e \in Stored :
        e <= d /\ d <= LastStored - MinLookback /\ d > today - MaxLookback
        => Final(d) \/ d \in leapt

VisitorInv == VisitorTypeOK /\ StoredHasBegun /\ PullsInStep /\ NoneLeftBehind

\* What the last stored day is.
LEMMA LastFacts ==
    /\ Stored \in SUBSET Days
    /\ LastStored \in Days \cup {NoFigure}
    /\ Stored # {} => LastStored \in Stored
    /\ \A d \in Stored : d <= LastStored
<1>1. Stored \in SUBSET Days
  BY DEF Stored
<1>2. CASE Stored = {}
  BY <1>1, <1>2 DEF LastStored
<1>3. CASE Stored # {}
  BY <1>1, <1>3, LastOfDays DEF LastStored
<1> QED
  BY <1>1, <1>2, <1>3

\* The same after a step.
LEMMA LastFactsNext ==
    /\ Stored' \in SUBSET Days
    /\ LastStored' \in Days \cup {NoFigure}
    /\ Stored' # {} => LastStored' \in Stored'
    /\ \A d \in Stored' : d <= LastStored'
<1>1. Stored' \in SUBSET Days
  BY DEF Stored
<1>2. CASE Stored' = {}
  BY <1>1, <1>2 DEF LastStored
<1>3. CASE Stored' # {}
  BY <1>1, <1>3, LastOfDays DEF LastStored
<1> QED
  BY <1>1, <1>2, <1>3

\* A day more that is stored only moves the last one on.
LEMMA LastOnlyGrows ==
    ASSUME Stored \subseteq Stored'
    PROVE  LastStored <= LastStored'
<1>1. CASE Stored = {}
  BY <1>1, LastFactsNext, VisitorAssumption DEF LastStored, NoFigure, Days
<1>2. CASE Stored # {}
  BY <1>2, LastFacts, LastFactsNext
<1> QED
  BY <1>1, <1>2

\* The range of the constants.
LEMMA VisitorNumbers ==
    /\ \A d \in Days : d \in Nat /\ d <= MaxDay
    /\ MinLookback \in Nat /\ MinLookback > 0 /\ MaxLookback \in Nat
    /\ MinLookback <= MaxLookback /\ Shift \in Nat /\ Shift < MinLookback
    /\ MaxDay \in Nat /\ NoFigure = -1
  BY VisitorAssumption DEF Days, NoFigure

\* Before the first pull nothing is stored.
LEMMA VisitorInitInv == VisitorInit => VisitorInv
<1> SUFFICES ASSUME VisitorInit PROVE VisitorInv
  OBVIOUS
<1>1. VisitorTypeOK
  BY VisitorAssumption DEF VisitorInit, VisitorTypeOK, AtRest, Days, NoFigure
<1>2. Stored = {}
  BY DEF VisitorInit, Stored
<1>3. StoredHasBegun /\ NoneLeftBehind
  BY <1>2 DEF StoredHasBegun, NoneLeftBehind
<1>4. PullsInStep
  BY DEF VisitorInit, PullsInStep, AtRest
<1> QED
  BY <1>1, <1>3, <1>4 DEF VisitorInv

\* The steps that write nothing.
LEMMA PullingKeeps ==
    ASSUME VisitorInv, NEW p \in Pullers, ReadMaxDay(p) \/ FetchDaily(p) \/ PullFails(p)
    PROVE  VisitorInv'
<1> USE DEF VisitorInv
<1>1. UNCHANGED <<today, figures, seeds, leapt>>
  BY DEF ReadMaxDay, FetchDaily, PullFails
<1>2. Stored' = Stored /\ LastStored' = LastStored /\ \A d \in Days : Final(d)' = Final(d)
  BY <1>1 DEF Stored, LastStored, Final
<1>3. StoredHasBegun' /\ NoneLeftBehind'
  BY <1>1, <1>2 DEF StoredHasBegun, NoneLeftBehind
<1>4. LastStored <= today /\ LastStored \in Days \cup {NoFigure} /\ today \in Days
  BY LastFacts, VisitorNumbers DEF StoredHasBegun, VisitorTypeOK, LastStored
<1> DEFINE Pull == [at : {"idle", "sized", "fetched"}, last : Days \cup {NoFigure},
                    since : -MaxLookback .. MaxDay, until : Days]
<1>5. pull \in [Pullers -> Pull]
  BY DEF VisitorTypeOK
<1>6. /\ pull' = [pull EXCEPT ![p] = pull'[p]]
      /\ pull'[p] \in Pull
      /\ pull'[p].at # "idle" => pull'[p].last <= LastStored
      /\ pull'[p].at = "fetched" =>
               /\ pull'[p].until = today /\ pull'[p].last <= today
               /\ pull'[p].since = Since(pull'[p].until, pull'[p].last)
  <2>1. CASE ReadMaxDay(p)
    <3>1. pull'[p] = [at |-> "sized", last |-> LastStored, since |-> 0, until |-> 0]
          /\ pull' = [pull EXCEPT ![p] = pull'[p]]
      BY <1>5, <2>1 DEF ReadMaxDay, AtRest
    <3>2. 0 \in Days /\ 0 \in -MaxLookback .. MaxDay
      BY VisitorNumbers DEF Days
    <3> QED
      BY <1>4, <3>1, <3>2, VisitorNumbers
  <2>2. CASE FetchDaily(p)
    <3>1. pull[p].at = "sized" /\ pull[p].last <= LastStored /\ pull[p] \in Pull
      BY <1>5, <2>2 DEF FetchDaily, PullsInStep
    <3>2. /\ pull'[p] = [at |-> "fetched", last |-> pull[p].last,
                         since |-> Since(today, pull[p].last), until |-> today]
          /\ pull' = [pull EXCEPT ![p] = pull'[p]]
      BY <1>5, <2>2 DEF FetchDaily
    <3>3. pull[p].last <= today
      BY <1>4, <3>1, VisitorNumbers
    <3>4. Since(today, pull[p].last) \in -MaxLookback .. MaxDay
      BY <1>4, <3>1, <3>3, SinceFacts
    <3> QED
      BY <1>4, <3>1, <3>2, <3>3, <3>4
  <2>3. CASE PullFails(p)
    <3>1. pull'[p] = [at |-> "idle", last |-> NoFigure, since |-> 0, until |-> 0]
          /\ pull' = [pull EXCEPT ![p] = pull'[p]]
      BY <1>5, <2>3 DEF PullFails, AtRest
    <3>2. 0 \in Days /\ 0 \in -MaxLookback .. MaxDay
      BY VisitorNumbers DEF Days
    <3> QED
      BY <3>1, <3>2
  <2> QED
    BY <2>1, <2>2, <2>3
<1>7. VisitorTypeOK'
  BY <1>1, <1>5, <1>6 DEF VisitorTypeOK
<1>8. PullsInStep'
  <2> SUFFICES ASSUME NEW q \in Pullers
               PROVE  /\ pull'[q].at # "idle" => pull'[q].last <= LastStored
                      /\ pull'[q].at = "fetched" =>
                             /\ pull'[q].until <= today /\ today <= pull'[q].until + 1
                             /\ pull'[q].last <= pull'[q].until
                             /\ pull'[q].since = Since(pull'[q].until, pull'[q].last)
    BY <1>1, <1>2 DEF PullsInStep, Since, Lookback, Clamp
  <2>1. CASE q = p
    BY <1>4, <1>6, <2>1, VisitorNumbers
  <2>2. CASE q # p
    BY <1>5, <1>6, <2>2 DEF PullsInStep
  <2> QED
    BY <2>1, <2>2
<1> QED
  BY <1>3, <1>7, <1>8

\* A day behind the reach of what is stored was final at the last pull.
LEMMA OldEnough ==
    ASSUME NEW d \in Int, NEW t \in Int, NEW now \in Int, NEW last \in Int,
           NEW m \in Int, NEW n \in Int, 0 <= n, n < m,
           last <= now, now <= t + 1, d <= last - m
    PROVE  d + n <= t /\ d <= t
  OBVIOUS

\* What is written reaches from the last day this collector read to the day it asked.
LEMMA FiguresKeep ==
    ASSUME VisitorInv, NEW p \in Pullers, Upsert(p)
    PROVE  VisitorInv'
<1> USE DEF VisitorInv
<1> DEFINE S == pull[p].since
           T == pull[p].until
<1>1. /\ S \in -MaxLookback .. MaxDay /\ T \in Days /\ pull[p].last \in Days \cup {NoFigure}
      /\ pull[p].last <= LastStored /\ pull[p].last <= T
      /\ T <= today /\ today <= T + 1 /\ today \in Days
      /\ S = Since(T, pull[p].last)
  BY DEF Upsert, VisitorTypeOK, PullsInStep
<1>2. /\ figures \in [Days -> {NoFigure} \cup Days \cup {Exported}]
      /\ \A d \in Days : figures'[d] = IF d \in S .. T THEN T ELSE figures[d]
      /\ figures' \in [Days -> {NoFigure} \cup Days \cup {Exported}]
      /\ UNCHANGED <<today, seeds, leapt>> /\ pull' = [pull EXCEPT ![p] = AtRest]
  BY <1>1 DEF Upsert, Replaces, VisitorTypeOK
<1>3. \A d \in Days : d \in Stored' <=> d \in Stored \/ d \in S .. T
  BY <1>1, <1>2, VisitorNumbers DEF Stored
<1>4. Stored \subseteq Stored' /\ LastStored <= LastStored'
  BY <1>3, LastOnlyGrows DEF Stored
<1>5. VisitorTypeOK'
  <2>1. 0 \in Days /\ 0 \in -MaxLookback .. MaxDay
    BY VisitorNumbers DEF Days
  <2> QED
    BY <1>2, <2>1 DEF VisitorTypeOK, AtRest
<1>6. StoredHasBegun'
  BY <1>1, <1>2, <1>3, LastFactsNext, VisitorNumbers DEF StoredHasBegun
<1>7. LastStored \in Int /\ LastStored' \in Int /\ LastStored' <= today
  BY <1>1, <1>2, <1>6, LastFacts, LastFactsNext, VisitorNumbers DEF StoredHasBegun, LastStored
<1>8. PullsInStep'
  <2> SUFFICES ASSUME NEW q \in Pullers
               PROVE  /\ pull'[q].at # "idle" => pull'[q].last <= LastStored'
                      /\ pull'[q].at = "fetched" =>
                             /\ pull'[q].until <= today' /\ today' <= pull'[q].until + 1
                             /\ pull'[q].last <= pull'[q].until
                             /\ pull'[q].since = Since(pull'[q].until, pull'[q].last)
    BY <1>2 DEF PullsInStep, Since, Lookback, Clamp
  <2>1. CASE q = p
    BY <1>2, <2>1 DEF VisitorTypeOK, AtRest
  <2>2. CASE q # p
    <3>1. pull'[q] = pull[q] /\ pull[q].last \in Int
      BY <1>2, <2>2, VisitorNumbers DEF VisitorTypeOK
    <3> QED
      BY <1>2, <1>4, <1>7, <3>1 DEF PullsInStep
  <2> QED
    BY <2>1, <2>2
<1>9. NoneLeftBehind'
  <2> SUFFICES ASSUME NEW d \in Days, NEW e \in Stored',
                      e <= d, d <= LastStored' - MinLookback, d > today - MaxLookback
               PROVE  Final(d)' \/ d \in leapt
    BY <1>2 DEF NoneLeftBehind
  <2>1. e \in Days /\ d + Shift <= T /\ d <= T
    <3>1. e \in Days
      BY LastFactsNext
    <3>2. /\ d \in Int /\ T \in Int /\ today \in Int /\ LastStored' \in Int
          /\ LastStored' <= today /\ today <= T + 1
          /\ MinLookback \in Int /\ Shift \in Int /\ 0 <= Shift /\ Shift < MinLookback
      BY <1>1, <1>7, VisitorNumbers
    <3>3. d <= LastStored' - MinLookback
      OBVIOUS
    <3> QED
      BY <3>1, <3>2, <3>3, OldEnough
  <2>2. CASE d >= S
    <3>1. figures'[d] = T
      BY <1>1, <1>2, <2>1, <2>2, VisitorNumbers
    <3> QED
      BY <1>1, <2>1, <3>1, VisitorNumbers DEF Final
  <2>3. CASE ~ (d >= S)
    <3>1. d <= pull[p].last - MinLookback
      BY <1>1, <2>3, SinceFacts, VisitorNumbers
    <3>2. d <= LastStored - MinLookback
      BY <1>1, <1>7, <3>1, VisitorNumbers
    <3>3. e \in Stored /\ figures'[d] = figures[d]
      BY <1>1, <1>2, <1>3, <2>1, <2>3, VisitorNumbers
    <3>4. Final(d) \/ d \in leapt
      BY <3>2, <3>3 DEF NoneLeftBehind
    <3> QED
      BY <3>3, <3>4 DEF Final
  <2> QED
    BY <2>2, <2>3
<1> QED
  BY <1>5, <1>6, <1>8, <1>9

\* A seed writes days that are over; the days it puts out of reach are on record.
LEMMA SeedKeeps ==
    ASSUME VisitorInv, NEW first \in Days, NEW last \in Days, last < today, Seed(first, last)
    PROVE  VisitorInv'
<1> USE DEF VisitorInv
<1>1. /\ figures \in [Days -> {NoFigure} \cup Days \cup {Exported}]
      /\ figures' \in [Days -> {NoFigure} \cup Days \cup {Exported}]
      /\ \A d \in Days : figures'[d] = IF d \in first .. last /\ figures[d] = NoFigure
                                       THEN Exported ELSE figures[d]
      /\ UNCHANGED <<today, pull>> /\ leapt' = leapt \cup Neglected'
      /\ today \in Days
  BY DEF Seed, VisitorTypeOK
<1>2. Exported # NoFigure
  BY VisitorNumbers DEF Exported
<1>3. \A d \in Days : d \in Stored' <=> d \in Stored \/ d \in first .. last
  BY <1>1, <1>2 DEF Stored
<1>4. LastStored <= LastStored' /\ Stored' \subseteq Days
  BY <1>3, LastOnlyGrows DEF Stored
<1>5. VisitorTypeOK'
  <2>1. seeds' \in 0 .. MaxSeeds
    BY VisitorAssumption DEF VisitorTypeOK, Seed
  <2>2. leapt' \subseteq Days
    BY <1>1 DEF VisitorTypeOK, Neglected
  <2> QED
    BY <1>1, <2>1, <2>2 DEF VisitorTypeOK
<1>6. StoredHasBegun'
  BY <1>1, <1>3, <1>4, VisitorNumbers DEF StoredHasBegun
<1>7. LastStored \in Int /\ LastStored' \in Days \cup {NoFigure} /\ LastStored' <= today
  BY <1>1, <1>6, LastFacts, LastFactsNext, VisitorNumbers DEF StoredHasBegun, LastStored
<1>8. PullsInStep'
  <2>1. \A q \in Pullers : pull[q].last \in Int
    BY VisitorNumbers DEF VisitorTypeOK
  <2> QED
    BY <1>1, <1>4, <1>7, <2>1, VisitorNumbers DEF PullsInStep
<1>9. NoneLeftBehind'
  <2> SUFFICES ASSUME NEW d \in Days, NEW e \in Stored', ~ Final(d)',
                      e <= d, d <= LastStored' - MinLookback, d > today - MaxLookback
               PROVE  d \in leapt'
    BY <1>1 DEF NoneLeftBehind
  <2>1. Stored' # {} /\ LastStored' # NoFigure
    BY <1>4, LastFactsNext, VisitorNumbers
  <2>2. Since(today, LastStored') >= LastStored' - MinLookback + 1
        /\ Since(today, LastStored') \in -MaxLookback .. MaxDay
    BY <1>1, <1>7, <2>1, SinceFacts
  <2>3. d < Since(today, LastStored') /\ d <= today
    BY <1>1, <1>7, <2>1, <2>2, VisitorNumbers
  <2>4. Since(today, LastStored)' = Since(today, LastStored')
    BY <1>1 DEF Since, Lookback, Clamp
  <2>5. d \in Neglected'
    BY <1>1, <2>3, <2>4 DEF Neglected
  <2> QED
    BY <1>1, <2>5
<1> QED
  BY <1>5, <1>6, <1>8, <1>9

\* Midnight comes when no pull is older than the day that ends.
LEMMA NextDayKeeps ==
    ASSUME VisitorInv, NextDay
    PROVE  VisitorInv'
<1> USE DEF VisitorInv
<1>1. /\ UNCHANGED <<figures, pull, seeds, leapt>>
      /\ today \in Days /\ today' \in Days /\ today' = today + 1
      /\ \A p \in Pullers : pull[p].at = "fetched" => pull[p].until = today
  BY VisitorNumbers DEF NextDay, VisitorTypeOK, Days
<1>2. Stored' = Stored /\ LastStored' = LastStored /\ \A d \in Days : Final(d)' = Final(d)
  BY <1>1 DEF Stored, LastStored, Final
<1>3. VisitorTypeOK'
  BY <1>1 DEF VisitorTypeOK
<1>4. StoredHasBegun' /\ NoneLeftBehind'
  BY <1>1, <1>2, LastFacts, VisitorNumbers DEF StoredHasBegun, NoneLeftBehind
<1>5. PullsInStep'
  BY <1>1, <1>2, VisitorNumbers DEF PullsInStep, Since, Lookback, Clamp
<1> QED
  BY <1>3, <1>4, <1>5

\* Nothing changes when nothing moves.
LEMMA VisitorStutters ==
    ASSUME VisitorInv, UNCHANGED visitorVars
    PROVE  VisitorInv'
<1>1. UNCHANGED <<today, figures, pull, seeds, leapt>>
  BY DEF visitorVars
<1>2. Stored' = Stored /\ LastStored' = LastStored /\ \A d \in Days : Final(d)' = Final(d)
  BY <1>1 DEF Stored, LastStored, Final
<1> QED
  BY <1>1, <1>2 DEF VisitorInv, VisitorTypeOK, StoredHasBegun, NoneLeftBehind, PullsInStep,
                    Since, Lookback, Clamp

\* A day before the next pull's window is behind its reach.
LEMMA VisitorInvAsks == VisitorInv => StillAsked
<1> SUFFICES ASSUME VisitorInv, NEW d \in Neglected PROVE d \in leapt
  BY DEF VisitorInv, StillAsked
<1> USE DEF VisitorInv
<1>1. PICK e \in Stored : e <= d
  BY DEF Neglected
<1>2. d \in Days /\ ~ Final(d) /\ d > today - MaxLookback /\ d < Since(today, LastStored)
  BY DEF Neglected
<1>3. today \in Days /\ LastStored \in Days \cup {NoFigure} /\ LastStored <= today
  BY LastFacts, VisitorNumbers DEF StoredHasBegun, VisitorTypeOK, LastStored
<1>4. d <= LastStored - MinLookback
  BY <1>2, <1>3, SinceFacts, VisitorNumbers
<1> QED
  BY <1>1, <1>2, <1>4 DEF NoneLeftBehind

(***************************************************************************)
(* Whatever the lookbacks, the pulls in flight and the outages, a day that *)
(* is missing or still shifting is asked for again, unless a seed leapt    *)
(* over it (RunOnce, window, UpsertVisitorDaily, SeedVisitorDaily).        *)
(***************************************************************************)
THEOREM DaysStillAsked == VisitorSpec => []StillAsked
<1>1. VisitorInv /\ [VisitorNext]_visitorVars => VisitorInv'
  BY PullingKeeps, FiguresKeep, SeedKeeps, NextDayKeeps, VisitorStutters DEF VisitorNext
<1> QED
  BY VisitorInitInv, <1>1, VisitorInvAsks, PTL DEF VisitorSpec

-----------------------------------------------------------------------------
(* The bodies of a snapshot. *)

\* Keys found are those of requests, under which stands what their snapshot encoded.
Shelf(n) ==
    /\ bodies[n] = [k \in DOMAIN bodies[n] |-> bodies[n][k]]
    /\ IsFiniteSet(DOMAIN bodies[n]) /\ Cardinality(DOMAIN bodies[n]) <= MaxEntries
    /\ bytes[n] \in Int /\ bytes[n] <= MaxBytes
    /\ bytes[n] = SumFunction([k \in DOMAIN bodies[n] |-> SizeHeld(n, k)])
    /\ \A k \in DOMAIN bodies[n] :
          bodies[n][k] \in Bodies /\ bodies[n][k].of = n /\ Key(bodies[n][k].request) = k

Asking ==
    /\ current \in Snapshots
    /\ handler \in [Handlers -> {"idle", "asked", "encode", "put"}]
    /\ asks \in [Handlers -> BodyRequests] /\ of \in [Handlers -> Snapshots]
    /\ answer \in [Handlers -> Bodies \cup {NoBody}]
    /\ \A h \in Handlers : answer[h] \in {NoBody, Own(h)}

BodyInv ==
    /\ Asking
    /\ bodies = [n \in Snapshots |-> bodies[n]] /\ bytes = [n \in Snapshots |-> bytes[n]]
    /\ \A n \in Snapshots : Shelf(n)

LEMMA BodyInitInv == BodyInit => BodyInv
  <1> SUFFICES ASSUME BodyInit PROVE BodyInv  OBVIOUS
  <1>1. 1 \in Snapshots  BY BodyAssumption DEF Snapshots
  <1>2. (CHOOSE q \in BodyRequests : TRUE) \in BodyRequests  BY BodyAssumption
  <1>3. Asking  BY <1>1, <1>2 DEF BodyInit, Asking
  <1>4. ASSUME NEW n \in Snapshots PROVE Shelf(n)
    <2>1. bodies[n] = <<>> /\ bytes[n] = 0  BY DEF BodyInit
    <2>2. DOMAIN bodies[n] = {}  BY <2>1
    <2>3. IsFiniteSet({}) /\ Cardinality({}) = 0  BY FS_EmptySet
    <2>4. MaxEntries \in Nat /\ MaxBytes \in Nat  BY BodyAssumption
    <2>5. bodies[n] = [k \in DOMAIN bodies[n] |-> bodies[n][k]]  BY <2>1
    <2>6. PICK w : w = [k \in DOMAIN bodies[n] |-> SizeHeld(n, k)]  OBVIOUS
    <2>7. DOMAIN w = {}  BY <2>2, <2>6
    <2>8. SumFunction(w) = 0  BY <2>7, SumOfNone
    <2> QED  BY <2>1, <2>2, <2>3, <2>4, <2>5, <2>6, <2>8 DEF Shelf
  <1> QED  BY <1>3, <1>4 DEF BodyInit, BodyInv

\* A step that leaves every shelf as it was.
LEMMA ShelvesStay ==
    ASSUME BodyInv, UNCHANGED <<bodies, bytes>>
    PROVE  /\ bodies' = [n \in Snapshots |-> bodies'[n]] /\ bytes' = [n \in Snapshots |-> bytes'[n]]
           /\ \A n \in Snapshots : Shelf(n)'
  BY DEF BodyInv, Shelf, SizeHeld

\* What a request encodes is a body of its own snapshot.
LEMMA OwnIsABody ==
    ASSUME Asking, NEW h \in Handlers
    PROVE  /\ Own(h) \in Bodies /\ Own(h).of = of[h] /\ Own(h).request = asks[h]
           /\ SizeOf[asks[h]] \in Nat
  BY BodyAssumption DEF Asking, Own, Bodies

\* Two bodies of one snapshot under one key are one body.
LEMMA OneBodyPerKey ==
    ASSUME NEW a \in Bodies, NEW b \in Bodies, a.of = b.of, Key(a.request) = Key(b.request)
    PROVE  a = b
  <1>1. a.request \in BodyRequests /\ b.request \in BodyRequests  BY DEF Bodies
  <1>2. a.request = b.request  BY <1>1, BodyAssumption DEF Key
  <1> QED  BY <1>2 DEF Bodies

\* The shelf a body is put on: it had room, or is cleared, and the rest stands still.
LEMMA PutKeepsShelves ==
    ASSUME BodyInv, NEW h \in Handlers, Put(h)
    PROVE  /\ bodies' = [n \in Snapshots |-> bodies'[n]] /\ bytes' = [n \in Snapshots |-> bytes'[n]]
           /\ \A n \in Snapshots : Shelf(n)'
  <1> DEFINE m == of[h]
             k == Key(asks[h])
             size == SizeOf[asks[h]]
             held == Existing(m, k)
             cleared == Cardinality(DOMAIN bodies[m]) >= MaxEntries \/ bytes[m] - held + size > MaxBytes
             kept == IF cleared THEN {} ELSE DOMAIN bodies[m]
             put == [j \in kept \cup {k} |-> IF j = k THEN Own(h) ELSE bodies[m][j]]
             count == BytesAfter(m, size, held, cleared)
  <1>1. CASE UNCHANGED <<bodies, bytes>>  BY <1>1, ShelvesStay
  <1>2. CASE /\ size <= MaxBytes
             /\ bodies' = [bodies EXCEPT ![m] = put] /\ bytes' = [bytes EXCEPT ![m] = count]
    <2>1. m \in Snapshots /\ Shelf(m) /\ Asking /\ asks[h] \in BodyRequests
      BY DEF BodyInv, Asking
    <2>2. /\ bodies'[m] = put /\ bytes'[m] = count
          /\ bodies' = [n \in Snapshots |-> bodies'[n]] /\ bytes' = [n \in Snapshots |-> bytes'[n]]
          /\ \A n \in Snapshots \ {m} : bodies'[n] = bodies[n] /\ bytes'[n] = bytes[n]
      BY <1>2, <2>1 DEF BodyInv
    <2>3. MaxEntries \in Nat /\ MaxEntries >= 1 /\ MaxBytes \in Nat  BY BodyAssumption
    <2>4. size \in Nat  BY <2>1, OwnIsABody
    <2>5. held \in Int
      <3>1. CASE k \in DOMAIN bodies[m]
        <4>1. bodies[m][k].request \in BodyRequests  BY <2>1, <3>1 DEF Shelf, Bodies
        <4>2. SizeOf[bodies[m][k].request] \in Nat  BY <4>1, BodyAssumption
        <4> QED  BY <3>1, <4>2 DEF Existing, SizeHeld
      <3>2. CASE k \notin DOMAIN bodies[m]  BY <3>2 DEF Existing, SizeHeld
      <3> QED  BY <3>1, <3>2
    <2>6. bytes[m] \in Int /\ bytes[m] <= MaxBytes  BY <2>1 DEF Shelf
    <2>7. count = IF cleared THEN size ELSE bytes[m] + size - held  BY DEF BytesAfter
    <2>8. count \in Int /\ count <= MaxBytes
      <3>1. ~cleared => ~(bytes[m] - held + size > MaxBytes)  OBVIOUS
      <3> HIDE DEF held, size, cleared, m, count
      <3> QED  BY <1>2, <2>3, <2>4, <2>5, <2>6, <2>7, <3>1
    <2>9. IsFiniteSet(kept \cup {k}) /\ Cardinality(kept \cup {k}) <= MaxEntries
      <3>1. CASE cleared
        <4>1. kept \cup {k} = {k}  BY <3>1
        <4>2. IsFiniteSet({k}) /\ Cardinality({k}) = 1  BY FS_Singleton
        <4> HIDE DEF kept, k
        <4> QED  BY <4>1, <4>2, <2>3
      <3>2. CASE ~cleared
        <4>1. /\ kept = DOMAIN bodies[m] /\ IsFiniteSet(kept)
              /\ ~(Cardinality(kept) >= MaxEntries)
          BY <3>2, <2>1 DEF Shelf
        <4> HIDE DEF kept, k
        <4>2. /\ Cardinality(kept) \in Nat /\ IsFiniteSet(kept \cup {k})
              /\ Cardinality(kept \cup {k})
                   = IF k \in kept THEN Cardinality(kept) ELSE Cardinality(kept) + 1
          BY <4>1, FS_AddElement, FS_CardinalityType
        <4> QED  BY <4>1, <4>2, <2>3
      <3> QED  BY <3>1, <3>2
    <2>10. ASSUME NEW j \in kept \cup {k}
           PROVE  put[j] \in Bodies /\ put[j].of = m /\ Key(put[j].request) = j
      <3>1. CASE j = k
        <4>1. put[j] = Own(h)  BY <3>1
        <4> HIDE DEF put
        <4> QED  BY <3>1, <4>1, <2>1, OwnIsABody
      <3>2. CASE j # k
        <4>1. put[j] = bodies[m][j] /\ j \in DOMAIN bodies[m]  BY <3>2
        <4> HIDE DEF put
        <4> QED  BY <4>1, <2>1 DEF Shelf
      <3> QED  BY <3>1, <3>2
    <2>11. DOMAIN put = kept \cup {k} /\ put = [j \in DOMAIN put |-> put[j]]  OBVIOUS
    <2>14. count = SumFunction([j \in DOMAIN put |-> SizeOf[put[j].request]])
      <3>1. PICK D, w : D = DOMAIN bodies[m] /\ w = [j \in D |-> SizeHeld(m, j)]
        OBVIOUS
      <3>2. PICK u : u = [j \in DOMAIN put |-> SizeOf[put[j].request]]
        OBVIOUS
      <3>3. IsFiniteSet(D) /\ bytes[m] = SumFunction(w) /\ DOMAIN w = D
        BY <2>1, <3>1 DEF Shelf
      <3>4. ASSUME NEW j \in D
            PROVE  w[j] = SizeOf[bodies[m][j].request] /\ w[j] \in Int
        <4>1. w[j] = SizeOf[bodies[m][j].request]
          BY <3>1 DEF SizeHeld
        <4>2. bodies[m][j].request \in BodyRequests
          BY <2>1, <3>1 DEF Shelf, Bodies
        <4> QED  BY <4>1, <4>2, BodyAssumption
      <3>5. Own(h).request = asks[h]
        BY <2>1, OwnIsABody
      <3>6. put[k] = Own(h) /\ \A j \in kept \ {k} : put[j] = bodies[m][j]
        OBVIOUS
      <3>7. held = IF k \in D THEN w[k] ELSE 0
        BY <3>1 DEF Existing, SizeHeld
      <3>8. CASE cleared
        <4>1. kept \cup {k} = {k} /\ count = size
          BY <2>7, <3>8
        <4>2. u = [j \in {k} |-> size]
          <5>1. DOMAIN put = {k}
            BY <4>1
          <5> HIDE DEF put, kept, k
          <5> QED  BY <3>2, <3>5, <3>6, <5>1
        <4>3. PICK kk, v : kk = k /\ v = size
          OBVIOUS
        <4>4. SumFunction(u) = v
          <5>1. v \in Int /\ DOMAIN u = {kk} /\ u[kk] = v
            BY <2>4, <4>2, <4>3
          <5> QED  BY <5>1, SumOfOne
        <4> HIDE DEF put, count, size
        <4> QED  BY <3>2, <4>1, <4>3, <4>4
      <3>9. CASE ~cleared
        <4>1. kept = D /\ count = bytes[m] + size - held
          BY <2>7, <3>1, <3>9
        <4>2. u = [j \in D \cup {k} |-> IF j = k THEN size ELSE w[j]]
          <5>1. DOMAIN put = D \cup {k}
            BY <4>1
          <5>2. \A j \in D \cup {k} : j # k => put[j] = bodies[m][j] /\ j \in D
            BY <3>6, <4>1
          <5> HIDE DEF put, kept, k
          <5>3. \A j \in D \cup {k} :
                   SizeOf[put[j].request] = IF j = k THEN size ELSE w[j]
            BY <3>4, <3>5, <3>6, <5>2
          <5> QED  BY <3>2, <5>1, <5>3
        <4>3. PICK kk, v : kk = k /\ v = size
          OBVIOUS
        <4>4. SumFunction(u) = SumFunction(w) - (IF kk \in D THEN w[kk] ELSE 0) + v
          <5>1. /\ v \in Int /\ DOMAIN u = D \cup {kk} /\ u[kk] = v
                /\ \A j \in D \ {kk} : u[j] = w[j]
            BY <2>4, <4>2, <4>3
          <5>2. \A j \in D : w[j] \in Int
            BY <3>4
          <5>3. Puts(u, w, D, kk, v)
            BY <3>3, <5>1, <5>2 DEF Puts
          <5> QED  BY <5>3, SumPut
        <4> HIDE DEF put, count, size, held, k, m
        <4> QED  BY <2>4, <2>5, <2>6, <3>2, <3>3, <3>7, <4>1, <4>3, <4>4
      <3> QED  BY <3>8, <3>9
    <2>12. ASSUME NEW n \in Snapshots, n = m PROVE Shelf(n)'
      <3> HIDE DEF put, kept, k, count
      <3>1. /\ put = [j \in DOMAIN put |-> put[j]]
            /\ IsFiniteSet(DOMAIN put) /\ Cardinality(DOMAIN put) <= MaxEntries
            /\ \A j \in DOMAIN put :
                  put[j] \in Bodies /\ put[j].of = m /\ Key(put[j].request) = j
        BY <2>9, <2>10, <2>11
      <3>2. bodies'[n] = put /\ bytes'[n] = count  BY <2>2, <2>12
      <3>3. [j \in DOMAIN bodies'[n] |-> SizeHeld(n, j)'] = [j \in DOMAIN put |-> SizeOf[put[j].request]]
        BY <3>2 DEF SizeHeld
      <3> QED  BY <2>8, <2>12, <2>14, <3>1, <3>2, <3>3 DEF Shelf
    <2>13. ASSUME NEW n \in Snapshots \ {m} PROVE Shelf(n)'
      BY <2>2 DEF BodyInv, Shelf, SizeHeld
    <2> QED  BY <2>2, <2>12, <2>13
  <1>3. \/ UNCHANGED <<bodies, bytes>>
        \/ /\ size <= MaxBytes
           /\ bodies' = [bodies EXCEPT ![m] = put] /\ bytes' = [bytes EXCEPT ![m] = count]
    BY DEF Put
  <1> HIDE DEF size, put, count
  <1> QED  BY <1>1, <1>2, <1>3

LEMMA BodyNextInv ==
    ASSUME BodyInv, [BodyNext]_cacheVars
    PROVE  BodyInv'
  <1>1. Asking /\ MaxSnapshots \in Nat  BY BodyAssumption DEF BodyInv
  <1>2. CASE Publish
    <2>1. current' \in Snapshots  BY <1>1, <1>2 DEF Publish, Asking, Snapshots
    <2> QED  BY <1>1, <1>2, <2>1, ShelvesStay DEF Publish, Asking, Own, BodyInv
  <1>3. ASSUME NEW h \in Handlers, NEW q \in BodyRequests, AskBody(h, q) PROVE BodyInv'
    <2>1. Asking'  BY <1>1, <1>3 DEF AskBody, Asking, Own
    <2> QED  BY <1>3, <2>1, ShelvesStay DEF AskBody, BodyInv
  <1>4. ASSUME NEW h \in Handlers, Get(h) PROVE BodyInv'
    <2>1. UNCHANGED <<current, bodies, bytes, asks, of>>  BY <1>4 DEF Get
    <2>2. CASE Given(h, Own(h)) /\ handler' = [handler EXCEPT ![h] = "idle"]
      BY <1>1, <2>1, <2>2, ShelvesStay, OwnIsABody DEF Given, Asking, Own, BodyInv
    <2>3. CASE /\ Key(asks[h]) \in DOMAIN bodies[of[h]]
               /\ Given(h, bodies[of[h]][Key(asks[h])])
               /\ handler' = [handler EXCEPT ![h] = "idle"]
      <3> DEFINE body == bodies[of[h]][Key(asks[h])]
      <3>1. of[h] \in Snapshots /\ Shelf(of[h])  BY <1>1 DEF BodyInv, Asking
      <3>2. body \in Bodies /\ body.of = of[h] /\ Key(body.request) = Key(asks[h])
        BY <2>3, <3>1 DEF Shelf
      <3>3. body = Own(h)  BY <1>1, <3>2, OwnIsABody, OneBodyPerKey
      <3> QED  BY <1>1, <2>1, <2>3, <3>3, ShelvesStay, OwnIsABody
               DEF Given, Asking, Own, BodyInv
    <2>4. CASE handler' = [handler EXCEPT ![h] = "encode"] /\ UNCHANGED answer
      BY <1>1, <2>1, <2>4, ShelvesStay DEF Asking, Own, BodyInv
    <2> QED  BY <1>4, <2>2, <2>3, <2>4 DEF Get
  <1>5. ASSUME NEW h \in Handlers, Encode(h) PROVE BodyInv'
    BY <1>1, <1>5, ShelvesStay DEF Encode, Asking, Own, BodyInv
  <1>6. ASSUME NEW h \in Handlers, Put(h) PROVE BodyInv'
    <2>1. /\ UNCHANGED <<current, asks, of>> /\ Given(h, Own(h))
          /\ handler' = [handler EXCEPT ![h] = "idle"]
      BY <1>6 DEF Put
    <2>2. Asking'  BY <1>1, <2>1, OwnIsABody DEF Given, Asking, Own
    <2> QED  BY <1>6, <2>2, PutKeepsShelves DEF BodyInv
  <1>7. CASE UNCHANGED cacheVars
    BY <1>1, <1>7, ShelvesStay DEF cacheVars, Asking, Own, BodyInv
  <1> QED  BY <1>2, <1>3, <1>4, <1>5, <1>6, <1>7 DEF BodyNext

\* The bodies of a snapshot: for any bounds and any number of requests and snapshots,
\* neither bound is ever passed, the count kept on every path through put is the sum of
\* what is held, and what a request is given is what its own snapshot would have
\* encoded for it.
THEOREM BodiesAlwaysOwn == BodySpec => [](BodyTypeOK /\ BodiesHold)
  <1>1. BodyInv => BodyTypeOK /\ BodiesHold
    BY DEF BodyInv, Asking, Shelf, BodyTypeOK, BodiesHold, CacheKeepsBounds, BytesAreCounted,
           AnswersAreOwn
  <1> QED  BY BodyInitInv, BodyNextInv, <1>1, PTL DEF BodySpec

-----------------------------------------------------------------------------
(* One observation. *)

Rows == [at : 0 .. MaxTime, value : Measurements]
Histories == [order : Seq(Probes), window : [Probes -> Seq(Rows)]]

\* Each device once in the order, no more of them than the cap.
OrderHolds(h) ==
    /\ h \in Histories /\ Len(h.order) <= TrackedMax
    /\ \A i, j \in DOMAIN h.order : h.order[i] = h.order[j] => i = j

\* And those are the devices that have a window.
Bounded(h) ==
    /\ OrderHolds(h)
    /\ \A s \in Probes : /\ h.window[s] # <<>> <=> s \in Tracked(h)
                         /\ Len(h.window[s]) <= Depth

\* A device has one observation of an instant.
Once(rows) == \A q, r \in rows : q.at = r.at => q = r

\* A window holds the newest rows, oldest first.
Newest(window, rows) ==
    /\ \A i \in DOMAIN window : window[i] \in rows
    /\ \A i, j \in DOMAIN window : i <= j => window[i].at <= window[j].at
    /\ \A r \in rows : \/ \E i \in DOMAIN window : window[i] = r
                       \/ \A i \in DOMAIN window : r.at < window[i].at

\* Nothing of rows is newer than o.
NewerThan(o, rows) == \A r \in rows : r.at < o.at \/ r = o

LEMMA NewestGrows ==
  ASSUME NEW w \in Seq(Rows), NEW rows \in SUBSET Rows, NEW o \in Rows,
         Newest(w, rows), NewerThan(o, rows)
  PROVE  Newest(Append(w, o), rows \cup {o})
<1>1. PICK a : a = Append(w, o)
  OBVIOUS
<1>2. /\ DOMAIN w = 1 .. Len(w) /\ Len(w) \in Nat /\ DOMAIN a = 1 .. Len(w) + 1
      /\ \A i \in 1 .. Len(w) : a[i] = w[i]
      /\ a[Len(w) + 1] = o
  BY <1>1
<1>3. \A r \in Rows : r.at \in Int
  BY DEF Rows
<1>4. \A i \in DOMAIN a : a[i] \in rows \cup {o}
  BY <1>2 DEF Newest
<1>5. ASSUME NEW i \in DOMAIN a, NEW j \in DOMAIN a, i <= j
      PROVE  a[i].at <= a[j].at
  <2>1. CASE j = Len(w) + 1
    <3>1. a[i] \in rows \cup {o} /\ a[j] = o
      BY <1>2, <1>4, <2>1
    <3>2. a[i].at \in Int /\ o.at \in Int
      BY <1>3, <3>1
    <3> QED  BY <3>1, <3>2 DEF NewerThan
  <2>2. CASE j # Len(w) + 1
    <3>1. i \in 1 .. Len(w) /\ j \in 1 .. Len(w)
      BY <1>2, <1>5, <2>2
    <3> QED  BY <1>2, <1>5, <3>1 DEF Newest
  <2> QED  BY <2>1, <2>2
<1>6. ASSUME NEW r \in rows \cup {o}, \A i \in DOMAIN a : a[i] # r
      PROVE  \A i \in DOMAIN a : r.at < a[i].at
  <2>1. r \in rows /\ r # o
    BY <1>2, <1>6
  <2>2. \A i \in DOMAIN w : w[i] # r
    BY <1>2, <1>6
  <2>3. \A i \in DOMAIN w : r.at < w[i].at
    BY <2>1, <2>2 DEF Newest
  <2>4. r.at < o.at
    BY <2>1 DEF NewerThan
  <2> QED  BY <1>2, <2>3, <2>4
<1> QED  BY <1>1, <1>4, <1>5, <1>6 DEF Newest

LEMMA NewestShrinks ==
  ASSUME NEW a \in Seq(Rows), a # <<>>, NEW rows \in SUBSET Rows, Once(rows), Newest(a, rows)
  PROVE  Newest(Tail(a), rows)
<1>1. PICK w : w = Tail(a)
  OBVIOUS
<1>2. /\ DOMAIN a = 1 .. Len(a) /\ Len(a) \in Nat /\ Len(a) # 0 /\ DOMAIN w = 1 .. Len(a) - 1
      /\ \A i \in 1 .. Len(a) - 1 : w[i] = a[i + 1] /\ i + 1 \in 1 .. Len(a)
  BY <1>1
<1>3. \A r \in Rows : r.at \in Int
  BY DEF Rows
<1>4. \A i \in DOMAIN w : w[i] \in rows
  BY <1>2 DEF Newest
<1>5. ASSUME NEW i \in DOMAIN w, NEW j \in DOMAIN w, i <= j
      PROVE  w[i].at <= w[j].at
  <2>1. i + 1 <= j + 1 /\ w[i] = a[i + 1] /\ w[j] = a[j + 1] /\ i + 1 \in DOMAIN a /\ j + 1 \in DOMAIN a
    BY <1>2, <1>5
  <2> QED  BY <2>1 DEF Newest
<1>6. ASSUME NEW r \in rows, \A i \in DOMAIN w : w[i] # r
      PROVE  \A i \in DOMAIN w : r.at < w[i].at
  <2>1. CASE \E i \in DOMAIN a : a[i] = r
    <3>1. PICK i \in DOMAIN a : a[i] = r
      BY <2>1
    <3>2. i = 1
      <4>1. CASE i # 1
        <5>1. i - 1 \in 1 .. Len(a) - 1 /\ (i - 1) + 1 = i
          BY <1>2, <4>1
        <5>2. w[i - 1] = r
          BY <1>2, <3>1, <5>1
        <5> QED  BY <1>2, <1>6, <5>1, <5>2
      <4> QED  BY <4>1
    <3>3. ASSUME NEW j \in DOMAIN w PROVE r.at < w[j].at
      <4>1. w[j] = a[j + 1] /\ 1 <= j + 1 /\ j + 1 \in DOMAIN a /\ 1 \in DOMAIN a
        BY <1>2
      <4>2. r.at <= w[j].at
        BY <3>1, <3>2, <4>1 DEF Newest
      <4>3. r.at # w[j].at
        BY <1>4, <1>6 DEF Once
      <4>4. r.at \in Int /\ w[j].at \in Int
        BY <1>3, <1>4
      <4> QED  BY <4>2, <4>3, <4>4
    <3> QED  BY <3>3
  <2>2. CASE \A i \in DOMAIN a : r.at < a[i].at
    BY <1>2, <2>2
  <2> QED  BY <2>1, <2>2 DEF Newest
<1> QED  BY <1>1, <1>4, <1>5, <1>6 DEF Newest

\* A window that takes one more observation.
LEMMA TrimKeeps ==
  ASSUME NEW w \in Seq(Rows), Len(w) <= Depth, NEW o \in Rows
  PROVE  /\ Trim(Append(w, o)) \in Seq(Rows) /\ Trim(Append(w, o)) # <<>>
         /\ Len(Trim(Append(w, o))) <= Depth
         /\ \A rows \in SUBSET Rows :
               Newest(w, rows) /\ Once(rows) /\ NewerThan(o, rows)
                  => Newest(Trim(Append(w, o)), rows \cup {o})
<1>1. PICK a : a = Append(w, o)
  OBVIOUS
<1>2. a \in Seq(Rows) /\ Len(a) = Len(w) + 1 /\ Len(w) \in Nat /\ Depth \in Nat /\ Depth >= 1
  BY <1>1, HistoryAssumption
<1>3. ASSUME NEW rows \in SUBSET Rows, Newest(w, rows), Once(rows), NewerThan(o, rows)
      PROVE  Newest(Trim(a), rows \cup {o})
  <2>1. Newest(a, rows \cup {o})
    BY <1>1, <1>3, NewestGrows
  <2>2. Once(rows \cup {o})
    <3>1. \A r \in Rows : r.at \in Int
      BY DEF Rows
    <3> QED  BY <1>3, <3>1 DEF Once, NewerThan
  <2>3. a # <<>>
    BY <1>2
  <2>4. Newest(Tail(a), rows \cup {o})
    BY <1>2, <2>1, <2>2, <2>3, NewestShrinks
  <2> QED  BY <2>1, <2>4 DEF Trim
<1>4. Trim(a) \in Seq(Rows) /\ Trim(a) # <<>> /\ Len(Trim(a)) <= Depth
  <2>1. CASE Len(a) > Depth
    <3>1. a # <<>> /\ Tail(a) \in Seq(Rows) /\ Len(Tail(a)) = Len(w)
      BY <1>2
    <3>2. Len(w) >= 1
      BY <1>2, <2>1
    <3>3. Tail(a) # <<>>
      BY <3>1, <3>2
    <3> QED  BY <2>1, <3>1, <3>3 DEF Trim
  <2>2. CASE ~(Len(a) > Depth)
    BY <1>2, <2>2 DEF Trim
  <2> QED  BY <2>1, <2>2
<1> QED  BY <1>1, <1>3, <1>4

\* What a device's first observation does to the others: the oldest may go, whole.
SeenShape(g, h, s) ==
    /\ OrderHolds(g) /\ s \in Tracked(g) /\ g.window[s] = h.window[s]
    /\ \A t \in Probes : /\ g.window[t] \in {h.window[t], <<>>}
                         /\ t # s => (g.window[t] # <<>> <=> t \in Tracked(g))

LEMMA EvictionShape ==
  ASSUME NEW h, Bounded(h), NEW s \in Probes, s \notin Tracked(h), Len(h.order) = TrackedMax
  PROVE  SeenShape(Evicted([h EXCEPT !.order = Append(@, s)]), h, s)
<1>1. PICK q, n : q = h.order /\ n = Len(h.order)
  OBVIOUS
<1>2. /\ q \in Seq(Probes) /\ n \in Nat /\ n >= 1 /\ n = Len(q) /\ DOMAIN q = 1 .. n
      /\ h.window \in [Probes -> Seq(Rows)]
      /\ \A i \in 1 .. n : q[i] \in Probes
  BY <1>1, HistoryAssumption DEF Bounded, OrderHolds, Histories
<1>3. PICK a : a = Append(q, s)
  OBVIOUS
<1>4. PICK w : w = Tail(a)
  OBVIOUS
<1>5. /\ a \in Seq(Probes) /\ Len(a) = n + 1 /\ a # <<>> /\ Head(a) = q[1]
      /\ w \in Seq(Probes) /\ Len(w) = n /\ DOMAIN w = 1 .. n
      /\ \A i \in 1 .. n : w[i] = IF i = n THEN s ELSE q[i + 1]
  BY <1>2, <1>3, <1>4
<1>6. PICK v : v = [h.window EXCEPT ![q[1]] = <<>>]
  OBVIOUS
<1>7. PICK g : g = [order |-> w, window |-> v]
  OBVIOUS
<1>8. PICK u : u = h.window
  OBVIOUS
<1>9. Evicted([h EXCEPT !.order = Append(@, s)]) = g
  <2>1. h = [order |-> q, window |-> u]
    BY <1>1, <1>8 DEF Bounded, OrderHolds, Histories
  <2>2. PICK longer : longer = [h EXCEPT !.order = Append(@, s)]
    OBVIOUS
  <2>3. longer = [order |-> a, window |-> u]
    BY <1>3, <2>1, <2>2
  <2>4. Evicted(longer) = [longer EXCEPT !.order = Tail(longer.order), !.window[Head(longer.order)] = <<>>]
    BY DEF Evicted
  <2>5. longer.order = a /\ longer.window = u /\ Tail(a) = w /\ Head(a) = q[1]
    BY <1>4, <1>5, <2>3
  <2>6. Evicted(longer) = [longer EXCEPT !.order = w, !.window[q[1]] = <<>>]
    BY <2>4, <2>5
  <2>7. Evicted(longer) = [order |-> w, window |-> [u EXCEPT ![q[1]] = <<>>]]
    BY <2>3, <2>6
  <2> QED  BY <1>6, <1>7, <1>8, <2>2, <2>7
<1>10. /\ v \in [Probes -> Seq(Rows)] /\ v[q[1]] = <<>>
       /\ \A t \in Probes \ {q[1]} : v[t] = h.window[t]
  BY <1>2, <1>6
<1>11. \A t \in Probes : t \in Tracked(h) <=> \E i \in 1 .. n : q[i] = t
  BY <1>1, <1>2 DEF Tracked
<1>12. \A t \in Probes : t \in Tracked(g) <=> \E i \in 1 .. n : w[i] = t
  BY <1>5, <1>7 DEF Tracked
<1>13. \A i, j \in 1 .. n : q[i] = q[j] => i = j
  BY <1>1, <1>2 DEF Bounded, OrderHolds
<1>14. \A i \in 1 .. n : q[i] # s
  BY <1>11
<1>15. \A i, j \in 1 .. n : w[i] = w[j] => i = j
  <2> SUFFICES ASSUME NEW i \in 1 .. n, NEW j \in 1 .. n, w[i] = w[j] PROVE i = j
    OBVIOUS
  <2>1. i # n => i + 1 \in 1 .. n /\ w[i] = q[i + 1]
    BY <1>2, <1>5
  <2>2. j # n => j + 1 \in 1 .. n /\ w[j] = q[j + 1]
    BY <1>2, <1>5
  <2>3. CASE i # n /\ j # n
    <3>1. i + 1 = j + 1
      BY <1>13, <2>1, <2>2, <2>3
    <3> QED  BY <3>1
  <2>4. CASE i = n /\ j # n
    BY <1>2, <1>5, <1>14, <2>2, <2>4
  <2>5. CASE i # n /\ j = n
    BY <1>2, <1>5, <1>14, <2>1, <2>5
  <2> QED  BY <2>3, <2>4, <2>5
<1>16. OrderHolds(g)
  <2>1. g.order = w /\ g.window = v /\ g \in Histories
    BY <1>5, <1>7, <1>10 DEF Histories
  <2>2. n <= TrackedMax
    BY <1>1, HistoryAssumption
  <2> QED  BY <1>5, <1>15, <2>1, <2>2 DEF OrderHolds
<1>17. s \in Tracked(g) /\ q[1] # s /\ q[1] \in Probes
  <2>1. n \in 1 .. n /\ 1 \in 1 .. n
    BY <1>2
  <2> QED  BY <1>2, <1>5, <1>12, <1>14, <2>1
<1>18. ASSUME NEW t \in Probes, t # s
       PROVE  v[t] # <<>> <=> t \in Tracked(g)
  <2>1. CASE t = q[1]
    <3>1. ASSUME NEW i \in 1 .. n PROVE w[i] # t
      <4>1. CASE i = n
        BY <1>5, <1>18, <4>1
      <4>2. CASE i # n
        <5>1. i + 1 \in 1 .. n /\ 1 \in 1 .. n /\ i + 1 # 1
          BY <1>2, <4>2
        <5>2. w[i] = q[i + 1]
          BY <1>5, <4>2
        <5> QED  BY <1>13, <2>1, <5>1, <5>2
      <4> QED  BY <4>1, <4>2
    <3> QED  BY <1>10, <1>12, <2>1, <3>1
  <2>2. CASE t # q[1]
    <3>1. v[t] # <<>> <=> t \in Tracked(h)
      BY <1>10, <2>2 DEF Bounded
    <3>2. t \in Tracked(h) => t \in Tracked(g)
      <4>1. ASSUME NEW i \in 1 .. n, q[i] = t PROVE \E j \in 1 .. n : w[j] = t
        <5>1. i # 1
          BY <2>2, <4>1
        <5>2. i - 1 \in 1 .. n /\ i - 1 # n /\ (i - 1) + 1 = i
          BY <1>2, <5>1
        <5>3. w[i - 1] = q[(i - 1) + 1]
          BY <1>5, <5>2
        <5>4. w[i - 1] = t
          BY <4>1, <5>2, <5>3
        <5> QED  BY <5>2, <5>4
      <4> QED  BY <1>11, <1>12, <4>1
    <3>3. t \in Tracked(g) => t \in Tracked(h)
      <4>1. ASSUME NEW i \in 1 .. n, w[i] = t PROVE \E j \in 1 .. n : q[j] = t
        <5>1. i # n
          BY <1>5, <1>18, <4>1
        <5>2. i + 1 \in 1 .. n
          BY <1>2, <5>1
        <5>3. q[i + 1] = t
          BY <1>5, <4>1, <5>1
        <5> QED  BY <5>2, <5>3
      <4> QED  BY <1>11, <1>12, <4>1
    <3> QED  BY <3>1, <3>2, <3>3
  <2> QED  BY <2>1, <2>2
<1>19. \A t \in Probes : g.window[t] \in {h.window[t], <<>>}
  BY <1>7, <1>10
<1>20. g.window[s] = h.window[s]
  BY <1>7, <1>10, <1>17
<1> QED  BY SMTT(60), <1>7, <1>9, <1>16, <1>17, <1>18, <1>19, <1>20 DEF SeenShape

LEMMA SeenKeeps ==
  ASSUME NEW h, Bounded(h), NEW s \in Probes
  PROVE  SeenShape(Seen(h, s), h, s)
<1> DEFINE longer == [h EXCEPT !.order = Append(@, s)]
<1>1. h \in Histories /\ Len(h.order) \in Nat /\ TrackedMax \in Nat /\ Len(h.order) <= TrackedMax
  BY HistoryAssumption DEF Bounded, OrderHolds, Histories
<1>2. longer.order = Append(h.order, s) /\ longer.window = h.window /\ longer \in Histories
      /\ Len(longer.order) = Len(h.order) + 1
  <2>1. PICK q, u : h = [order |-> q, window |-> u] /\ q \in Seq(Probes) /\ u \in [Probes -> Seq(Rows)]
    BY <1>1 DEF Histories
  <2>4. h = [order |-> q, window |-> u]
    BY <2>1
  <2>5. PICK a : a = Append(q, s)
    OBVIOUS
  <2>6. PICK l : l = [h EXCEPT !.order = a]
    OBVIOUS
  <2>7. l = [order |-> a, window |-> u]
    BY <2>4, <2>6
  <2>2. longer = [order |-> Append(q, s), window |-> u]
    BY <2>4, <2>5, <2>6, <2>7
  <2>3. h.order = q /\ h.window = u /\ Append(q, s) \in Seq(Probes) /\ Len(Append(q, s)) = Len(q) + 1
    BY <2>1
  <2> HIDE DEF longer
  <2> QED  BY <2>1, <2>2, <2>3 DEF Histories
<1>3. CASE s \in Tracked(h)
  BY <1>3 DEF Seen, SeenShape, Bounded
<1>4. CASE s \notin Tracked(h) /\ Len(longer.order) > TrackedMax
  <2>1. Len(h.order) = TrackedMax
    BY <1>1, <1>2, <1>4
  <2> QED  BY <1>4, <2>1, EvictionShape DEF Seen
<1>5. CASE s \notin Tracked(h) /\ ~(Len(longer.order) > TrackedMax)
  <2>1. PICK g : g = longer
    OBVIOUS
  <2>2. PICK q, a, n : q = h.order /\ a = Append(q, s) /\ n = Len(q)
    OBVIOUS
  <2>3. /\ q \in Seq(Probes) /\ n \in Nat /\ DOMAIN q = 1 .. n /\ DOMAIN a = 1 .. n + 1
        /\ \A i \in 1 .. n : a[i] = q[i] /\ q[i] # s
        /\ a[n + 1] = s
    BY <1>1, <1>5, <2>2 DEF Histories, Tracked
  <2>4. \A i, j \in DOMAIN a : a[i] = a[j] => i = j
    <3>1. \A i, j \in 1 .. n : q[i] = q[j] => i = j
      BY <2>2, <2>3 DEF Bounded, OrderHolds
    <3>2. \A i \in DOMAIN a : i = n + 1 \/ i \in 1 .. n
      BY <2>3
    <3> QED  BY <2>3, <3>1, <3>2
  <2>5. OrderHolds(g)
    BY <1>1, <1>2, <1>5, <2>1, <2>2, <2>4 DEF OrderHolds
  <2>6. \A t \in Probes : t \in Tracked(g) <=> t = s \/ t \in Tracked(h)
    <3>1. g.order = a /\ h.order = q
      BY <1>2, <2>1, <2>2
    <3>2. ASSUME NEW t \in Probes
          PROVE  (\E i \in 1 .. n + 1 : a[i] = t) <=> t = s \/ \E i \in 1 .. n : q[i] = t
      <4>1. 1 .. n + 1 = (1 .. n) \cup {n + 1}
        BY <2>3
      <4> QED  BY <2>3, <4>1
    <3> QED  BY <2>3, <3>1, <3>2 DEF Tracked
  <2>7. Seen(h, s) = g
    BY <1>5, <2>1 DEF Seen
  <2>8. g.window = h.window
    BY <1>2, <2>1
  <2>9. \A t \in Probes : t # s => (h.window[t] # <<>> <=> t \in Tracked(g))
    BY <2>6 DEF Bounded
  <2> QED  BY <2>5, <2>6, <2>7, <2>8, <2>9 DEF SeenShape
<1> QED  BY <1>3, <1>4, <1>5

\* What an observation does to the window of its device and to the others.
LEMMA ObserveKeeps ==
  ASSUME NEW h, Bounded(h), NEW s \in Probes, NEW o \in Rows
  PROVE  /\ Bounded(Observe(h, s, o))
         /\ Observe(h, s, o).window[s] = Trim(Append(h.window[s], o))
         /\ \A t \in Probes \ {s} : Observe(h, s, o).window[t] \in {h.window[t], <<>>}
<1>1. PICK g : g = Seen(h, s)
  OBVIOUS
<1>2. SeenShape(g, h, s)
  BY <1>1, SeenKeeps
<1>3. PICK w : w = Trim(Append(h.window[s], o))
  OBVIOUS
<1>4. w \in Seq(Rows) /\ w # <<>> /\ Len(w) <= Depth
  <2>1. h.window[s] \in Seq(Rows) /\ Len(h.window[s]) <= Depth
    BY DEF Bounded, OrderHolds, Histories
  <2>2. PICK old : old = h.window[s]
    OBVIOUS
  <2> QED  BY <1>3, <2>1, <2>2, TrimKeeps
<1>5. PICK f : f = [g.window EXCEPT ![s] = w]
  OBVIOUS
<1>6. g \in Histories /\ g = [order |-> g.order, window |-> g.window]
  BY <1>2 DEF SeenShape, OrderHolds, Histories
<1>7. PICK k : k = [order |-> g.order, window |-> f]
  OBVIOUS
<1>8. Observe(h, s, o) = k
  <2>1. g.window[s] = h.window[s]
    BY <1>2 DEF SeenShape
  <2>2. PICK q, u : q = g.order /\ u = g.window
    OBVIOUS
  <2>3. u \in [Probes -> Seq(Rows)] /\ g = [order |-> q, window |-> u]
    BY <1>6, <2>2 DEF Histories
  <2>4. Trim(Append(g.window[s], o)) = w
    BY <1>3, <2>1
  <2>5. Observe(h, s, o) = [g EXCEPT !.window[s] = w]
    BY <1>1, <2>4 DEF Observe
  <2>7. PICK l : l = [g EXCEPT !.window[s] = w]
    OBVIOUS
  <2>6. l = [order |-> q, window |-> [u EXCEPT ![s] = w]]
    BY <2>3, <2>7
  <2> QED  BY <1>5, <1>7, <2>2, <2>5, <2>6, <2>7
<1>9. f \in [Probes -> Seq(Rows)] /\ f[s] = w /\ \A t \in Probes \ {s} : f[t] = g.window[t]
  BY <1>4, <1>5, <1>6 DEF Histories
<1>10. OrderHolds(k) /\ Tracked(k) = Tracked(g)
  BY <1>2, <1>6, <1>7, <1>9 DEF SeenShape, OrderHolds, Histories, Tracked
<1>11. ASSUME NEW t \in Probes
       PROVE  /\ k.window[t] # <<>> <=> t \in Tracked(k)
              /\ Len(k.window[t]) <= Depth
  <2>1. CASE t = s
    BY <1>2, <1>4, <1>7, <1>9, <1>10, <2>1 DEF SeenShape
  <2>2. CASE t # s
    <3>1. k.window[t] = g.window[t] /\ g.window[t] \in {h.window[t], <<>>}
          /\ (g.window[t] # <<>> <=> t \in Tracked(g))
      BY <1>2, <1>7, <1>9, <2>2 DEF SeenShape
    <3>2. Len(h.window[t]) <= Depth /\ Len(<<>>) <= Depth
      BY HistoryAssumption DEF Bounded
    <3> QED  BY <1>10, <3>1, <3>2
  <2> QED  BY <2>1, <2>2
<1>12. \A t \in Probes \ {s} : k.window[t] \in {h.window[t], <<>>}
  BY <1>2, <1>7, <1>9 DEF SeenShape
<1> QED  BY <1>3, <1>7, <1>8, <1>9, <1>10, <1>11, <1>12 DEF Bounded

-----------------------------------------------------------------------------
(* A sequence of observations. *)

BoundedHistories == {h \in Histories : Bounded(h)}
TakeIn(h, p) == IF p[2].value = Clamped THEN h ELSE Observe(h, p[1], p[2])

LEMMA SampleIsRow == \A o \in Samples : o.value # Clamped => o \in Rows
  BY DEF Samples, Rows

LEMMA TakeInStays ==
  ASSUME NEW h \in BoundedHistories, NEW p \in Probes \X Samples
  PROVE  TakeIn(h, p) \in BoundedHistories
<1>1. p[1] \in Probes /\ p[2] \in Samples /\ Bounded(h)
  BY DEF BoundedHistories
<1>2. CASE p[2].value = Clamped
  BY <1>2 DEF TakeIn
<1>3. CASE p[2].value # Clamped
  <2>1. p[2] \in Rows
    BY <1>1, <1>3, SampleIsRow
  <2>2. Bounded(Observe(h, p[1], p[2]))
    BY <1>1, <2>1, ObserveKeeps
  <2> QED  BY <1>3, <2>2 DEF TakeIn, BoundedHistories, Bounded, OrderHolds
<1> QED  BY <1>2, <1>3

\* run is what is remembered after each of the observations.
Runs(run, h, told) ==
    /\ run \in [0 .. Len(told) -> BoundedHistories] /\ run[0] = h
    /\ \A k \in 1 .. Len(told) : run[k] = TakeIn(run[k - 1], told[k])

LEMMA ObservedRuns ==
  ASSUME NEW h, Bounded(h), NEW told \in Seq(Probes \X Samples)
  PROVE  \E run : Runs(run, h, told) /\ Observed(h, told) = run[Len(told)]
<1> DEFINE n == Len(told)
           F(g) == [k \in 0 .. n |->
                       IF k = 0 THEN h
                       ELSE IF told[k][2].value = Clamped THEN g[k - 1]
                       ELSE Observe(g[k - 1], told[k][1], told[k][2])]
           kept == CHOOSE g : g = F(g)
           step == [k \in 1 .. n |-> [g \in BoundedHistories |-> TakeIn(g, told[k])]]
<1>1. n \in Nat /\ h \in BoundedHistories /\ \A k \in 1 .. n : told[k] \in Probes \X Samples
  BY DEF BoundedHistories, Bounded, OrderHolds
<1>2. Observed(h, told) = kept[n]
  BY DEF Observed
<1>3. step \in [1 .. n -> [BoundedHistories -> BoundedHistories]]
  BY <1>1, TakeInStays
<1>4. PICK f \in [0 .. n -> BoundedHistories] : Iterates(f, n, h, step)
  <2> HIDE DEF step, n
  <2> QED  BY <1>1, <1>3, IterationExists
<1>5. f = F(f)
  <2>1. ASSUME NEW k \in 1 .. n PROVE f[k] = TakeIn(f[k - 1], told[k])
    <3>4. k - 1 \in 0 .. n
      BY <1>1
    <3>1. f[k - 1] \in BoundedHistories
      <4> HIDE DEF n
      <4> QED  BY <1>4, <3>4
    <3>2. f[k] = step[k][f[k - 1]]
      BY <1>4 DEF Iterates
    <3>3. step[k] = [g \in BoundedHistories |-> TakeIn(g, told[k])]
      OBVIOUS
    <3> HIDE DEF step
    <3> QED  BY <3>1, <3>2, <3>3
  <2>2. f[0] = h
    BY <1>4 DEF Iterates
  <2> QED  BY <1>1, <1>4, <2>1, <2>2 DEF TakeIn
<1>6. kept = F(kept)
  <2> HIDE DEF F
  <2> QED  BY <1>5
<1>7. ASSUME NEW g, g = F(g)
      PROVE  Runs(g, h, told)
  <2>1. DOMAIN g = 0 .. n /\ g[0] = h
    BY <1>1, <1>7
  <2>2. ASSUME NEW k \in 1 .. n PROVE g[k] = TakeIn(g[k - 1], told[k])
    <3>1. k \in 0 .. n /\ k # 0
      BY <1>1
    <3>2. g[k] = F(g)[k]
      BY <1>7
    <3> HIDE DEF n
    <3> QED  BY <3>1, <3>2 DEF TakeIn
  <2> DEFINE G == {k \in 0 .. n : g[k] \in BoundedHistories}
  <2>3. ASSUME NEW k \in 0 .. n PROVE g[k] \in BoundedHistories
    <3> DEFINE H == {i \in 0 .. n : g[i] \in BoundedHistories}
    <3>1. 0 \in H
      BY <1>1, <2>1
    <3>2. ASSUME NEW i \in H, i + 1 <= k PROVE i + 1 \in H
      <4>1. i + 1 \in 1 .. n /\ (i + 1) - 1 = i /\ g[i] \in BoundedHistories
        BY <1>1, <3>2
      <4>2. g[i + 1] = TakeIn(g[i], told[i + 1]) /\ told[i + 1] \in Probes \X Samples
        BY <1>1, <2>2, <4>1
      <4> QED  BY <4>1, <4>2, TakeInStays
    <3>3. k \in Nat
      BY <1>1
    <3>4. k \in H
      <4> HIDE DEF H
      <4> QED  BY <3>1, <3>2, <3>3, UpTo
    <3> QED  BY <3>4
  <2>4. g = [k \in 0 .. n |-> g[k]]
    BY <1>7
  <2>5. g \in [0 .. n -> BoundedHistories]
    BY <2>3, <2>4
  <2> QED  BY <2>1, <2>2, <2>5 DEF Runs
<1> HIDE DEF kept, F
<1>8. Runs(kept, h, told)
  BY <1>6, <1>7
<1> QED  BY <1>2, <1>8

\* What the first k of them told of s.
Told(told, k, s) == {o \in Rows : \E j \in 1 .. k : told[j] = <<s, o>>}

\* Each observation is newer than what its device had been told before.
TellsInOrder(told, old, clean) ==
    /\ \A s \in clean : Once(old[s] \cup Told(told, Len(told), s))
    /\ \A j \in 1 .. Len(told) :
          told[j][1] \in clean /\ told[j][2].value # Clamped =>
             NewerThan(told[j][2], old[told[j][1]] \cup Told(told, j - 1, told[j][1]))

LEMMA ToldGrows ==
  ASSUME NEW told \in Seq(Probes \X Samples), NEW k \in 1 .. Len(told), NEW s
  PROVE  /\ Told(told, k, s) \subseteq Told(told, Len(told), s)
         /\ Told(told, k, s) = Told(told, k - 1, s) \cup
               (IF told[k][1] = s /\ told[k][2] \in Rows THEN {told[k][2]} ELSE {})
<1>1. Len(told) \in Nat /\ told[k] \in Probes \X Samples
  OBVIOUS
<1>2. told[k] = <<told[k][1], told[k][2]>>
  BY <1>1
<1>3. 1 .. k = (1 .. k - 1) \cup {k} /\ 1 .. k \subseteq 1 .. Len(told)
  BY <1>1
<1>4. \A o : told[k] = <<s, o>> <=> told[k][1] = s /\ told[k][2] = o
  BY <1>2
<1> QED  BY <1>3, <1>4 DEF Told

LEMMA ObservedKeeps ==
  ASSUME NEW h, Bounded(h), NEW told \in Seq(Probes \X Samples), NEW clean \in SUBSET Probes,
         NEW old \in [Probes -> SUBSET Rows],
         \A s \in clean : Newest(h.window[s], old[s]), TellsInOrder(told, old, clean)
  PROVE  /\ Bounded(Observed(h, told))
         /\ \A s \in clean :
               Newest(Observed(h, told).window[s], old[s] \cup Told(told, Len(told), s))
<1>1. PICK run : Runs(run, h, told) /\ Observed(h, told) = run[Len(told)]
  BY ObservedRuns
<1>2. PICK n : n = Len(told)
  OBVIOUS
<1>3. n \in Nat /\ \A k \in 1 .. n : told[k] \in Probes \X Samples
  BY <1>2
<1> DEFINE Good(k) == \A s \in clean : Newest(run[k].window[s], old[s] \cup Told(told, k, s))
           G == {k \in 0 .. n : Good(k)}
<1>4. 0 \in G
  <2>1. \A s : Told(told, 0, s) = {}
    BY DEF Told
  <2>2. run[0] = h
    BY <1>1 DEF Runs
  <2>3. ASSUME NEW s \in clean PROVE Newest(run[0].window[s], old[s] \cup Told(told, 0, s))
    <3>1. old[s] \cup Told(told, 0, s) = old[s]
      BY <2>1
    <3> QED  BY <2>2, <3>1
  <2>4. Good(0)
    BY <2>3
  <2>5. 0 \in 0 .. n
    BY <1>3
  <2> HIDE DEF Good
  <2> QED  BY <2>4, <2>5
<1>5. ASSUME NEW i \in G, i + 1 <= n PROVE i + 1 \in G
  <2>1. PICK k : k = i + 1
    OBVIOUS
  <2>2. k \in 1 .. n /\ k - 1 = i /\ i \in 0 .. n
    BY <1>3, <1>5, <2>1
  <2>3. /\ run[k] = TakeIn(run[i], told[k]) /\ run[i] \in BoundedHistories
        /\ told[k] \in Probes \X Samples
    BY <1>1, <1>2, <1>3, <2>2 DEF Runs
  <2>4. PICK p : p = told[k]
    OBVIOUS
  <2>5. p[1] \in Probes /\ p[2] \in Samples /\ Bounded(run[i]) /\ run[i] \in Histories
    BY <2>3, <2>4 DEF BoundedHistories
  <2>6. ASSUME NEW s \in clean PROVE Newest(run[k].window[s], old[s] \cup Told(told, k, s))
    <3>1. PICK rows : rows = old[s] \cup Told(told, i, s)
      OBVIOUS
    <3>2. Newest(run[i].window[s], rows) /\ rows \in SUBSET Rows
      BY <1>5, <3>1 DEF Told
    <3>3. /\ Told(told, k, s) \subseteq Told(told, Len(told), s)
          /\ Told(told, k, s) = Told(told, i, s) \cup
               (IF p[1] = s /\ p[2] \in Rows THEN {p[2]} ELSE {})
      BY <1>2, <2>2, <2>4, ToldGrows
    <3>4. Once(rows)
      <4>1. Once(old[s] \cup Told(told, Len(told), s))
        BY DEF TellsInOrder
      <4> QED  BY <3>1, <3>3, <4>1 DEF Once
    <3>5. CASE p[2].value = Clamped
      <4>1. p[2] \notin Rows
        BY <3>5, HistoryAssumption DEF Rows
      <4> QED  BY <2>3, <2>4, <3>1, <3>2, <3>3, <3>5, <4>1 DEF TakeIn
    <3>6. CASE p[2].value # Clamped /\ p[1] # s
      <4>1. p[2] \in Rows
        BY <2>5, <3>6, SampleIsRow
      <4>2. run[k].window[s] \in {run[i].window[s], <<>>}
        BY <2>3, <2>4, <2>5, <3>6, <4>1, ObserveKeeps DEF TakeIn
      <4>3. Newest(<<>>, rows)
        BY DEF Newest
      <4> QED  BY <3>1, <3>2, <3>3, <3>6, <4>2, <4>3
    <3>7. CASE p[2].value # Clamped /\ p[1] = s
      <4>1. p[2] \in Rows
        BY <2>5, <3>7, SampleIsRow
      <4>2. NewerThan(p[2], rows)
        BY <1>2, <2>2, <2>4, <3>1, <3>7 DEF TellsInOrder
      <4>3. run[k].window[s] = Trim(Append(run[i].window[s], p[2]))
        BY <2>3, <2>4, <2>5, <3>7, <4>1, ObserveKeeps DEF TakeIn
      <4>4. PICK w : w = run[i].window[s]
        OBVIOUS
      <4>5. w \in Seq(Rows) /\ Len(w) <= Depth
        BY <2>5, <4>4 DEF Bounded, Histories
      <4>6. Newest(Trim(Append(w, p[2])), rows \cup {p[2]})
        BY <3>2, <3>4, <4>1, <4>2, <4>4, <4>5, TrimKeeps
      <4>7. rows \cup {p[2]} = old[s] \cup Told(told, k, s)
        BY <3>1, <3>3, <3>7, <4>1
      <4> QED  BY <4>3, <4>4, <4>6, <4>7
    <3> QED  BY <3>5, <3>6, <3>7
  <2>7. Good(k)
    BY <2>6
  <2>8. k \in 0 .. n
    BY <2>2
  <2> HIDE DEF Good
  <2> QED  BY <2>1, <2>7, <2>8
<1>6. n \in G
  <2> HIDE DEF G
  <2> QED  BY <1>3, <1>4, <1>5, UpTo
<1>7. Bounded(run[n])
  BY <1>1, <1>2, <1>3 DEF Runs, BoundedHistories
<1> QED  BY <1>1, <1>2, <1>6, <1>7

-----------------------------------------------------------------------------
(* The invariant. *)

\* Upstream serves at most one observation of a device, never one of the future.
Serves ==
    /\ clock \in 0 .. MaxTime /\ measures \in 0 .. MaxMeasures /\ restarts \in 0 .. MaxRestarts
    /\ lost \in SUBSET Probes
    /\ latest \in [Probes -> SUBSET Samples] /\ reading \in [Probes -> SUBSET Samples]
    /\ \A s \in Probes : \A o, p \in latest[s] : o = p
    /\ \A s \in Probes : \A o \in latest[s] : o.at <= clock

\* What is stored of a device is what it serves now, or older.
StoresHistory ==
    \A s \in Probes :
        /\ Once(reading[s])
        /\ \A r \in reading[s] : r.at < clock \/ r \in latest[s]
        /\ \A o \in latest[s] : NewerThan(o, reading[s])

RemembersNewest ==
    /\ Bounded(stuckHistory)
    /\ \A s \in Probes \ lost : Newest(stuckHistory.window[s], Usable(s))

HistoryInv == Serves /\ StoresHistory /\ RemembersNewest

LEMMA UsableAreRows ==
  ASSUME reading \in [Probes -> SUBSET Samples], NEW s \in Probes
  PROVE  Usable(s) \subseteq Rows /\ Usable(s) \subseteq reading[s]
  BY SampleIsRow DEF Usable

LEMMA EmptyIsBounded == Bounded(Empty)
<1>1. Empty \in Histories
  BY DEF Empty, Histories
<1>2. Tracked(Empty) = {} /\ Len(Empty.order) = 0 /\ DOMAIN Empty.order = {}
  BY DEF Empty, Tracked
<1>3. \A s \in Probes : Empty.window[s] = <<>>
  BY DEF Empty
<1> QED  BY <1>1, <1>2, <1>3, HistoryAssumption DEF Bounded, OrderHolds

LEMMA HistoryInitInv == HistoryInit => HistoryInv
<1> SUFFICES ASSUME HistoryInit PROVE HistoryInv
  OBVIOUS
<1>1. Serves /\ StoresHistory
  BY HistoryAssumption DEF HistoryInit, Serves, StoresHistory, Once
<1>2. \A s \in Probes : stuckHistory.window[s] = <<>>
  BY DEF HistoryInit, Empty
<1>3. \A s \in Probes : Usable(s) = {}
  BY DEF HistoryInit, Usable
<1>4. Bounded(stuckHistory)
  BY EmptyIsBounded DEF HistoryInit
<1> QED  BY <1>1, <1>2, <1>3, <1>4 DEF HistoryInv, RemembersNewest, Newest

LEMMA MeasuresKeeps ==
  ASSUME HistoryInv, NEW s \in Probes, NEW v \in Measurements \cup {Clamped}, Measures(s, v)
  PROVE  HistoryInv'
<1>1. PICK o : o = [at |-> clock, value |-> v]
  OBVIOUS
<1>2. /\ o \in Samples /\ o.at = clock /\ clock \in Int
      /\ \A p \in Samples : p.at \in Int
      /\ measures \in Int /\ MaxMeasures \in Nat
  BY <1>1, HistoryAssumption DEF HistoryInv, Serves, Samples
<1>3. /\ latest'[s] = {o} /\ \A t \in Probes \ {s} : latest'[t] = latest[t]
      /\ latest' \in [Probes -> SUBSET Samples]
      /\ measures' = measures + 1 /\ measures < MaxMeasures
      /\ UNCHANGED <<clock, stuckHistory, reading, lost, restarts>>
  BY <1>1, <1>2 DEF Measures, HistoryInv, Serves
<1>4. Serves'
  <2>1. \A t \in Probes : /\ \A p, q \in latest'[t] : p = q
                          /\ \A p \in latest'[t] : p.at <= clock
    BY <1>2, <1>3 DEF HistoryInv, Serves
  <2>2. measures' \in 0 .. MaxMeasures
    BY <1>2, <1>3 DEF HistoryInv, Serves
  <2> QED  BY <1>3, <2>1, <2>2 DEF HistoryInv, Serves
<1>5. \A r \in reading[s] : r.at < clock /\ r \in Samples
  BY <1>3 DEF Measures, HistoryInv, Serves, StoresHistory
<1>6. StoresHistory'
  <2>1. ASSUME NEW t \in Probes
        PROVE  /\ \A r \in reading[t] : r.at < clock \/ r \in latest'[t]
               /\ \A q \in latest'[t] : NewerThan(q, reading[t])
    <3>1. CASE t = s
      BY <1>2, <1>3, <1>5, <3>1 DEF NewerThan
    <3>2. CASE t # s
      BY <1>3, <3>2 DEF HistoryInv, StoresHistory
    <3> QED  BY <3>1, <3>2
  <2> QED  BY <1>3, <2>1 DEF HistoryInv, StoresHistory
<1> QED  BY <1>3, <1>4, <1>6 DEF HistoryInv, RemembersNewest, Usable

LEMMA TimePassesKeeps ==
  ASSUME HistoryInv, TimePasses
  PROVE  HistoryInv'
<1>1. /\ clock \in 0 .. MaxTime /\ clock < MaxTime /\ clock' = clock + 1 /\ MaxTime \in Nat
      /\ UNCHANGED <<stuckHistory, reading, lost, measures, restarts>>
      /\ \A p \in Samples : p.at \in Int
  BY HistoryAssumption DEF TimePasses, HistoryInv, Serves, Samples
<1>2. /\ latest' \in [Probes -> SUBSET Samples]
      /\ \A s \in Probes : latest'[s] \subseteq latest[s]
  BY DEF TimePasses, HistoryInv, Serves
<1>3. \A s \in Probes : latest[s] \subseteq Samples /\ reading[s] \subseteq Samples
  BY DEF HistoryInv, Serves
<1>4. \A s \in Probes : \A o \in latest[s] : o.at < clock'
  <2> SUFFICES ASSUME NEW s \in Probes, NEW o \in latest[s] PROVE o.at < clock'
    OBVIOUS
  <2>1. o.at \in Int /\ o.at <= clock
    BY <1>1, <1>3 DEF HistoryInv, Serves
  <2> QED  BY <1>1, <2>1
<1>5. \A s \in Probes : \A r \in reading[s] : r.at < clock'
  <2> SUFFICES ASSUME NEW s \in Probes, NEW r \in reading[s] PROVE r.at < clock'
    OBVIOUS
  <2>1. r.at \in Int /\ (r.at < clock \/ r \in latest[s])
    BY <1>1, <1>3 DEF HistoryInv, StoresHistory
  <2> QED  BY <1>1, <1>4, <2>1
<1>6. Serves'
  <2>1. clock' \in 0 .. MaxTime
    BY <1>1
  <2>2. \A s \in Probes : \A o \in latest'[s] : o.at <= clock'
    <3> SUFFICES ASSUME NEW s \in Probes, NEW o \in latest'[s] PROVE o.at <= clock'
      OBVIOUS
    <3>1. o \in latest[s] /\ o.at \in Int /\ clock' \in Int
      BY <1>1, <1>2, <1>3
    <3> QED  BY <1>4, <3>1
  <2> QED  BY <1>1, <1>2, <2>1, <2>2 DEF HistoryInv, Serves
<1>7. StoresHistory'
  BY <1>1, <1>2, <1>5 DEF HistoryInv, StoresHistory
<1> QED  BY <1>1, <1>6, <1>7 DEF HistoryInv, RemembersNewest, Usable

\* A batch lists each device that serves something, once, with what it serves.
Lists(batch) ==
    /\ batch \in Seq(Probes \X Samples)
    /\ \A j \in 1 .. Len(batch) : batch[j][2] \in latest[batch[j][1]]
    /\ \A s \in Probes : \A o \in latest[s] : \E j \in 1 .. Len(batch) : batch[j] = <<s, o>>

BatchOf(devices) ==
    [i \in DOMAIN devices |-> <<devices[i], CHOOSE o \in latest[devices[i]] : TRUE>>]

LEMMA BatchLists ==
  ASSUME HistoryInv, NEW devices \in SetToSeqs({s \in Probes : latest[s] # {}})
  PROVE  Lists(BatchOf(devices))
<1> DEFINE S == {s \in Probes : latest[s] # {}}
<1>1. PICK n, D : n = Cardinality(S) /\ D = 1 .. n
  OBVIOUS
<1>2. IsFiniteSet(S) /\ n \in Nat
  <2>1. S \in SUBSET Probes /\ IsFiniteSet(Probes)
    BY HistoryAssumption
  <2> HIDE DEF S
  <2> QED  BY <1>1, <2>1, FS_Subset, FS_CardinalityType
<1>3. devices \in [D -> S] /\ \A i, j \in D : i # j => devices[i] # devices[j]
  BY <1>1 DEF SetToSeqs
<1>4. \A s \in S : \E i \in D : devices[i] = s
  <2>1. devices \in Injection(D, S)
    BY <1>3 DEF Injection, IsInjective
  <2>2. Cardinality(D) = n /\ IsFiniteSet(D)
    BY <1>1, <1>2, FS_Interval
  <2> HIDE DEF S
  <2>3. devices \in Surjection(D, S)
    BY <1>1, <1>2, <2>1, <2>2, FS_Injection
  <2> QED  BY <2>3 DEF Surjection
<1>5. PICK batch : batch = BatchOf(devices)
  OBVIOUS
<1>6. ASSUME NEW i \in D
      PROVE  /\ batch[i][1] = devices[i] /\ batch[i][2] \in latest[devices[i]]
             /\ batch[i] \in Probes \X Samples /\ batch[i] = <<batch[i][1], batch[i][2]>>
  <2>1. devices[i] \in Probes /\ latest[devices[i]] # {} /\ latest[devices[i]] \subseteq Samples
    BY <1>3 DEF HistoryInv, Serves
  <2>2. PICK o : o = CHOOSE p \in latest[devices[i]] : TRUE
    OBVIOUS
  <2>3. o \in latest[devices[i]]
    BY <2>1, <2>2
  <2>4. batch[i] = <<devices[i], o>>
    BY <1>3, <1>5, <2>2 DEF BatchOf
  <2> QED  BY <2>1, <2>3, <2>4
<1>7. DOMAIN batch = D /\ Len(batch) = n /\ batch \in Seq(Probes \X Samples)
  <2>1. DOMAIN batch = D /\ batch = [i \in D |-> batch[i]]
    BY <1>3, <1>5 DEF BatchOf
  <2>2. batch \in [D -> Probes \X Samples]
    BY <1>6, <2>1
  <2>3. batch \in [1 .. n -> Probes \X Samples] /\ n \in Nat
    BY <1>1, <1>2, <2>2
  <2>4. batch \in Seq(Probes \X Samples) /\ Len(batch) = n
    BY ONLY <2>3
  <2> QED  BY <2>1, <2>4
<1>8. ASSUME NEW s \in Probes, NEW o \in latest[s]
      PROVE  \E j \in D : batch[j] = <<s, o>>
  <2>1. s \in S
    OBVIOUS
  <2>2. PICK j \in D : devices[j] = s
    BY <1>4, <2>1
  <2>3. batch[j] = <<batch[j][1], batch[j][2]>> /\ batch[j][1] = s /\ batch[j][2] \in latest[s]
    BY <1>6, <2>2
  <2>4. batch[j][2] = o
    BY <2>3 DEF HistoryInv, Serves
  <2> QED  BY <2>3, <2>4
<1>9. \A j \in 1 .. Len(batch) : batch[j][2] \in latest[batch[j][1]]
  BY <1>1, <1>6, <1>7
<1>10. \A s \in Probes : \A o \in latest[s] : \E j \in 1 .. Len(batch) : batch[j] = <<s, o>>
  BY <1>1, <1>7, <1>8
<1> QED  BY <1>5, <1>7, <1>9, <1>10 DEF Lists

LEMMA PollKeeps ==
  ASSUME HistoryInv, NEW batch, Lists(batch), NEW written \in SUBSET Probes, Poll(batch, written)
  PROVE  HistoryInv'
<1>1. /\ stuckHistory' = Observed(stuckHistory, batch)
      /\ reading' = [s \in Probes |-> reading[s] \cup IF s \in written THEN latest[s] ELSE {}]
      /\ lost' = lost \cup {s \in Probes \ written : latest[s] # {}}
      /\ UNCHANGED <<clock, latest, measures, restarts>>
  BY DEF Poll
<1>2. /\ latest \in [Probes -> SUBSET Samples] /\ reading \in [Probes -> SUBSET Samples]
      /\ \A p \in Samples : p.at \in Int
  BY DEF HistoryInv, Serves, Samples
<1>3. ASSUME NEW s \in Probes
      PROVE  /\ reading[s] \subseteq reading'[s] /\ reading'[s] \subseteq reading[s] \cup latest[s]
             /\ reading'[s] \subseteq Samples
             /\ s \notin lost' => s \notin lost /\ reading'[s] = reading[s] \cup latest[s]
  BY <1>1, <1>2
<1>4. Serves'
  <2>1. reading' \in [Probes -> SUBSET Samples]
    BY <1>1, <1>3
  <2> QED  BY <1>1, <2>1 DEF HistoryInv, Serves
<1>5. ASSUME NEW s \in Probes
      PROVE  /\ Once(reading[s] \cup latest[s])
             /\ \A o \in latest[s] : NewerThan(o, reading[s] \cup latest[s])
  <2>1. /\ \A o, p \in latest[s] : o = p
        /\ \A o \in latest[s] : NewerThan(o, reading[s])
        /\ Once(reading[s])
    BY DEF HistoryInv, Serves, StoresHistory
  <2>2. \A o \in latest[s] \cup reading[s] : o.at \in Int
    BY <1>2
  <2>3. \A o \in latest[s] : NewerThan(o, reading[s] \cup latest[s])
    BY <2>1 DEF NewerThan
  <2> QED  BY <2>1, <2>2, <2>3 DEF Once, NewerThan
<1>6. StoresHistory'
  <2>1. ASSUME NEW s \in Probes
        PROVE  /\ Once(reading'[s])
               /\ \A r \in reading'[s] : r.at < clock \/ r \in latest[s]
               /\ \A o \in latest[s] : NewerThan(o, reading'[s])
    <3>1. Once(reading'[s]) /\ \A o \in latest[s] : NewerThan(o, reading'[s])
      BY <1>3, <1>5 DEF Once, NewerThan
    <3>2. \A r \in reading'[s] : r.at < clock \/ r \in latest[s]
      BY <1>3 DEF HistoryInv, StoresHistory
    <3> QED  BY <3>1, <3>2
  <2> QED  BY <1>1, <2>1 DEF StoresHistory
<1>7. PICK clean, old : clean = Probes \ lost' /\ old = [s \in Probes |-> Usable(s)]
  OBVIOUS
<1>8. ASSUME NEW s \in Probes
      PROVE  /\ old[s] \subseteq Rows /\ old[s] \subseteq reading[s] /\ old[s] = Usable(s)
             /\ \A k \in Nat : Told(batch, k, s) \subseteq Rows
             /\ \A k \in 0 .. Len(batch) : Told(batch, k, s) \subseteq latest[s]
             /\ Told(batch, Len(batch), s) = {o \in latest[s] : o.value # Clamped}
  <2>1. old[s] \subseteq Rows /\ old[s] \subseteq reading[s] /\ old[s] = Usable(s)
    BY <1>2, <1>7, UsableAreRows
  <2>2. \A k \in Nat : Told(batch, k, s) \subseteq Rows
    BY DEF Told
  <2>3. ASSUME NEW k \in 0 .. Len(batch), NEW o \in Told(batch, k, s) PROVE o \in latest[s]
    <3>1. PICK j \in 1 .. k : batch[j] = <<s, o>>
      BY DEF Told
    <3>2. j \in 1 .. Len(batch)
      BY DEF Lists
    <3>3. batch[j][2] \in latest[batch[j][1]]
      BY <3>2 DEF Lists
    <3> QED  BY <3>1, <3>3
  <2>4. ASSUME NEW o \in latest[s], o.value # Clamped PROVE o \in Told(batch, Len(batch), s)
    <3>1. o \in Rows
      BY <1>2, <2>4, SampleIsRow
    <3>2. \E j \in 1 .. Len(batch) : batch[j] = <<s, o>>
      BY DEF Lists
    <3> QED  BY <3>1, <3>2 DEF Told
  <2>5. ASSUME NEW o \in Told(batch, Len(batch), s) PROVE o \in latest[s] /\ o.value # Clamped
    <3>1. Len(batch) \in 0 .. Len(batch)
      BY DEF Lists
    <3>2. o \in Rows
      BY DEF Told
    <3> QED  BY <2>3, <3>1, <3>2, HistoryAssumption DEF Rows
  <2>6. \A k \in 0 .. Len(batch) : Told(batch, k, s) \subseteq latest[s]
    BY <2>3
  <2>7. Told(batch, Len(batch), s) = {o \in latest[s] : o.value # Clamped}
    BY <2>4, <2>5
  <2> QED  BY <2>1, <2>2, <2>6, <2>7
<1>9. TellsInOrder(batch, old, clean)
  <2>1. ASSUME NEW s \in clean PROVE Once(old[s] \cup Told(batch, Len(batch), s))
    <3>1. s \in Probes
      BY <1>7
    <3>2. old[s] \cup Told(batch, Len(batch), s) \subseteq reading[s] \cup latest[s]
      BY <1>8, <3>1
    <3> QED  BY <1>5, <3>1, <3>2 DEF Once
  <2>2. ASSUME NEW j \in 1 .. Len(batch), batch[j][1] \in clean
        PROVE  NewerThan(batch[j][2], old[batch[j][1]] \cup Told(batch, j - 1, batch[j][1]))
    <3>1. PICK s, o : s = batch[j][1] /\ o = batch[j][2]
      OBVIOUS
    <3>2. s \in Probes /\ o \in latest[s]
      BY <1>7, <2>2, <3>1 DEF Lists
    <3>3. j - 1 \in 0 .. Len(batch)
      BY DEF Lists
    <3>4. old[s] \cup Told(batch, j - 1, s) \subseteq reading[s] \cup latest[s]
      BY <1>8, <3>2, <3>3
    <3> QED  BY <1>5, <3>1, <3>2, <3>4 DEF NewerThan
  <2> QED  BY <2>1, <2>2 DEF TellsInOrder
<1>10. /\ Bounded(stuckHistory')
       /\ \A s \in clean :
             Newest(stuckHistory'.window[s], old[s] \cup Told(batch, Len(batch), s))
  <2>1. old \in [Probes -> SUBSET Rows] /\ clean \in SUBSET Probes
    BY <1>7, <1>8
  <2>2. \A s \in clean : Newest(stuckHistory.window[s], old[s])
    BY <1>3, <1>7, <1>8 DEF HistoryInv, RemembersNewest
  <2>3. Bounded(stuckHistory) /\ batch \in Seq(Probes \X Samples)
    BY DEF Lists, HistoryInv, RemembersNewest
  <2> QED  BY <1>1, <1>9, <2>1, <2>2, <2>3, ObservedKeeps
<1>11. ASSUME NEW s \in clean PROVE Usable(s)' = old[s] \cup Told(batch, Len(batch), s)
  <2>1. s \in Probes /\ s \notin lost'
    BY <1>7
  <2>2. Usable(s)' = {r \in reading'[s] : r.value # Clamped}
    BY DEF Usable
  <2>3. Usable(s) = {r \in reading[s] : r.value # Clamped}
    BY DEF Usable
  <2> QED  BY <1>3, <1>8, <2>1, <2>2, <2>3
<1>12. RemembersNewest'
  <2>1. ASSUME NEW s \in Probes \ lost' PROVE Newest(stuckHistory'.window[s], Usable(s)')
    BY <1>7, <1>10, <1>11
  <2> QED  BY <1>10, <2>1 DEF RemembersNewest
<1> QED  BY <1>4, <1>6, <1>12 DEF HistoryInv

-----------------------------------------------------------------------------
(* What the seed finds. *)

Recent(s) == {r \in reading[s] : r.at > clock - SeedWindow /\ r.value # Clamped}
NewerIn(rows, r) == {q \in rows : q.at > r.at}

\* What is stored of a device is finite, one row for an instant.
LEMMA RowsAreFinite ==
  ASSUME HistoryInv, NEW s \in Probes
  PROVE  /\ IsFiniteSet(reading[s]) /\ reading[s] \subseteq Samples /\ Once(reading[s])
         /\ \A r \in Samples : r.at \in Int
<1>1. reading[s] \subseteq Samples /\ Once(reading[s]) /\ \A r \in Samples : r.at \in 0 .. MaxTime
  BY DEF HistoryInv, Serves, StoresHistory, Samples
<1>2. PICK S, T, f : S = reading[s] /\ T = 0 .. MaxTime /\ f = [r \in S |-> r.at]
  OBVIOUS
<1>3. f \in Injection(S, T)
  BY <1>1, <1>2 DEF Once, Injection, IsInjective
<1>4. IsFiniteSet(T)
  BY <1>2, HistoryAssumption, FS_Interval
<1>5. IsFiniteSet(S)
  BY <1>3, <1>4, FS_Injection
<1> QED  BY <1>1, <1>2, <1>5

\* A row of the seed is usable, and what the seed leaves out is older than all of it.
LEMMA SeedIsNewest ==
  ASSUME HistoryInv, NEW s \in Probes
  PROVE  /\ SeedRows(s) \subseteq Recent(s) /\ Recent(s) \subseteq Usable(s)
         /\ Usable(s) \subseteq Rows /\ Usable(s) \subseteq reading[s]
         /\ \A r \in Usable(s) \ SeedRows(s) : \A t \in SeedRows(s) : r.at < t.at
<1>1. /\ IsFiniteSet(reading[s]) /\ reading[s] \subseteq Samples
      /\ \A r \in Samples : r.at \in Int
  BY RowsAreFinite
<1>2. PICK R : R = Recent(s)
  OBVIOUS
<1>3. SeedRows(s) = {r \in R : Cardinality(NewerIn(R, r)) < Depth}
  BY <1>2 DEF SeedRows, Recent, NewerIn
<1>4. R \subseteq Usable(s) /\ Usable(s) \subseteq reading[s]
  BY <1>2 DEF Recent, Usable
<1>5. Usable(s) \subseteq Rows
  BY UsableAreRows DEF HistoryInv, Serves
<1>6. ASSUME NEW r \in Usable(s) \ SeedRows(s), NEW t \in SeedRows(s), ~(r.at < t.at)
      PROVE  FALSE
  <2>1. t \in R /\ Cardinality(NewerIn(R, t)) < Depth
    BY <1>3
  <2>2. r.at \in Int /\ t.at \in Int /\ r.at >= t.at
    BY <1>1, <1>4, <1>6, <2>1
  <2>3. clock \in Int /\ SeedWindow \in Int
    BY HistoryAssumption DEF HistoryInv, Serves
  <2>4. r \in R
    BY <1>2, <1>4, <2>1, <2>2, <2>3 DEF Recent, Usable
  <2>5. ~(Cardinality(NewerIn(R, r)) < Depth)
    BY <1>3, <2>4
  <2>6. NewerIn(R, r) \subseteq NewerIn(R, t)
    <3>1. \A q \in R : q.at \in Int
      BY <1>1, <1>4
    <3> QED  BY <2>2, <3>1 DEF NewerIn
  <2>7. PICK a, b : a = NewerIn(R, r) /\ b = NewerIn(R, t)
    OBVIOUS
  <2>8. IsFiniteSet(b)
    <3>1. b \in SUBSET reading[s]
      BY <1>4, <2>7 DEF NewerIn
    <3> QED  BY <1>1, <3>1, FS_Subset
  <2>9. Cardinality(a) <= Cardinality(b) /\ IsFiniteSet(a)
    BY <2>6, <2>7, <2>8, FS_Subset
  <2>10. Cardinality(a) \in Nat /\ Cardinality(b) \in Nat /\ Depth \in Nat
    BY <2>8, <2>9, FS_CardinalityType, HistoryAssumption
  <2> QED  BY <2>1, <2>5, <2>7, <2>9, <2>10
<1> QED  BY <1>2, <1>3, <1>4, <1>5, <1>6

LEMMA EarlierOrders ==
  ASSUME NEW rows \in SUBSET Samples, IsFiniteSet(rows), Once(rows),
         \A r \in Samples : r.at \in Int
  PROVE  Orders(rows, Earlier(rows))
<1>1. \A q, r \in rows : <<q, r>> \in Earlier(rows) <=> q.at < r.at
  BY DEF Earlier
<1>2. \A q, r \in rows : q # r => q.at < r.at \/ r.at < q.at
  BY DEF Once
<1>3. \A q, r, t \in rows : q.at < r.at /\ r.at < t.at => q.at < t.at
  OBVIOUS
<1>4. \A r \in rows : ~(r.at < r.at)
  OBVIOUS
<1> QED  BY <1>1, <1>2, <1>3, <1>4 DEF Orders

LEMMA SeedOrders ==
  ASSUME HistoryInv
  PROVE  Orders(SeedPairs, SeedBefore)
<1>1. ASSUME NEW p \in SeedPairs
      PROVE  /\ p[1] \in Probes /\ p[2] \in SeedRows(p[1]) /\ p[1] \in Int
             /\ p[2] \in reading[p[1]] /\ p[2].at \in 0 .. MaxTime /\ p = <<p[1], p[2]>>
  <2>1. p \in Probes \X Samples /\ p[2] \in SeedRows(p[1])
    BY DEF SeedPairs
  <2>2. p[2] \in reading[p[1]]
    BY <2>1, SeedIsNewest
  <2>3. p[1] \in Probes /\ p[2] \in Samples /\ p = <<p[1], p[2]>>
    BY <2>1
  <2>4. p[2].at \in 0 .. MaxTime
    BY <2>3 DEF Samples
  <2>5. p[1] \in Int
    BY <2>3, HistoryAssumption
  <2> QED  BY <2>1, <2>2, <2>3, <2>4, <2>5
<1>2. \A p, q \in SeedPairs : p[1] = q[1] /\ p[2].at = q[2].at => p = q
  <2> SUFFICES ASSUME NEW p \in SeedPairs, NEW q \in SeedPairs, p[1] = q[1], p[2].at = q[2].at
               PROVE  p = q
    OBVIOUS
  <2>1. p[2] \in reading[p[1]] /\ q[2] \in reading[p[1]] /\ Once(reading[p[1]])
    BY <1>1, RowsAreFinite
  <2>2. p[2] = q[2]
    BY <2>1 DEF Once
  <2>3. p = <<p[1], p[2]>> /\ q = <<q[1], q[2]>>
    BY <1>1
  <2> QED  BY <2>2, <2>3
<1>3. IsFiniteSet(SeedPairs)
  <2>1. PICK T, f : /\ T = Probes \X (0 .. MaxTime)
                    /\ f = [p \in SeedPairs |-> <<p[1], p[2].at>>]
    OBVIOUS
  <2>2. IsFiniteSet(0 .. MaxTime) /\ IsFiniteSet(Probes)
    BY HistoryAssumption, FS_Interval
  <2>3. IsFiniteSet(T)
    BY <2>1, <2>2, FS_Product
  <2>4. f \in [SeedPairs -> T]
    BY <1>1, <2>1
  <2>5. \A p, q \in SeedPairs : f[p] = f[q] => p = q
    BY <1>2, <2>1
  <2>6. f \in Injection(SeedPairs, T)
    BY <2>4, <2>5 DEF Injection, IsInjective
  <2> QED  BY <2>3, <2>6, FS_Injection
<1>4. \A p, q \in SeedPairs :
         <<p, q>> \in SeedBefore <=> p[1] < q[1] \/ (p[1] = q[1] /\ p[2].at < q[2].at)
  BY DEF SeedBefore
<1>5. \A p \in SeedPairs : p[1] \in Int /\ p[2].at \in Int
  BY <1>1
<1>6. \A p, q \in SeedPairs : p # q => <<p, q>> \in SeedBefore \/ <<q, p>> \in SeedBefore
  BY <1>2, <1>4, <1>5
<1>7. \A p \in SeedPairs : <<p, p>> \notin SeedBefore
  BY <1>4, <1>5
<1>8. \A p, q, r \in SeedPairs :
         <<p, q>> \in SeedBefore /\ <<q, r>> \in SeedBefore => <<p, r>> \in SeedBefore
  BY <1>4, <1>5
<1> QED  BY <1>3, <1>6, <1>7, <1>8 DEF Orders

LEMMA RestartKeeps ==
  ASSUME HistoryInv, NEW seeded \in 0 .. Len(SeedOrder), Restart(seeded)
  PROVE  HistoryInv'
<1>1. PICK pairs, n : pairs = SeedOrder /\ n = Cardinality(SeedPairs)
  OBVIOUS
<1>2. /\ n \in Nat /\ pairs \in [1 .. n -> SeedPairs]
      /\ \A i, j \in 1 .. n : i < j => <<pairs[i], pairs[j]>> \in SeedBefore
      /\ \A p \in SeedPairs : \E i \in 1 .. n : pairs[i] = p
  <2>1. InTurn(SeedPairs, SeedBefore, SeedOrder) /\ IsFiniteSet(SeedPairs)
    BY SeedOrders, SortedInTurn DEF SeedOrder, Orders
  <2> QED  BY <1>1, <2>1, FS_CardinalityType DEF InTurn
<1>3. /\ \A p \in SeedPairs : p \in Probes \X Samples /\ p = <<p[1], p[2]>>
                              /\ p[2] \in SeedRows(p[1])
      /\ \A s \in Probes : \A r \in SeedRows(s) : <<s, r>> \in SeedPairs
  <2>1. ASSUME NEW s \in Probes, NEW r \in SeedRows(s) PROVE <<s, r>> \in SeedPairs
    <3>1. r \in Samples
      BY SeedIsNewest, RowsAreFinite
    <3> QED  BY <2>1, <3>1 DEF SeedPairs
  <2> QED  BY <2>1 DEF SeedPairs
<1>4. Len(pairs) = n /\ pairs \in Seq(Probes \X Samples) /\ DOMAIN pairs = 1 .. n
  <2>1. pairs \in [1 .. n -> Probes \X Samples] /\ n \in Nat
    BY <1>2, <1>3
  <2> QED  BY ONLY <2>1
<1>5. PICK told : told = SubSeq(pairs, 1, seeded)
  OBVIOUS
<1>6. seeded \in 0 .. n
  BY <1>1, <1>4
<1>7. told \in Seq(Probes \X Samples)
  BY <1>2, <1>4, <1>5, <1>6
<1>8. PICK old, clean : /\ old = [s \in Probes |-> {}]
                        /\ clean = IF seeded = n THEN Probes ELSE {}
  OBVIOUS
<1>9. /\ stuckHistory' = Observed(Empty, told) /\ restarts < MaxRestarts
      /\ restarts' = restarts + 1
      /\ lost' = IF seeded = n THEN {} ELSE Probes
      /\ UNCHANGED <<clock, latest, reading, measures>>
  BY <1>1, <1>4, <1>5 DEF Restart
<1>10. seeded = n => told = pairs
  BY <1>2, <1>4, <1>5
<1>11. Serves' /\ StoresHistory'
  <2>1. restarts' \in 0 .. MaxRestarts
    BY <1>9, HistoryAssumption DEF HistoryInv, Serves
  <2>2. lost' \in SUBSET Probes
    BY <1>9
  <2>3. Serves'
    BY <1>9, <2>1, <2>2 DEF HistoryInv, Serves
  <2> QED  BY <1>9, <2>3 DEF HistoryInv, StoresHistory
<1>12. ASSUME NEW s \in clean
       PROVE  /\ told = pairs /\ Len(told) = n /\ s \in Probes
              /\ Told(told, n, s) = SeedRows(s) /\ SeedRows(s) \subseteq Rows
              /\ SeedRows(s) \subseteq reading[s]
  <2>1. told = pairs /\ s \in Probes
    BY <1>8, <1>10
  <2>2. SeedRows(s) \subseteq Rows /\ SeedRows(s) \subseteq reading[s]
    BY <2>1, SeedIsNewest
  <2>3. ASSUME NEW r \in SeedRows(s) PROVE r \in Told(told, n, s)
    <3>1. \E i \in 1 .. n : pairs[i] = <<s, r>>
      BY <1>2, <1>3, <2>1
    <3> QED  BY <2>1, <2>2, <3>1 DEF Told
  <2>4. ASSUME NEW r \in Told(told, n, s) PROVE r \in SeedRows(s)
    <3>1. PICK i \in 1 .. n : pairs[i] = <<s, r>>
      BY <2>1 DEF Told
    <3>2. pairs[i] \in SeedPairs
      BY <1>2
    <3>3. pairs[i][2] \in SeedRows(pairs[i][1])
      BY <1>3, <3>2
    <3> QED  BY <3>1, <3>3
  <2> QED  BY <1>4, <2>1, <2>2, <2>3, <2>4
<1>13. TellsInOrder(told, old, clean)
  <2>1. ASSUME NEW s \in clean PROVE Once(old[s] \cup Told(told, Len(told), s))
    <3>1. old[s] = {} /\ Told(told, Len(told), s) \subseteq reading[s] /\ Once(reading[s])
      BY <1>8, <1>12, RowsAreFinite
    <3> QED  BY <3>1 DEF Once
  <2>2. ASSUME NEW j \in 1 .. Len(told), told[j][1] \in clean
        PROVE  NewerThan(told[j][2], old[told[j][1]] \cup Told(told, j - 1, told[j][1]))
    <3>1. PICK s : s = told[j][1]
      OBVIOUS
    <3>2. told = pairs /\ Len(told) = n /\ s \in Probes /\ j \in 1 .. n /\ old[s] = {} /\ s \in Int
      BY <1>8, <1>12, <2>2, <3>1, HistoryAssumption
    <3>3. ASSUME NEW r \in Told(told, j - 1, s) PROVE r.at < told[j][2].at
      <4>1. PICK i \in 1 .. j - 1 : told[i] = <<s, r>>
        BY DEF Told
      <4>2. i \in 1 .. n /\ i < j
        BY <1>2, <3>2
      <4>3. <<pairs[i], pairs[j]>> \in SeedBefore
        BY <1>2, <3>2, <4>2
      <4>4. pairs[i][1] < pairs[j][1] \/ (pairs[i][1] = pairs[j][1] /\ pairs[i][2].at < pairs[j][2].at)
        BY <4>3 DEF SeedBefore
      <4>5. pairs[i][1] = s /\ pairs[i][2] = r /\ pairs[j][1] = s
        BY <3>1, <3>2, <4>1
      <4> QED  BY <3>2, <4>4, <4>5
    <3> QED  BY <3>1, <3>2, <3>3 DEF NewerThan
  <2> QED  BY <2>1, <2>2 DEF TellsInOrder
<1>14. /\ Bounded(stuckHistory')
       /\ \A s \in clean : Newest(stuckHistory'.window[s], old[s] \cup Told(told, Len(told), s))
  <2>1. old \in [Probes -> SUBSET Rows] /\ clean \in SUBSET Probes
    BY <1>8
  <2>2. \A s \in clean : Newest(Empty.window[s], old[s])
    <3>1. \A s \in clean : Empty.window[s] = <<>> /\ old[s] = {}
      BY <1>8 DEF Empty
    <3> QED  BY <3>1 DEF Newest
  <2> QED  BY <1>7, <1>9, <1>13, <2>1, <2>2, EmptyIsBounded, ObservedKeeps
<1>15. RemembersNewest'
  <2>1. ASSUME NEW s \in Probes \ lost' PROVE Newest(stuckHistory'.window[s], Usable(s)')
    <3>1. s \in clean /\ s \in Probes /\ old[s] = {}
      BY <1>8, <1>9
    <3>2. PICK w : w = stuckHistory'.window[s]
      OBVIOUS
    <3>3. old[s] \cup Told(told, Len(told), s) = SeedRows(s)
      BY <1>12, <3>1
    <3>4. Newest(w, SeedRows(s))
      BY <1>14, <3>1, <3>2, <3>3
    <3>5. /\ SeedRows(s) \subseteq Usable(s)
          /\ \A r \in Usable(s) \ SeedRows(s) : \A t \in SeedRows(s) : r.at < t.at
      BY <3>1, SeedIsNewest
    <3>6. Newest(w, Usable(s))
      BY <3>4, <3>5 DEF Newest
    <3>7. Usable(s)' = Usable(s)
      BY <1>9 DEF Usable
    <3> QED  BY <3>2, <3>6, <3>7
  <2> QED  BY <1>14, <2>1 DEF RemembersNewest
<1> QED  BY <1>11, <1>15 DEF HistoryInv

LEMMA HistoryNextInv == HistoryInv /\ [HistoryNext]_historyVars => HistoryInv'
<1> SUFFICES ASSUME HistoryInv, [HistoryNext]_historyVars PROVE HistoryInv'
  OBVIOUS
<1>1. ASSUME NEW s \in Probes, NEW v \in Measurements \cup {Clamped}, Measures(s, v)
      PROVE  HistoryInv'
  BY <1>1, MeasuresKeeps
<1>2. CASE TimePasses
  BY <1>2, TimePassesKeeps
<1>3. ASSUME NEW devices \in SetToSeqs({s \in Probes : latest[s] # {}}),
             NEW written \in SUBSET Probes, Poll(BatchOf(devices), written)
      PROVE  HistoryInv'
  BY <1>3, BatchLists, PollKeeps
<1>4. ASSUME NEW seeded \in 0 .. Len(SeedOrder), Restart(seeded) PROVE HistoryInv'
  BY <1>4, RestartKeeps
<1>5. CASE UNCHANGED historyVars
  BY <1>5 DEF historyVars, HistoryInv, Serves, StoresHistory, RemembersNewest, Usable
<1> QED  BY <1>1, <1>2, <1>3, <1>4, <1>5 DEF HistoryNext, BatchOf

-----------------------------------------------------------------------------
(* What the invariant says. *)

LEMMA BoundedHolds == ASSUME HistoryInv PROVE MemoryBounded
<1>1. PICK q, n : q = stuckHistory.order /\ n = Len(q)
  OBVIOUS
<1>2. /\ q \in Seq(Probes) /\ n \in Nat /\ DOMAIN q = 1 .. n /\ n <= TrackedMax
      /\ \A i, j \in 1 .. n : q[i] = q[j] => i = j
  BY <1>1 DEF HistoryInv, RemembersNewest, Bounded, OrderHolds, Histories
<1>3. Len(q) = Cardinality({q[i] : i \in DOMAIN q})
  <2>1. PICK D, T : D = 1 .. n /\ T = {q[i] : i \in D}
    OBVIOUS
  <2>2. q \in [D -> T]
    BY <1>2, <2>1
  <2>3. q \in Bijection(D, T)
    BY <1>2, <2>1, <2>2 DEF Bijection, Injection, Surjection, IsInjective
  <2>4. IsFiniteSet(D) /\ Cardinality(D) = n
    BY <1>2, <2>1, FS_Interval
  <2>5. Cardinality(T) = n
    BY <2>3, <2>4, FS_Bijection DEF ExistsBijection
  <2> QED  BY <1>1, <1>2, <2>1, <2>5
<1>4. Tracked(stuckHistory) = {q[i] : i \in DOMAIN q}
  BY <1>1 DEF Tracked
<1> QED  BY <1>1, <1>2, <1>3, <1>4 DEF MemoryBounded, HistoryInv, RemembersNewest, Bounded

LEMMA NewestHolds == ASSUME HistoryInv PROVE WindowIsNewest
<1> SUFFICES ASSUME NEW s \in Probes \ lost
             PROVE  LET at == Instants(stuckHistory.window[s])
                    IN /\ at \subseteq {r.at : r \in Usable(s)}
                       /\ \A r \in Usable(s) : r.at \in at \/ \A t \in at : r.at < t
  BY DEF WindowIsNewest
<1>1. PICK w : w = stuckHistory.window[s]
  OBVIOUS
<1>2. Newest(w, Usable(s))
  BY <1>1 DEF HistoryInv, RemembersNewest
<1> QED  BY <1>1, <1>2 DEF Newest, Instants

\* The rows of a window: no more of them than it is long.
LEMMA WindowRows ==
  ASSUME HistoryInv, NEW s \in Probes \ lost
  PROVE  \E w, held : /\ w = stuckHistory.window[s] /\ held = {w[i] : i \in DOMAIN w}
                      /\ w \in Seq(Rows) /\ DOMAIN w = 1 .. Len(w) /\ Len(w) \in Nat
                      /\ held \subseteq Usable(s)
                      /\ \A r \in Usable(s) : r \in held \/ \A t \in held : r.at < t.at
                      /\ IsFiniteSet(held) /\ Cardinality(held) <= Len(w) /\ Len(w) <= Depth
                      /\ Cardinality(held) = Cardinality(Instants(w))
<1>1. PICK w, held : w = stuckHistory.window[s] /\ held = {w[i] : i \in DOMAIN w}
  OBVIOUS
<1>2. w \in Seq(Rows) /\ Len(w) <= Depth /\ Newest(w, Usable(s))
  BY <1>1 DEF HistoryInv, RemembersNewest, Bounded, OrderHolds, Histories
<1>3. DOMAIN w = 1 .. Len(w) /\ Len(w) \in Nat
  BY <1>2
<1>4. held \subseteq Usable(s) /\ \A r \in Usable(s) : r \in held \/ \A t \in held : r.at < t.at
  BY <1>1, <1>2 DEF Newest
<1>5. IsFiniteSet(held) /\ Cardinality(held) <= Len(w)
  <2>1. PICK D, m : m = Len(w) /\ D = 1 .. m
    OBVIOUS
  <2>2. w \in Surjection(D, held)
    BY <1>1, <1>2, <1>3, <2>1 DEF Surjection
  <2>4. m \in Nat
    BY <1>3, <2>1
  <2>5. IsFiniteSet(1 .. m) /\ Cardinality(1 .. m) = m
    BY <2>4, FS_Interval
  <2>3. IsFiniteSet(D) /\ Cardinality(D) = m
    BY <2>1, <2>5
  <2> QED  BY <2>1, <2>2, <2>3, FS_Surjection
<1>6. Cardinality(held) = Cardinality(Instants(w))
  <2>1. PICK T, f : T = Instants(w) /\ f = [r \in held |-> r.at]
    OBVIOUS
  <2>2. T = {r.at : r \in held}
    BY <1>1, <2>1 DEF Instants
  <2>3. Once(held)
    BY <1>4, SeedIsNewest, RowsAreFinite DEF Once
  <2>4. f \in Bijection(held, T)
    BY <2>1, <2>2, <2>3 DEF Bijection, Injection, Surjection, IsInjective, Once
  <2> QED  BY <1>5, <2>1, <2>4, FS_Bijection DEF ExistsBijection
<1> QED  BY <1>1, <1>2, <1>3, <1>4, <1>5, <1>6

\* What the check would make of the rows the seed finds.
LEMMA ReseededIs ==
  ASSUME HistoryInv, NEW s \in Probes
  PROVE  /\ IsFiniteSet(SeedRows(s))
         /\ Stuck(Reseeded(s)) <=>
              /\ Cardinality(SeedRows(s)) >= Depth
              /\ \A q, r \in SeedRows(s) : q.value = r.value
<1>1. PICK S, f, n : S = SeedRows(s) /\ f = Reseeded(s) /\ n = Cardinality(S)
  OBVIOUS
<1>2. S \in SUBSET reading[s] /\ IsFiniteSet(reading[s]) /\ reading[s] \subseteq Samples
      /\ Once(reading[s]) /\ \A r \in Samples : r.at \in Int
  BY <1>1, SeedIsNewest, RowsAreFinite
<1>3. IsFiniteSet(S) /\ S \in SUBSET Samples /\ Once(S) /\ n \in Nat
  BY <1>1, <1>2, FS_Subset, FS_CardinalityType DEF Once
<1>4. InTurn(S, Earlier(S), f)
  <2>1. Orders(S, Earlier(S))
    BY <1>2, <1>3, EarlierOrders
  <2> QED  BY <1>1, <2>1, SortedInTurn DEF Reseeded, InOrder
<1>5. f \in [1 .. n -> S] /\ \A r \in S : \E i \in 1 .. n : f[i] = r
  BY <1>1, <1>4 DEF InTurn
<1>6. Len(f) = n /\ DOMAIN f = 1 .. n
  <2>1. f \in [1 .. n -> S] /\ n \in Nat
    BY <1>3, <1>5
  <2> QED  BY ONLY <2>1
<1>7. Stuck(f) <=> n >= Depth /\ \A i \in 1 .. n : f[i].value = f[1].value
  BY <1>6 DEF Stuck
<1>8. (\A i \in 1 .. n : f[i].value = f[1].value) <=> \A q, r \in S : q.value = r.value
  <2>1. ASSUME \A i \in 1 .. n : f[i].value = f[1].value, NEW q \in S, NEW r \in S
        PROVE  q.value = r.value
    BY <1>5, <2>1
  <2>2. ASSUME \A q, r \in S : q.value = r.value, NEW i \in 1 .. n
        PROVE  f[i].value = f[1].value
    <3>1. 1 \in 1 .. n
      BY <1>3
    <3> QED  BY <1>5, <2>2, <3>1
  <2> QED  BY <2>1, <2>2
<1> QED  BY <1>1, <1>3, <1>7, <1>8

\* A full window and a full seed: the window holds nothing the seed leaves out.
LEMMA FullWindowIsSeeded ==
  ASSUME HistoryInv, NEW s \in Probes, NEW held \in SUBSET Usable(s), IsFiniteSet(held),
         Cardinality(held) <= Depth, Cardinality(SeedRows(s)) >= Depth,
         \A r \in Usable(s) : r \in held \/ \A t \in held : r.at < t.at
  PROVE  held \subseteq SeedRows(s)
<1> SUFFICES ASSUME NEW t \in held, t \notin SeedRows(s) PROVE FALSE
  OBVIOUS
<1>1. PICK S : S = SeedRows(s)
  OBVIOUS
<1>2. /\ S \subseteq Usable(s) /\ t \in Usable(s)
      /\ \A r \in S : t.at < r.at
      /\ \A r \in Usable(s) : r.at \in Int
  BY <1>1, SeedIsNewest, RowsAreFinite
<1>3. S \subseteq held
  <2> SUFFICES ASSUME NEW r \in S, r \notin held PROVE FALSE
    OBVIOUS
  <2>1. r \in Usable(s) /\ r.at < t.at /\ t.at < r.at
    BY <1>2
  <2> QED  BY <1>2, <2>1
<1>4. S \in SUBSET held /\ S # held
  BY <1>1, <1>3
<1>5. Cardinality(S) <= Cardinality(held) /\ Cardinality(S) # Cardinality(held) /\ IsFiniteSet(S)
  BY <1>4, FS_Subset
<1>6. Cardinality(S) \in Nat /\ Cardinality(held) \in Nat /\ Depth \in Nat
  BY <1>5, FS_CardinalityType, HistoryAssumption
<1> QED  BY <1>1, <1>5, <1>6

\* Depth instants within the seed's reach: the seed finds just those.
LEMMA WindowIsSeed ==
  ASSUME HistoryInv, NEW s \in Probes, NEW held \in SUBSET Usable(s), IsFiniteSet(held),
         Cardinality(held) = Depth, \A t \in held : t.at > clock - SeedWindow,
         \A r \in Usable(s) : r \in held \/ \A t \in held : r.at < t.at
  PROVE  SeedRows(s) = held
<1>1. PICK R, S : R = Recent(s) /\ S = SeedRows(s)
  OBVIOUS
<1>2. S = {r \in R : Cardinality(NewerIn(R, r)) < Depth}
  BY <1>1 DEF SeedRows, Recent, NewerIn
<1>3. /\ S \subseteq R /\ R \subseteq Usable(s) /\ \A r \in Usable(s) : r.at \in Int
      /\ IsFiniteSet(R) /\ Depth \in Nat
  <2>1. Recent(s) \in SUBSET reading[s] /\ IsFiniteSet(reading[s])
    BY RowsAreFinite DEF Recent
  <2>2. IsFiniteSet(R)
    BY <1>1, <2>1, FS_Subset
  <2> QED  BY <1>1, <2>2, SeedIsNewest, RowsAreFinite, HistoryAssumption
<1>4. held \subseteq R
  BY <1>1 DEF Recent, Usable
<1>5. ASSUME NEW t \in held PROVE t \in S
  <2>1. PICK a, b : a = NewerIn(R, t) /\ b = held \ {t}
    OBVIOUS
  <2>2. a \subseteq b
    <3> SUFFICES ASSUME NEW q \in a PROVE q \in b
      OBVIOUS
    <3>1. q \in Usable(s) /\ q.at > t.at /\ q.at \in Int /\ t.at \in Int
      BY <1>3, <1>4, <2>1 DEF NewerIn
    <3>2. q \in held
      BY <3>1
    <3>3. q # t
      BY <3>1
    <3> QED  BY <2>1, <3>2, <3>3
  <2>3. Cardinality(held \ {t}) = Cardinality(held) - 1 /\ IsFiniteSet(held \ {t})
    BY FS_RemoveElement
  <2>4. IsFiniteSet(b) /\ Cardinality(b) = Depth - 1
    BY <2>1, <2>3
  <2>5. Cardinality(a) <= Cardinality(b) /\ IsFiniteSet(a)
    BY <2>2, <2>4, FS_Subset
  <2>6. Cardinality(a) \in Nat
    BY <2>5, FS_CardinalityType
  <2> QED  BY <1>2, <1>3, <1>4, <2>1, <2>4, <2>5, <2>6
<1>6. ASSUME NEW r \in S, r \notin held PROVE FALSE
  <2>1. r \in R /\ Cardinality(NewerIn(R, r)) < Depth /\ r \in Usable(s)
    BY <1>2, <1>3
  <2>2. \A t \in held : r.at < t.at
    BY <1>6, <2>1
  <2>3. PICK a : a = NewerIn(R, r)
    OBVIOUS
  <2>4. held \subseteq a
    BY <1>3, <1>4, <2>1, <2>2, <2>3 DEF NewerIn
  <2>5. IsFiniteSet(a)
    <3>1. a \in SUBSET R
      BY <2>3 DEF NewerIn
    <3> QED  BY <1>3, <3>1, FS_Subset
  <2>6. Cardinality(held) <= Cardinality(a)
    BY <2>4, <2>5, FS_Subset
  <2>7. Cardinality(a) \in Nat
    BY <2>5, FS_CardinalityType
  <2> QED  BY <1>3, <2>1, <2>3, <2>6, <2>7
<1> QED  BY <1>1, <1>5, <1>6

LEMMA RestartHolds == ASSUME HistoryInv PROVE RestartAgrees
<1> SUFFICES ASSUME NEW s \in Probes \ lost
             PROVE  LET window == stuckHistory.window[s]
                    IN /\ Stuck(Reseeded(s)) /\ Len(window) = Depth => Stuck(window)
                       /\ /\ Stuck(window)
                          /\ Cardinality(Instants(window)) = Depth
                          /\ \A t \in Instants(window) : t > clock - SeedWindow
                          => Stuck(Reseeded(s))
  BY DEF RestartAgrees
<1>1. PICK w, held : /\ w = stuckHistory.window[s] /\ held = {w[i] : i \in DOMAIN w}
                     /\ w \in Seq(Rows) /\ DOMAIN w = 1 .. Len(w) /\ Len(w) \in Nat
                     /\ held \subseteq Usable(s)
                     /\ \A r \in Usable(s) : r \in held \/ \A t \in held : r.at < t.at
                     /\ IsFiniteSet(held) /\ Cardinality(held) <= Len(w) /\ Len(w) <= Depth
                     /\ Cardinality(held) = Cardinality(Instants(w))
  BY WindowRows
<1>2. Depth \in Nat /\ Depth >= 1 /\ Cardinality(held) \in Nat
  BY <1>1, HistoryAssumption, FS_CardinalityType
<1>3. /\ IsFiniteSet(SeedRows(s))
      /\ Stuck(Reseeded(s)) <=>
           /\ Cardinality(SeedRows(s)) >= Depth
           /\ \A q, r \in SeedRows(s) : q.value = r.value
  BY ReseededIs
<1>4. ASSUME Stuck(Reseeded(s)), Len(w) = Depth PROVE Stuck(w)
  <2>1. held \in SUBSET Usable(s) /\ Cardinality(held) <= Depth
    BY <1>1, <1>4
  <2>2. held \subseteq SeedRows(s)
    BY <1>1, <1>3, <1>4, <2>1, FullWindowIsSeeded
  <2>3. \A i \in DOMAIN w : w[i].value = w[1].value
    BY <1>1, <1>2, <1>3, <1>4, <2>2
  <2> QED  BY <1>2, <1>4, <2>3 DEF Stuck
<1>5. ASSUME Stuck(w), Cardinality(Instants(w)) = Depth, \A t \in Instants(w) : t > clock - SeedWindow
      PROVE  Stuck(Reseeded(s))
  <2>1. held \in SUBSET Usable(s) /\ Cardinality(held) = Depth
    BY <1>1, <1>5
  <2>2. \A t \in held : t.at > clock - SeedWindow
    BY <1>1, <1>5 DEF Instants
  <2>3. SeedRows(s) = held
    BY <1>1, <2>1, <2>2, WindowIsSeed
  <2>4. \A q, r \in held : q.value = r.value
    BY <1>1, <1>5 DEF Stuck
  <2> QED  BY <1>2, <1>3, <2>1, <2>3, <2>4
<1> QED  BY <1>1, <1>4, <1>5

LEMMA HistoryInvTypes == ASSUME HistoryInv PROVE HistoryTypeOK
<1>1. ASSUME NEW s \in Probes
      PROVE  /\ latest[s] \subseteq Samples /\ Cardinality(latest[s]) <= 1
             /\ reading[s] \subseteq Samples
             /\ stuckHistory.window[s] \in Seq([at : 0 .. MaxTime, value : Measurements])
  <2>1. latest[s] \subseteq Samples /\ reading[s] \subseteq Samples /\ \A o, p \in latest[s] : o = p
    BY DEF HistoryInv, Serves
  <2>2. Cardinality(latest[s]) <= 1
    <3>1. CASE latest[s] = {}
      BY <3>1, FS_EmptySet
    <3>2. CASE latest[s] # {}
      <4>1. PICK o \in latest[s] : TRUE
        BY <3>2
      <4>2. latest[s] = {o}
        BY <2>1, <4>1
      <4>3. Cardinality({o}) = 1
        BY FS_Singleton
      <4> QED  BY <4>2, <4>3
    <3> QED  BY <3>1, <3>2
  <2> QED  BY <2>1, <2>2 DEF HistoryInv, RemembersNewest, Bounded, OrderHolds, Histories, Rows
<1>2. stuckHistory.order \in Seq(Probes)
  BY DEF HistoryInv, RemembersNewest, Bounded, OrderHolds, Histories
<1> QED  BY <1>1, <1>2 DEF HistoryTypeOK, HistoryInv, Serves

\* The memory of the stuck check: for any cap, depth and seed window and any number of
\* devices, order and state stay one set within the cap, a window holds the newest rows
\* until a write or a seed fails, and a restart agrees with the memory it replaces
\* (History.Observe, Scorer.Score, SeedHistory).
THEOREM StuckMemoryAlwaysHolds == HistorySpec => [](HistoryTypeOK /\ StuckMemoryHolds)
<1>1. HistoryInv => HistoryTypeOK /\ StuckMemoryHolds
  BY HistoryInvTypes, BoundedHolds, NewestHolds, RestartHolds DEF StuckMemoryHolds
<1> QED  BY HistoryInitInv, HistoryNextInv, <1>1, PTL DEF HistorySpec

-----------------------------------------------------------------------------
(***************************************************************************)
(* The browser's fetch policy, for any number of calls, URLs and clears    *)
(* and any ceiling of the cache.  First, moving an entry of a Map to its   *)
(* end.                                                                    *)
(***************************************************************************)

Distinct(s) == \A i, j \in DOMAIN s : s[i] = s[j] => i = j

LEMMA MoveNew ==
    ASSUME NEW T, NEW s \in Seq(T), NEW x \in T, \A i \in DOMAIN s : s[i] # x
    PROVE  /\ MoveToEnd(s, x) \in Seq(T)
           /\ Len(MoveToEnd(s, x)) = Len(s) + 1
           /\ \A j \in 1 .. Len(s) : MoveToEnd(s, x)[j] = s[j]
           /\ MoveToEnd(s, x)[Len(s) + 1] = x
<1>1. x \notin ToSet(s)
  BY DEF ToSet
<1>2. MoveToEnd(s, x) = Append(s, x)
  BY <1>1 DEF MoveToEnd
<1> QED
  BY <1>2, AppendProperties

LEMMA MoveOld ==
    ASSUME NEW T, NEW s \in Seq(T), Distinct(s), NEW i \in DOMAIN s
    PROVE  /\ MoveToEnd(s, s[i]) \in Seq(T)
           /\ Len(MoveToEnd(s, s[i])) = Len(s)
           /\ \A j \in 1 .. Len(s) - 1 :
                 MoveToEnd(s, s[i])[j] = IF j < i THEN s[j] ELSE s[j + 1]
           /\ MoveToEnd(s, s[i])[Len(s)] = s[i]
<1>1. s[i] \in ToSet(s) /\ IndexOf(s, s[i]) = i
  BY DEF ToSet, IndexOf, Distinct
<1>2. i \in 1 .. Len(s) /\ Len(s) \in Nat
  BY LenProperties
<1> DEFINE a == SubSeq(s, 1, i - 1)
           b == SubSeq(s, i + 1, Len(s))
<1>3. MoveToEnd(s, s[i]) = Append(a \o b, s[i])
  BY <1>1 DEF MoveToEnd, RemoveAt
<1>4. /\ a \in Seq(T) /\ Len(a) = i - 1
      /\ \A j \in 1 .. i - 1 : a[j] = s[j]
  BY <1>2, SubSeqProperties
<1>5. /\ b \in Seq(T) /\ Len(b) = Len(s) - i
      /\ \A j \in 1 .. Len(s) - i : b[j] = s[i + j]
  BY <1>2, SubSeqProperties
<1> HIDE DEF a, b
<1>6. /\ a \o b \in Seq(T) /\ Len(a \o b) = Len(s) - 1
      /\ \A j \in 1 .. Len(s) - 1 : (a \o b)[j] = IF j < i THEN s[j] ELSE s[j + 1]
  <2>1. a \o b \in Seq(T) /\ Len(a \o b) = Len(a) + Len(b)
    BY <1>4, <1>5, ConcatProperties
  <2>2. ASSUME NEW j \in 1 .. Len(s) - 1, j < i PROVE (a \o b)[j] = s[j]
    BY <1>2, <1>4, <1>5, <2>2, ConcatProperties
  <2>3. ASSUME NEW j \in 1 .. Len(s) - 1, ~(j < i) PROVE (a \o b)[j] = s[j + 1]
    <3>1. (a \o b)[j] = b[j - Len(a)]
      BY SMTT(60), <1>2, <1>4, <1>5, <2>3, ConcatProperties
    <3>2. j - Len(a) \in 1 .. Len(s) - i /\ i + (j - Len(a)) = j + 1
      BY <1>2, <1>4, <2>3
    <3> QED
      BY <1>5, <3>1, <3>2
  <2>4. Len(a) + Len(b) = Len(s) - 1
    BY <1>2, <1>4, <1>5
  <2>5. Len(a \o b) = Len(s) - 1
    BY <2>1, <2>4
  <2> QED
    BY <2>1, <2>2, <2>3, <2>5
<1>7. s[i] \in T
  BY <1>2, ElementOfSeq
<1> QED
  BY <1>2, <1>3, <1>6, <1>7, AppendProperties

-----------------------------------------------------------------------------
(* The requests and their callers. *)

WaitersOf(r) == {c \in Calls : status[c] = "waiting" /\ joined[c] = r}

\* A request that is on its way, or whose answer is being handled.
Under(r) == phase[r] \notin {"none", "over"} /\ ~aborted[r]

Typed ==
    /\ status \in [Calls -> Statuses]
    /\ url \in [Calls -> Urls]
    /\ joined \in [Calls -> Calls \cup {NoRequest}]
    /\ got \in [Calls -> Calls \cup {NoRequest}]
    /\ phase \in [Calls -> Phases]
    /\ outcome \in [Calls -> {"none", "body", "failed", "cut"}]
    /\ sent \in [Calls -> 0 .. 2]
    /\ aborted \in [Calls -> BOOLEAN]
    /\ waiters \in [Calls -> Nat]
    /\ inFlight \in [Urls -> Calls \cup {NoRequest}]
    /\ clears \in 0 .. MaxClears
    /\ began \in [Calls -> 0 .. MaxClears]

\* What the phase of a request says of the rest of it.
PhaseSays ==
    \A r \in Calls :
        /\ status[r] = "new" => phase[r] = "none"
        /\ phase[r] = "none" => ~aborted[r] /\ WaitersOf(r) = {}
        /\ phase[r] \in {"settled", "over"} => outcome[r] # "none"
        /\ outcome[r] = "cut" \/ phase[r] = "aborting" => aborted[r]

\* A caller waits for a request made since the same clear; if that one was
\* aborted under it, the cache has been cleared since.
CallerSays ==
    \A c \in Calls :
        /\ began[c] <= clears
        /\ status[c] = "waiting" => joined[c] \in Calls /\ began[joined[c]] = began[c]
        /\ status[c] = "waiting" /\ aborted[joined[c]] => clears > began[c]
        /\ status[c] = "cut" => clears > began[c]

\* The refcount, and that nobody's request does not stay under way.
Held ==
    \A r \in Calls : /\ waiters[r] = Cardinality(WaitersOf(r))
                     /\ Under(r) => WaitersOf(r) # {}

\* What is under way is what a new call of its URL joins.
Installed ==
    /\ \A r \in Calls : Under(r) => inFlight[url[r]] = r
    /\ \A u \in Urls, r \in Calls :
          inFlight[u] = r => Under(r) /\ url[r] = u /\ began[r] = clears

FetchInv == Typed /\ PhaseSays /\ CallerSays /\ Held /\ Installed

LEMMA FiniteWaiters ==
    \A r : IsFiniteSet(WaitersOf(r)) /\ Cardinality(WaitersOf(r)) \in 0 .. Cardinality(Calls)
<1> TAKE r
<1>1. WaitersOf(r) \subseteq Calls
  BY DEF WaitersOf
<1> QED
  BY <1>1, FS_Subset, FS_CardinalityType, ApiCacheAssumption

LEMMA InitFetchInv == Init => FetchInv
<1> SUFFICES ASSUME Init PROVE FetchInv
  OBVIOUS
<1>1. Typed
  BY ApiCacheAssumption DEF Init, Typed, Statuses, Phases
<1>2. \A r : WaitersOf(r) = {}
  BY DEF Init, WaitersOf
<1>3. PhaseSays /\ CallerSays /\ Installed
  BY <1>2, ApiCacheAssumption DEF Init, PhaseSays, CallerSays, Installed, Under
<1>4. Held
  BY <1>2, FS_EmptySet DEF Init, Held, Under
<1> QED
  BY <1>1, <1>3, <1>4 DEF FetchInv

\* A caller more.
LEMMA WaiterComes ==
    ASSUME Typed, Held, NEW c \in Calls, NEW r \in Calls, status[c] # "waiting", Wait(c, r)
    PROVE  \A q \in Calls :
              /\ WaitersOf(q)' = IF q = r THEN WaitersOf(q) \cup {c} ELSE WaitersOf(q)
              /\ waiters'[q] = Cardinality(WaitersOf(q)')
<1> TAKE q \in Calls
<1>1. WaitersOf(q)' = IF q = r THEN WaitersOf(q) \cup {c} ELSE WaitersOf(q)
  BY DEF Wait, WaitersOf, Typed
<1>2. c \notin WaitersOf(q) /\ IsFiniteSet(WaitersOf(q))
  BY FiniteWaiters DEF WaitersOf
<1>3. Cardinality(WaitersOf(q) \cup {c}) = Cardinality(WaitersOf(q)) + 1
  BY <1>2, FS_AddElement
<1>4. waiters[q] = Cardinality(WaitersOf(q)) /\ waiters'[q] = IF q = r THEN waiters[q] + 1 ELSE waiters[q]
  BY DEF Held, Wait, Typed
<1> QED
  BY <1>1, <1>3, <1>4

\* A caller less.
LEMMA WaiterGoes ==
    ASSUME Typed, Held, NEW c \in Calls, NEW r \in Calls, status[c] = "waiting", joined[c] = r,
           NEW to, to # "waiting", status' = [status EXCEPT ![c] = to], joined' = joined,
           waiters' = [waiters EXCEPT ![r] = @ - 1]
    PROVE  /\ \A q \in Calls :
                 /\ WaitersOf(q)' = IF q = r THEN WaitersOf(q) \ {c} ELSE WaitersOf(q)
                 /\ waiters'[q] = Cardinality(WaitersOf(q)')
                 /\ waiters'[q] \in Nat
           /\ waiters[r] = 1 => WaitersOf(r)' = {}
           /\ waiters[r] > 1 => WaitersOf(r)' # {}
<1>1. ASSUME NEW q \in Calls
      PROVE  /\ WaitersOf(q)' = IF q = r THEN WaitersOf(q) \ {c} ELSE WaitersOf(q)
             /\ waiters'[q] = Cardinality(WaitersOf(q)')
             /\ waiters'[q] \in Nat
  <2>1. WaitersOf(q)' = IF q = r THEN WaitersOf(q) \ {c} ELSE WaitersOf(q)
    BY DEF WaitersOf, Typed
  <2>2. IsFiniteSet(WaitersOf(q)) /\ (c \in WaitersOf(q) <=> q = r)
    BY FiniteWaiters DEF WaitersOf
  <2>3. q = r => Cardinality(WaitersOf(q) \ {c}) = Cardinality(WaitersOf(q)) - 1
    BY <2>2, FS_RemoveElement
  <2>4. /\ waiters[q] = Cardinality(WaitersOf(q))
        /\ waiters'[q] = IF q = r THEN waiters[q] - 1 ELSE waiters[q]
    BY DEF Held, Typed
  <2>5. Cardinality(WaitersOf(q)') \in Nat
    BY <2>1, <2>2, FS_CardinalityType, FS_RemoveElement
  <2> QED
    BY <2>1, <2>3, <2>4, <2>5
<1>2. waiters'[r] = waiters[r] - 1 /\ waiters[r] \in Nat
  BY DEF Typed
<1>3. IsFiniteSet(WaitersOf(r)')
  <2>1. WaitersOf(r)' = WaitersOf(r) \ {c}
    BY <1>1
  <2> QED
    BY <2>1, FiniteWaiters, FS_RemoveElement
<1>4. Cardinality(WaitersOf(r)') = waiters[r] - 1
  BY <1>1, <1>2
<1> QED
  BY <1>1, <1>2, <1>3, <1>4, FS_EmptySet

\* The steps of a request that leave its callers, its fetch and the map alone.
LEMMA PhaseMoves ==
    ASSUME FetchInv, NEW r \in Calls, NEW to \in Phases \ {"none", "over"},
           phase[r] \notin {"none", "over"}, phase' = [phase EXCEPT ![r] = to],
           outcome' \in [Calls -> {"none", "body", "failed", "cut"}],
           \A q \in Calls : q # r => outcome'[q] = outcome[q],
           to = "settled" => outcome'[r] # "none",
           outcome'[r] = "cut" \/ to = "aborting" => aborted[r],
           sent' \in [Calls -> 0 .. 2],
           UNCHANGED <<calls, aborted, waiters, inFlight, clears>>
    PROVE  FetchInv'
<1>1. Typed'
  BY DEF FetchInv, Typed, calls
<1>2. /\ \A q \in Calls : phase'[q] = IF q = r THEN to ELSE phase[q]
      /\ \A q : WaitersOf(q)' = WaitersOf(q)
  BY DEF FetchInv, Typed, WaitersOf, calls
<1>3. \A q \in Calls : Under(q)' = Under(q)
  BY <1>2 DEF Under
<1>4. PhaseSays'
  <2> SUFFICES ASSUME NEW q \in Calls
               PROVE  /\ status'[q] = "new" => phase'[q] = "none"
                      /\ phase'[q] = "none" => ~aborted'[q] /\ WaitersOf(q)' = {}
                      /\ phase'[q] \in {"settled", "over"} => outcome'[q] # "none"
                      /\ outcome'[q] = "cut" \/ phase'[q] = "aborting" => aborted'[q]
    BY DEF PhaseSays
  <2> QED
    BY <1>2 DEF FetchInv, PhaseSays, calls
<1>5. CallerSays'
  BY DEF FetchInv, CallerSays, calls
<1>6. Held'
  BY <1>2, <1>3 DEF FetchInv, Held
<1>7. Installed'
  BY <1>3 DEF FetchInv, Installed, calls
<1> QED
  BY <1>1, <1>4, <1>5, <1>6, <1>7 DEF FetchInv

\* A call that is answered at once, or was aborted before it was made.
LEMMA CallAtOnce ==
    ASSUME FetchInv, NEW c \in Calls, Begin(c), NEW to \in {"body", "aborted"},
           status' = [status EXCEPT ![c] = to],
           got' \in [Calls -> Calls \cup {NoRequest}],
           UNCHANGED <<url, joined, requests, inFlight, clears>>
    PROVE  FetchInv'
<1>1. /\ status[c] = "new" /\ phase[c] = "none" /\ WaitersOf(c) = {}
      /\ began' = [began EXCEPT ![c] = clears]
  BY DEF Begin, FetchInv, PhaseSays
<1>2. Typed'
  BY <1>1, ApiCacheAssumption DEF FetchInv, Typed, Statuses, requests
<1>3. \A q : WaitersOf(q)' = WaitersOf(q)
  BY <1>1 DEF FetchInv, Typed, WaitersOf
<1>4. \A q \in Calls : /\ status'[q] = "waiting" <=> status[q] = "waiting"
                       /\ status'[q] = "cut" <=> status[q] = "cut"
                       /\ status'[q] = "new" => status[q] = "new"
                       /\ Under(q)' = Under(q)
  BY <1>1 DEF FetchInv, Typed, Under, requests
<1>5. PhaseSays'
  BY <1>3, <1>4 DEF FetchInv, PhaseSays, requests
<1>6. CallerSays'
  <2> SUFFICES ASSUME NEW q \in Calls
               PROVE  /\ began'[q] <= clears'
                      /\ status'[q] = "waiting" => joined'[q] \in Calls /\ began'[joined'[q]] = began'[q]
                      /\ status'[q] = "waiting" /\ aborted'[joined'[q]] => clears' > began'[q]
                      /\ status'[q] = "cut" => clears' > began'[q]
    BY DEF CallerSays
  <2>1. CASE q = c
    BY <1>1, <1>4, <2>1 DEF FetchInv, Typed
  <2>2. CASE q # c
    <3>1. began'[q] = began[q]
      BY <1>1, <2>2 DEF FetchInv, Typed
    <3>2. status[q] = "waiting" => joined[q] # c
      BY <1>1 DEF WaitersOf
    <3>3. status[q] = "waiting" => joined[q] \in Calls /\ began'[joined[q]] = began[joined[q]]
      BY <1>1, <3>2 DEF FetchInv, CallerSays, Typed
    <3> QED
      BY <1>4, <3>1, <3>3 DEF FetchInv, CallerSays, requests
  <2> QED
    BY <2>1, <2>2
<1>7. Held'
  BY <1>3, <1>4 DEF FetchInv, Held, requests
<1>8. Installed'
  <2>1. \A u \in Urls, q \in Calls : inFlight[u] = q => q # c /\ began'[q] = began[q]
    BY <1>1 DEF FetchInv, Typed, Installed, Under
  <2> QED
    BY <1>4, <2>1 DEF FetchInv, Installed
<1> QED
  BY <1>2, <1>5, <1>6, <1>7, <1>8 DEF FetchInv

LEMMA CallComes ==
    ASSUME FetchInv, NEW c \in Calls, CallJoins(c) \/ CallStarts(c)
    PROVE  FetchInv'
<1>1. PICK r \in Calls : /\ Begin(c) /\ Wait(c, r)
                         /\ \/ CallJoins(c) /\ r = inFlight[url[c]]
                            \/ CallStarts(c) /\ r = c
  <2>1. CASE CallJoins(c)
    BY <2>1 DEF CallJoins, FetchInv, Typed
  <2>2. CASE CallStarts(c)
    BY <2>2 DEF CallStarts
  <2> QED
    BY <2>1, <2>2
<1>2. /\ status[c] = "new" /\ phase[c] = "none" /\ WaitersOf(c) = {} /\ ~aborted[c]
      /\ began' = [began EXCEPT ![c] = clears]
      /\ status' = [status EXCEPT ![c] = "waiting"] /\ joined' = [joined EXCEPT ![c] = r]
      /\ waiters' = [waiters EXCEPT ![r] = @ + 1]
      /\ UNCHANGED <<url, got, outcome, aborted, clears>>
  BY <1>1 DEF Begin, Wait, CallJoins, CallStarts, FetchInv, PhaseSays
<1>3. \/ /\ Under(r) /\ began[r] = clears /\ r # c
         /\ UNCHANGED <<phase, sent, inFlight>>
      \/ /\ r = c /\ inFlight[url[c]] = NoRequest
         /\ phase' = [phase EXCEPT ![c] = "sent"] /\ sent' = [sent EXCEPT ![c] = 1]
         /\ inFlight' = [inFlight EXCEPT ![url[c]] = c]
  <2>1. CASE CallJoins(c) /\ r = inFlight[url[c]]
    <3>1. Under(r) /\ began[r] = clears
      BY <2>1 DEF CallJoins, FetchInv, Typed, Installed
    <3> QED
      BY <1>2, <2>1, <3>1 DEF CallJoins, Under
  <2>2. CASE CallStarts(c) /\ r = c
    BY <2>2 DEF CallStarts
  <2> QED
    BY <1>1, <2>1, <2>2
<1>4. Typed'
  <2>1. phase' \in [Calls -> Phases] /\ sent' \in [Calls -> 0 .. 2]
    BY <1>3 DEF FetchInv, Typed, Phases
  <2>2. inFlight' \in [Urls -> Calls \cup {NoRequest}]
    BY <1>3 DEF FetchInv, Typed
  <2>3. waiters' \in [Calls -> Nat]
    BY <1>2 DEF FetchInv, Typed
  <2>4. status' \in [Calls -> Statuses] /\ joined' \in [Calls -> Calls \cup {NoRequest}]
    BY <1>2 DEF FetchInv, Typed, Statuses
  <2>5. began' \in [Calls -> 0 .. MaxClears]
    BY <1>2 DEF FetchInv, Typed
  <2> QED
    BY <1>2, <2>1, <2>2, <2>3, <2>4, <2>5 DEF FetchInv, Typed
<1>5. \A q \in Calls :
         /\ WaitersOf(q)' = IF q = r THEN WaitersOf(q) \cup {c} ELSE WaitersOf(q)
         /\ waiters'[q] = Cardinality(WaitersOf(q)')
  BY <1>1, <1>2, WaiterComes DEF FetchInv
<1>6. \A q \in Calls : /\ phase'[q] = IF q = r /\ q = c THEN "sent" ELSE phase[q]
                       /\ Under(q)' <=> Under(q) \/ (q = r /\ q = c)
                       /\ q = r => Under(q)'
  BY <1>2, <1>3 DEF FetchInv, Typed, Under
<1>7. \A q \in Calls : /\ q # c => status'[q] = status[q] /\ joined'[q] = joined[q] /\ began'[q] = began[q]
                       /\ status'[c] = "waiting" /\ joined'[c] = r /\ began'[c] = clears
  BY <1>2 DEF FetchInv, Typed
<1>8. PhaseSays'
  <2> SUFFICES ASSUME NEW q \in Calls
               PROVE  /\ status'[q] = "new" => phase'[q] = "none"
                      /\ phase'[q] = "none" => ~aborted'[q] /\ WaitersOf(q)' = {}
                      /\ phase'[q] \in {"settled", "over"} => outcome'[q] # "none"
                      /\ outcome'[q] = "cut" \/ phase'[q] = "aborting" => aborted'[q]
    BY DEF PhaseSays
  <2>1. q = r => phase'[q] # "none"
    BY <1>6 DEF Under
  <2> QED
    BY <1>2, <1>5, <1>6, <1>7, <2>1 DEF FetchInv, PhaseSays
<1>9. CallerSays'
  <2> SUFFICES ASSUME NEW q \in Calls
               PROVE  /\ began'[q] <= clears'
                      /\ status'[q] = "waiting" => joined'[q] \in Calls /\ began'[joined'[q]] = began'[q]
                      /\ status'[q] = "waiting" /\ aborted'[joined'[q]] => clears' > began'[q]
                      /\ status'[q] = "cut" => clears' > began'[q]
    BY DEF CallerSays
  <2>1. CASE q = c
    <3>1. began'[r] = clears /\ ~aborted[r] /\ clears \in Int
      BY <1>2, <1>3, <1>7 DEF Under, FetchInv, Typed
    <3> QED
      BY <1>2, <1>7, <2>1, <3>1
  <2>2. CASE q # c
    <3>1. status[q] = "waiting" => joined[q] # c
      BY <1>2 DEF WaitersOf
    <3> QED
      BY <1>2, <1>7, <2>2, <3>1 DEF FetchInv, CallerSays
  <2> QED
    BY <2>1, <2>2
<1>10. Held'
  <2> SUFFICES ASSUME NEW q \in Calls
               PROVE  /\ waiters'[q] = Cardinality(WaitersOf(q)')
                      /\ Under(q)' => WaitersOf(q)' # {}
    BY DEF Held
  <2> QED
    BY <1>5, <1>6 DEF FetchInv, Held
<1>11. Installed'
  <2>1. ASSUME NEW q \in Calls, Under(q)' PROVE inFlight'[url'[q]] = q
    <3>1. CASE Under(q)
      <4>1. inFlight[url[q]] = q /\ url[q] \in Urls
        BY <3>1 DEF FetchInv, Installed, Typed
      <4> QED
        BY <1>2, <1>3, <4>1, ApiCacheAssumption DEF FetchInv, Typed
    <3>2. CASE ~Under(q)
      BY <1>2, <1>3, <1>6, <2>1, <3>2 DEF FetchInv, Typed
    <3> QED
      BY <3>1, <3>2
  <2>2. ASSUME NEW u \in Urls, NEW q \in Calls, inFlight'[u] = q
        PROVE  Under(q)' /\ url'[q] = u /\ began'[q] = clears'
    <3>1. CASE inFlight'[u] = inFlight[u]
      <4>1. Under(q) /\ url[q] = u /\ began[q] = clears
        BY <2>2, <3>1 DEF FetchInv, Installed
      <4>2. q # c
        BY <1>2, <4>1 DEF Under
      <4> QED
        BY <1>2, <1>6, <1>7, <4>1, <4>2
    <3>2. CASE inFlight'[u] # inFlight[u]
      <4>1. r = c /\ u = url[c] /\ q = c
        BY <1>3, <2>2, <3>2 DEF FetchInv, Typed
      <4> QED
        BY <1>2, <1>6, <1>7, <4>1
    <3> QED
      BY <3>1, <3>2
  <2> QED
    BY <2>1, <2>2 DEF Installed
<1> QED
  BY <1>4, <1>8, <1>9, <1>10, <1>11 DEF FetchInv

\* A caller leaves: it aborts, or its promise settles.  The last one to abort
\* takes the request along.
LEMMA CallerLeaves ==
    ASSUME FetchInv, NEW c \in Calls, Abort(c) \/ Deliver(c)
    PROVE  FetchInv'
<1>1. PICK r \in Calls : /\ r = joined[c] /\ status[c] = "waiting" /\ phase[r] # "none"
                         /\ began[r] = began[c] /\ c \in WaitersOf(r)
  BY DEF Abort, Deliver, FetchInv, CallerSays, PhaseSays, WaitersOf
<1>2. PICK to \in {"body", "failed", "aborted", "cut"} :
         /\ status' = [status EXCEPT ![c] = to]
         /\ to = "cut" => clears > began[c]
  <2>1. CASE Abort(c)
    <3>1. status' = [status EXCEPT ![c] = "aborted"]
      BY <2>1 DEF Abort
    <3> QED
      BY <3>1
  <2>2. CASE Deliver(c)
    <3>1. phase[r] = "over" /\ status' = [status EXCEPT ![c] = outcome[r]]
      BY <1>1, <2>2 DEF Deliver
    <3>2. outcome[r] \in {"body", "failed", "cut"}
      BY <3>1 DEF FetchInv, PhaseSays, Typed
    <3>3. outcome[r] = "cut" => clears > began[c]
      BY <1>1 DEF FetchInv, PhaseSays, CallerSays
    <3> QED
      BY <3>1, <3>2, <3>3
  <2> QED
    BY <2>1, <2>2
<1>3. /\ waiters' = [waiters EXCEPT ![r] = @ - 1]
      /\ UNCHANGED <<url, joined, began, phase, outcome, sent, clears>>
  BY <1>1 DEF Abort, Deliver
<1>4. got' \in [Calls -> Calls \cup {NoRequest}]
  BY <1>1 DEF Abort, Deliver, FetchInv, Typed
<1>5. \/ /\ waiters[r] = 1 /\ aborted' = [aborted EXCEPT ![r] = TRUE] /\ inFlight' = Leave(r)
      \/ /\ waiters[r] > 1 \/ ~Under(r)
         /\ UNCHANGED <<aborted, inFlight>>
  BY <1>1 DEF Abort, Deliver, Under
<1>6. /\ \A q \in Calls :
            /\ WaitersOf(q)' = IF q = r THEN WaitersOf(q) \ {c} ELSE WaitersOf(q)
            /\ waiters'[q] = Cardinality(WaitersOf(q)')
            /\ waiters'[q] \in Nat
      /\ waiters[r] = 1 => WaitersOf(r)' = {}
      /\ waiters[r] > 1 => WaitersOf(r)' # {}
  BY <1>1, <1>2, <1>3, WaiterGoes DEF FetchInv
<1>7. /\ \A q \in Calls : q # r => aborted'[q] = aborted[q]
      /\ waiters[r] = 1 \/ aborted'[r] = aborted[r]
      /\ \A q \in Calls : aborted[q] => aborted'[q]
      /\ \A q \in Calls : Under(q)' => Under(q)
  BY <1>1, <1>3, <1>5 DEF FetchInv, Typed, Under
<1>8. \A q \in Calls : /\ q # c => status'[q] = status[q]
                       /\ status'[c] = to
  BY <1>2 DEF FetchInv, Typed
<1>9. \A u \in Urls : inFlight'[u] = inFlight[u] \/ (inFlight'[u] = NoRequest /\ u = url[r])
  BY <1>1, <1>5 DEF Leave, FetchInv, Typed
<1>10. Typed'
  <2>1. aborted' \in [Calls -> BOOLEAN] /\ inFlight' \in [Urls -> Calls \cup {NoRequest}]
    BY <1>1, <1>5 DEF FetchInv, Typed, Leave
  <2>2. waiters' \in [Calls -> Nat] /\ status' \in [Calls -> Statuses]
    <3>1. waiters' = [q \in Calls |-> waiters'[q]]
      BY <1>3 DEF FetchInv, Typed
    <3>2. waiters' \in [Calls -> Nat]
      BY <1>6, <3>1
    <3> QED
      BY <1>2, <3>2 DEF FetchInv, Typed, Statuses
  <2> QED
    BY <1>3, <1>4, <2>1, <2>2 DEF FetchInv, Typed
<1>11. PhaseSays'
  <2> SUFFICES ASSUME NEW q \in Calls
               PROVE  /\ status'[q] = "new" => phase'[q] = "none"
                      /\ phase'[q] = "none" => ~aborted'[q] /\ WaitersOf(q)' = {}
                      /\ phase'[q] \in {"settled", "over"} => outcome'[q] # "none"
                      /\ outcome'[q] = "cut" \/ phase'[q] = "aborting" => aborted'[q]
    BY DEF PhaseSays
  <2> QED
    BY <1>1, <1>3, <1>6, <1>7, <1>8 DEF FetchInv, PhaseSays
<1>12. CallerSays'
  <2> SUFFICES ASSUME NEW q \in Calls
               PROVE  /\ began'[q] <= clears'
                      /\ status'[q] = "waiting" => joined'[q] \in Calls /\ began'[joined'[q]] = began'[q]
                      /\ status'[q] = "waiting" /\ aborted'[joined'[q]] => clears' > began'[q]
                      /\ status'[q] = "cut" => clears' > began'[q]
    BY DEF CallerSays
  <2>1. CASE q = c
    BY <1>2, <1>3, <1>8, <2>1 DEF FetchInv, CallerSays
  <2>2. CASE q # c
    <3>1. ASSUME status[q] = "waiting", aborted'[joined[q]], ~aborted[joined[q]] PROVE FALSE
      <4>1. joined[q] = r /\ waiters[r] = 1
        BY <1>7, <3>1 DEF FetchInv, CallerSays
      <4>2. q \in WaitersOf(r)'
        BY <1>3, <1>8, <2>2, <3>1, <4>1 DEF WaitersOf
      <4> QED
        BY <1>6, <4>1, <4>2
    <3> QED
      BY <1>3, <1>8, <2>2, <3>1 DEF FetchInv, CallerSays
  <2> QED
    BY <2>1, <2>2
<1>13. Held'
  <2>1. ASSUME NEW q \in Calls, Under(q)' PROVE WaitersOf(q)' # {}
    <3>1. CASE q = r
      <4>1. ~aborted'[r] /\ Under(r)
        BY <1>7, <2>1, <3>1 DEF Under
      <4>2. waiters[r] > 1
        BY <1>1, <1>5, <4>1 DEF FetchInv, Typed
      <4> QED
        BY <1>6, <3>1, <4>2
    <3>2. CASE q # r
      <4>1. Under(q) /\ WaitersOf(q)' = WaitersOf(q)
        BY <1>6, <1>7, <2>1, <3>2
      <4> QED
        BY <4>1 DEF FetchInv, Held
    <3> QED
      BY <3>1, <3>2
  <2> QED
    BY <1>6, <2>1 DEF Held
<1>14. Installed'
  <2>1. ASSUME NEW q \in Calls, Under(q)' PROVE inFlight'[url'[q]] = q
    <3>1. inFlight[url[q]] = q /\ url[q] \in Urls /\ ~aborted'[q]
      BY <1>7, <2>1 DEF FetchInv, Installed, Typed, Under
    <3>2. inFlight'[url[q]] = inFlight[url[q]]
      BY <1>1, <1>5, <3>1 DEF Leave, FetchInv, Typed
    <3> QED
      BY <1>3, <3>1, <3>2
  <2>2. ASSUME NEW u \in Urls, NEW q \in Calls, inFlight'[u] = q
        PROVE  Under(q)' /\ url'[q] = u /\ began'[q] = clears'
    <3>1. inFlight[u] = q
      BY <1>9, <2>2, ApiCacheAssumption
    <3>2. Under(q) /\ url[q] = u /\ began[q] = clears
      BY <3>1 DEF FetchInv, Installed
    <3>3. ~aborted'[q]
      <4>1. CASE q = r /\ aborted' # aborted
        <5>1. inFlight' = [inFlight EXCEPT ![url[r]] = NoRequest]
          BY <1>5, <3>1, <3>2, <4>1 DEF Leave
        <5> QED
          BY <2>2, <3>2, <4>1, <5>1, ApiCacheAssumption DEF FetchInv, Typed
      <4>2. CASE q # r \/ aborted' = aborted
        BY <1>7, <3>2, <4>2 DEF Under
      <4> QED
        BY <4>1, <4>2
    <3> QED
      BY <1>3, <3>2, <3>3 DEF Under
  <2> QED
    BY <2>1, <2>2 DEF Installed
<1> QED
  BY <1>10, <1>11, <1>12, <1>13, <1>14 DEF FetchInv

LEMMA ClearKeeps == ASSUME FetchInv, ClearCache PROVE FetchInv'
<1>1. /\ clears' = clears + 1 /\ clears < MaxClears
      /\ aborted' = [q \in Calls |-> aborted[q] \/ \E u \in Urls : inFlight[u] = q]
      /\ inFlight' = [u \in Urls |-> NoRequest]
      /\ UNCHANGED <<calls, phase, outcome, sent, waiters>>
  BY DEF ClearCache
<1>2. \A q \in Calls : /\ aborted[q] => aborted'[q]
                       /\ aborted'[q] /\ ~aborted[q] => Under(q)
  BY <1>1 DEF FetchInv, Installed
<1>3. \A q \in Calls : ~Under(q)'
  <2> SUFFICES ASSUME NEW q \in Calls, Under(q)' PROVE FALSE
    OBVIOUS
  <2>1. Under(q)
    BY <1>1, <1>2 DEF Under
  <2>2. inFlight[url[q]] = q /\ url[q] \in Urls
    BY <2>1 DEF FetchInv, Installed, Typed
  <2> QED
    BY <1>1, <2>2 DEF Under
<1>4. \A q : WaitersOf(q)' = WaitersOf(q)
  BY <1>1 DEF WaitersOf, calls
<1>5. Typed'
  <2>1. clears' \in 0 .. MaxClears /\ aborted' \in [Calls -> BOOLEAN]
    BY <1>1, ApiCacheAssumption DEF FetchInv, Typed
  <2> QED
    BY <1>1, <2>1 DEF FetchInv, Typed, calls
<1>6. PhaseSays'
  <2>1. \A q \in Calls : phase[q] = "none" => ~aborted'[q]
    BY <1>2 DEF Under, FetchInv, PhaseSays
  <2> QED
    BY <1>1, <1>2, <1>4, <2>1 DEF FetchInv, PhaseSays, calls
<1>7. CallerSays'
  <2>1. \A q \in Calls : clears' > began[q] /\ began[q] <= clears'
    BY <1>1 DEF FetchInv, CallerSays, Typed
  <2> QED
    BY <1>1, <2>1 DEF FetchInv, CallerSays, calls
<1>8. Held'
  BY <1>1, <1>3, <1>4 DEF FetchInv, Held
<1>9. Installed'
  BY <1>1, <1>3, ApiCacheAssumption DEF Installed
<1> QED
  BY <1>5, <1>6, <1>7, <1>8, <1>9 DEF FetchInv

LEMMA CleanUpKeeps == ASSUME FetchInv, NEW r \in Calls, CleanUp(r) PROVE FetchInv'
<1>1. /\ phase[r] = "settled" /\ phase' = [phase EXCEPT ![r] = "over"] /\ inFlight' = Leave(r)
      /\ UNCHANGED <<calls, outcome, sent, aborted, waiters, clears>>
  BY DEF CleanUp
<1>2. /\ \A q \in Calls : phase'[q] = IF q = r THEN "over" ELSE phase[q]
      /\ \A q : WaitersOf(q)' = WaitersOf(q)
      /\ url[r] \in Urls
  BY <1>1 DEF FetchInv, Typed, WaitersOf, calls
<1>3. \A q \in Calls : Under(q)' <=> Under(q) /\ q # r
  BY <1>1, <1>2 DEF Under
<1>4. Typed'
  <2>1. phase' \in [Calls -> Phases] /\ inFlight' \in [Urls -> Calls \cup {NoRequest}]
    BY <1>1, <1>2 DEF FetchInv, Typed, Phases, Leave
  <2> QED
    BY <1>1, <2>1 DEF FetchInv, Typed, calls
<1>5. PhaseSays' /\ CallerSays'
  BY <1>1, <1>2 DEF FetchInv, PhaseSays, CallerSays, calls
<1>6. Held'
  BY <1>1, <1>2, <1>3 DEF FetchInv, Held
<1>7. Installed'
  <2>1. ASSUME NEW q \in Calls, Under(q)' PROVE inFlight'[url'[q]] = q
    <3>1. inFlight[url[q]] = q /\ url[q] \in Urls /\ q # r
      BY <1>3, <2>1 DEF FetchInv, Installed, Typed
    <3> QED
      BY <1>1, <1>2, <3>1 DEF Leave, FetchInv, Typed, calls
  <2>2. ASSUME NEW u \in Urls, NEW q \in Calls, inFlight'[u] = q
        PROVE  Under(q)' /\ url'[q] = u /\ began'[q] = clears'
    <3>1. inFlight[u] = q /\ q # r
      <4>1. inFlight'[u] = inFlight[u] \/ inFlight'[u] = NoRequest
        BY <1>1, <1>2 DEF Leave, FetchInv, Typed
      <4>2. inFlight[u] = q
        BY <2>2, <4>1, ApiCacheAssumption
      <4>3. CASE q = r
        <5>1. url[r] = u
          BY <4>2, <4>3 DEF FetchInv, Installed
        <5>2. inFlight' = [inFlight EXCEPT ![u] = NoRequest]
          BY <1>1, <4>2, <4>3, <5>1 DEF Leave
        <5> QED
          BY <2>2, <5>2, ApiCacheAssumption DEF FetchInv, Typed
      <4> QED
        BY <4>2, <4>3
    <3> QED
      BY <1>1, <1>3, <3>1 DEF FetchInv, Installed, calls
  <2> QED
    BY <2>1, <2>2 DEF Installed
<1> QED
  BY <1>4, <1>5, <1>6, <1>7 DEF FetchInv

-----------------------------------------------------------------------------
(* The cache, and the URLs by last use that it is the end of. *)

Entries == [url : Urls, body : Calls]

Least(m, n) == IF m < n THEN m ELSE n

Ordered ==
    /\ cache \in Seq(Entries) /\ recent \in Seq(Urls) /\ Distinct(recent)
    /\ Len(cache) = Least(Len(recent), CacheLimit)
    /\ \A i \in 1 .. Len(cache) : cache[i].url = recent[Len(recent) - Len(cache) + i]

\* A body a caller was given, or the cache holds, is of the time of the call,
\* or of now.
Dated ==
    /\ \A c \in Calls : status[c] = "body" =>
          got[c] \in Calls /\ began[got[c]] = began[c] /\ phase[got[c]] # "none"
    /\ \A i \in 1 .. Len(cache) :
          began[cache[i].body] = clears /\ phase[cache[i].body] # "none"

\* A URL that is being asked for is not in the cache.
Missing == \A r \in Calls : Under(r) /\ phase[r] # "settled" => ~Cached(url[r])

StoreInv == Ordered /\ Dated /\ Missing

LEMMA MoveDistinct ==
    ASSUME NEW T, NEW s \in Seq(T), Distinct(s), NEW x \in T
    PROVE  MoveToEnd(s, x) \in Seq(T) /\ Distinct(MoveToEnd(s, x))
<1> PICK n \in Nat : n = Len(s) /\ DOMAIN s = 1 .. n
  BY LenProperties
<1>1. CASE \A i \in DOMAIN s : s[i] # x
  <2>1. /\ MoveToEnd(s, x) \in Seq(T) /\ Len(MoveToEnd(s, x)) = n + 1
        /\ \A j \in 1 .. n : MoveToEnd(s, x)[j] = s[j]
        /\ MoveToEnd(s, x)[n + 1] = x
    BY <1>1, MoveNew
  <2>2. DOMAIN MoveToEnd(s, x) = 1 .. n + 1
    BY <2>1, LenProperties
  <2> QED
    BY <1>1, <2>1, <2>2 DEF Distinct
<1>2. CASE \E i \in DOMAIN s : s[i] = x
  <2>1. PICK i \in DOMAIN s : s[i] = x
    BY <1>2
  <2>2. /\ MoveToEnd(s, x) \in Seq(T) /\ Len(MoveToEnd(s, x)) = n
        /\ \A j \in 1 .. n - 1 :
              MoveToEnd(s, x)[j] = IF j < i THEN s[j] ELSE s[j + 1]
        /\ MoveToEnd(s, x)[n] = x
    BY <2>1, MoveOld
  <2>3. DOMAIN MoveToEnd(s, x) = 1 .. n
    BY <2>2, LenProperties
  <2>4. i \in 1 .. n
    BY <2>1
  <2>5. ASSUME NEW j \in 1 .. n
        PROVE  \E h \in 1 .. n :
                  /\ MoveToEnd(s, x)[j] = s[h]
                  /\ (j = n /\ h = i) \/ (j < n /\ j < i /\ h = j)
                     \/ (j < n /\ j >= i /\ h = j + 1)
    <3>1. CASE j = n
      <4>1. MoveToEnd(s, x)[j] = s[i]
        BY <2>1, <2>2, <3>1
      <4> QED
        BY <2>4, <3>1, <4>1
    <3>2. CASE j < n /\ j < i
      <4>1. j \in 1 .. n - 1
        BY <3>2
      <4> QED
        BY <2>2, <3>2, <4>1
    <3>3. CASE j < n /\ j >= i
      <4>1. j \in 1 .. n - 1 /\ j + 1 \in 1 .. n /\ ~(j < i)
        BY <2>4, <3>3
      <4> QED
        BY <2>2, <3>3, <4>1
    <3>4. j = n \/ (j < n /\ j < i) \/ (j < n /\ j >= i)
      BY <2>4
    <3> QED
      BY <3>1, <3>2, <3>3, <3>4
  <2>6. ASSUME NEW j \in 1 .. n, NEW k \in 1 .. n,
               MoveToEnd(s, x)[j] = MoveToEnd(s, x)[k]
        PROVE  j = k
    <3>1. PICK h \in 1 .. n :
             /\ MoveToEnd(s, x)[j] = s[h]
             /\ (j = n /\ h = i) \/ (j < n /\ j < i /\ h = j)
                \/ (j < n /\ j >= i /\ h = j + 1)
      BY <2>5
    <3>2. PICK g \in 1 .. n :
             /\ MoveToEnd(s, x)[k] = s[g]
             /\ (k = n /\ g = i) \/ (k < n /\ k < i /\ g = k)
                \/ (k < n /\ k >= i /\ g = k + 1)
      BY <2>5
    <3>3. h = g
      BY <2>6, <3>1, <3>2 DEF Distinct
    <3> QED
      BY <2>4, <3>1, <3>2, <3>3
  <2> QED
    BY <2>2, <2>3, <2>6 DEF Distinct
<1> QED
  BY <1>1, <1>2

LEMMA CacheHolds ==
    ASSUME Ordered, NEW i \in 1 .. Len(cache) PROVE cache[i].body \in Calls
<1>1. cache[i] \in Entries
  BY ElementOfSeq DEF Ordered
<1> QED
  BY <1>1 DEF Entries

LEMMA CachedAt ==
    ASSUME Ordered, NEW u, Cached(u)
    PROVE  \E i \in 1 .. Len(cache) :
              /\ EntryOf(u) = cache[i] /\ cache[i].url = u
              /\ cache[i] \in Entries /\ i \in DOMAIN cache
<1>1. DOMAIN cache = 1 .. Len(cache)
  BY LenProperties DEF Ordered
<1>2. PICK e \in ToSet(cache) : e.url = u
  BY DEF Cached, ToSet
<1>3. EntryOf(u) \in ToSet(cache) /\ EntryOf(u).url = u
  BY <1>2 DEF EntryOf
<1>4. PICK i \in DOMAIN cache : cache[i] = EntryOf(u)
  BY <1>3 DEF ToSet
<1> QED
  BY <1>1, <1>3, <1>4, ElementOfSeq DEF Ordered

LEMMA HitOrders ==
    ASSUME Ordered, NEW u \in Urls, Cached(u),
           cache' = Refresh(u), recent' = MoveToEnd(recent, u)
    PROVE  /\ Ordered'
           /\ \A j \in 1 .. Len(cache') : \E k \in 1 .. Len(cache) : cache'[j] = cache[k]
<1> DEFINE m == Len(cache)
           n == Len(recent)
<1>1. /\ m \in Nat /\ n \in Nat /\ DOMAIN cache = 1 .. m /\ DOMAIN recent = 1 .. n
      /\ m = Least(n, CacheLimit) /\ m <= n
  BY LenProperties, ApiCacheAssumption DEF Ordered, Least
<1>2. PICK i \in 1 .. m : EntryOf(u) = cache[i] /\ cache[i].url = u
  BY CachedAt
<1>3. Distinct(cache)
  BY <1>1 DEF Ordered, Distinct
<1>4. n - m + i \in DOMAIN recent /\ recent[n - m + i] = u
  BY <1>1, <1>2 DEF Ordered
<1>5. /\ cache' \in Seq(Entries) /\ Len(cache') = m
      /\ \A j \in 1 .. m - 1 : cache'[j] = IF j < i THEN cache[j] ELSE cache[j + 1]
      /\ cache'[m] = cache[i]
  BY <1>1, <1>2, <1>3, MoveOld DEF Ordered, Refresh
<1>6. /\ recent' \in Seq(Urls) /\ Len(recent') = n
      /\ \A j \in 1 .. n - 1 : recent'[j] = IF j < n - m + i THEN recent[j] ELSE recent[j + 1]
      /\ recent'[n] = u
  BY <1>4, MoveOld DEF Ordered
<1>7. Distinct(recent')
  BY MoveDistinct DEF Ordered
<1>8. ASSUME NEW j \in 1 .. m PROVE cache'[j].url = recent'[n - m + j]
  <2>1. CASE j = m
    BY <1>1, <1>2, <1>5, <1>6, <2>1
  <2>2. CASE j < i /\ j # m
    <3>1. cache'[j].url = recent[n - m + j]
      BY <1>1, <1>5, <2>2 DEF Ordered
    <3>2. n - m + j \in 1 .. n - 1 /\ n - m + j < n - m + i
      BY <1>1, <1>2, <2>2
    <3> QED
      BY <1>6, <3>1, <3>2
  <2>3. CASE j >= i /\ j # m
    <3>1. cache'[j].url = recent[n - m + (j + 1)]
      BY <1>1, <1>2, <1>5, <2>3 DEF Ordered
    <3>2. n - m + j \in 1 .. n - 1 /\ ~(n - m + j < n - m + i) /\ n - m + (j + 1) = (n - m + j) + 1
      BY <1>1, <1>2, <2>3
    <3> QED
      BY <1>6, <3>1, <3>2
  <2> QED
    BY <1>2, <2>1, <2>2, <2>3
<1>9. \A j \in 1 .. Len(cache') : \E k \in 1 .. m : cache'[j] = cache[k]
  <2> SUFFICES ASSUME NEW j \in 1 .. m PROVE \E k \in 1 .. m : cache'[j] = cache[k]
    BY <1>5
  <2>1. CASE j = m
    BY <1>2, <1>5, <2>1
  <2>2. CASE j # m
    <3>1. j \in 1 .. m - 1 /\ j \in 1 .. m /\ j + 1 \in 1 .. m
      BY <1>1, <2>2
    <3> QED
      BY <1>5, <3>1
  <2> QED
    BY <2>1, <2>2
<1> QED
  BY <1>1, <1>5, <1>6, <1>7, <1>8, <1>9 DEF Ordered

LEMMA StoreOrders ==
    ASSUME Ordered, NEW u \in Urls, NEW r \in Calls, ~Cached(u),
           cache' = CacheSet(u, r), recent' = MoveToEnd(recent, u)
    PROVE  /\ Ordered'
           /\ \A j \in 1 .. Len(cache') :
                 cache'[j] = [url |-> u, body |-> r] \/ \E k \in 1 .. Len(cache) : cache'[j] = cache[k]
<1> DEFINE m == Len(cache)
           n == Len(recent)
           e == [url |-> u, body |-> r]
           add == Append(cache, e)
<1>1. /\ m \in Nat /\ n \in Nat /\ DOMAIN cache = 1 .. m /\ DOMAIN recent = 1 .. n
      /\ m = Least(n, CacheLimit) /\ m <= n /\ CacheLimit \in Nat \ {0}
  BY LenProperties, ApiCacheAssumption DEF Ordered, Least
<1>2. e \in Entries /\ e.url = u
  BY DEF Entries
<1>3. /\ add \in Seq(Entries) /\ Len(add) = m + 1
      /\ \A j \in 1 .. m : add[j] = cache[j]
      /\ add[m + 1] = e
  BY <1>2, AppendProperties DEF Ordered
<1> HIDE DEF add, e
<1>4. cache' = IF m + 1 > CacheLimit THEN Tail(add) ELSE add
  BY <1>3 DEF CacheSet, add, e
<1>5. Distinct(recent') /\ recent' \in Seq(Urls)
  BY MoveDistinct DEF Ordered
<1>6. CASE m + 1 > CacheLimit
  <2>1. /\ cache' \in Seq(Entries) /\ Len(cache') = m
        /\ \A j \in 1 .. m : cache'[j] = add[j + 1]
    BY <1>1, <1>3, <1>4, <1>6, HeadTailProperties
  <2>2. /\ Len(recent') >= n /\ Len(recent') \in Nat
        /\ recent'[Len(recent')] = u
        /\ \A j \in 1 .. m - 1 : recent'[Len(recent') - m + j] = recent[n - m + (j + 1)]
    <3>1. CASE \A k \in DOMAIN recent : recent[k] # u
      <4>1. /\ Len(recent') = n + 1 /\ recent'[n + 1] = u
            /\ \A j \in 1 .. n : recent'[j] = recent[j]
        BY <3>1, MoveNew DEF Ordered
      <4>2. \A j \in 1 .. m - 1 : /\ (n + 1) - m + j \in 1 .. n
                                  /\ (n + 1) - m + j = n - m + (j + 1)
        BY <1>1
      <4> QED
        BY <1>1, <4>1, <4>2
    <3>2. CASE \E k \in DOMAIN recent : recent[k] = u
      <4>1. PICK k \in DOMAIN recent : recent[k] = u
        BY <3>2
      <4>2. k <= n - m
        <5>1. SUFFICES ASSUME k > n - m PROVE FALSE
          BY <1>1
        <5>2. k - (n - m) \in 1 .. m /\ n - m + (k - (n - m)) = k
          BY <1>1, <5>1
        <5>3. cache[k - (n - m)].url = u
          BY <4>1, <5>2 DEF Ordered
        <5> QED
          BY <1>1, <5>2, <5>3 DEF Cached
      <4>3. /\ Len(recent') = n /\ recent'[n] = u
            /\ \A j \in 1 .. n - 1 : recent'[j] = IF j < k THEN recent[j] ELSE recent[j + 1]
        BY <4>1, MoveOld DEF Ordered
      <4>4. \A j \in 1 .. m - 1 : /\ n - m + j \in 1 .. n - 1 /\ ~(n - m + j < k)
                                  /\ (n - m + j) + 1 = n - m + (j + 1)
        BY <1>1, <4>1, <4>2
      <4> QED
        BY SMTT(60), <1>1, <4>3, <4>4
    <3> QED
      BY <3>1, <3>2
  <2>3. Len(cache') = Least(Len(recent'), CacheLimit)
    BY <1>1, <1>6, <2>1, <2>2 DEF Least
  <2>4. ASSUME NEW j \in 1 .. m PROVE cache'[j].url = recent'[Len(recent') - m + j]
    <3>1. CASE j = m
      BY <1>1, <1>2, <1>3, <2>1, <2>2, <3>1
    <3>2. CASE j # m
      <4>1. j \in 1 .. m - 1 /\ j + 1 \in 1 .. m
        BY <1>1, <3>2
      <4>2. cache'[j].url = recent[n - m + (j + 1)]
        BY <1>3, <2>1, <4>1 DEF Ordered
      <4> QED
        BY <2>2, <4>1, <4>2
    <3> QED
      BY <3>1, <3>2
  <2>5. ASSUME NEW j \in 1 .. m PROVE cache'[j] = e \/ \E k \in 1 .. m : cache'[j] = cache[k]
    <3>1. CASE j = m
      BY <1>1, <1>3, <2>1, <3>1
    <3>2. CASE j # m
      <4>1. j + 1 \in 1 .. m
        BY <1>1, <3>2
      <4> QED
        BY <1>3, <2>1, <4>1
    <3> QED
      BY <3>1, <3>2
  <2> QED
    BY <1>5, <2>1, <2>3, <2>4, <2>5 DEF Ordered, e
<1>7. CASE ~(m + 1 > CacheLimit)
  <2>1. m = n /\ cache' = add /\ m < CacheLimit
    <3>1. cache' = add
      BY <1>4, <1>7
    <3>2. m < CacheLimit
      BY <1>1, <1>7
    <3>3. n < CacheLimit
      BY <1>1, <3>2 DEF Least
    <3>4. m = n
      BY <1>1, <3>2, <3>3 DEF Least
    <3> QED
      BY <3>1, <3>2, <3>4
  <2>2. \A k \in DOMAIN recent : recent[k] # u
    <3>1. \A k \in 1 .. m : cache[k].url = recent[k]
      BY <1>1, <2>1 DEF Ordered
    <3> QED
      BY <1>1, <2>1, <3>1 DEF Cached
  <2>3. /\ Len(recent') = n + 1 /\ recent'[n + 1] = u
        /\ \A j \in 1 .. n : recent'[j] = recent[j]
    BY <2>2, MoveNew DEF Ordered
  <2>4. Len(cache') = Least(Len(recent'), CacheLimit)
    BY <1>1, <1>3, <2>1, <2>3 DEF Least
  <2>5. ASSUME NEW j \in 1 .. m + 1 PROVE cache'[j].url = recent'[Len(recent') - Len(cache') + j]
    <3>1. Len(recent') - Len(cache') + j = j
      BY <1>1, <1>3, <2>1, <2>3
    <3>2. CASE j = m + 1
      BY <1>2, <1>3, <2>1, <2>3, <3>1, <3>2
    <3>3. CASE j # m + 1
      <4>1. j \in 1 .. m /\ n - m + j = j
        BY <1>1, <2>1, <3>3
      <4> QED
        BY <1>3, <2>1, <2>3, <3>1, <4>1 DEF Ordered
    <3> QED
      BY <3>2, <3>3
  <2>6. ASSUME NEW j \in 1 .. m + 1 PROVE cache'[j] = e \/ \E k \in 1 .. m : cache'[j] = cache[k]
    <3>1. j = m + 1 \/ j \in 1 .. m
      BY <1>1
    <3> QED
      BY <1>3, <2>1, <3>1
  <2> QED
    BY <1>3, <1>5, <2>1, <2>4, <2>5, <2>6 DEF Ordered, e
<1> QED
  BY <1>6, <1>7

-----------------------------------------------------------------------------
(* The two together. *)

CacheInv == FetchInv /\ StoreInv

\* A request once made stays made, and its date stays.
LEMMA DatesStay ==
    ASSUME FetchInv, [Next]_vars, NEW r \in Calls, phase[r] # "none"
    PROVE  phase'[r] # "none" /\ began'[r] = began[r]
<1>1. \A c \in Calls : status[c] = "new" => c # r
  BY DEF FetchInv, PhaseSays
<1>2. ASSUME NEW c \in Calls, CallAborted(c) \/ CallHit(c) \/ CallJoins(c) \/ CallStarts(c)
      PROVE  phase'[r] # "none" /\ began'[r] = began[r]
  <2>1. c # r /\ began' = [began EXCEPT ![c] = clears]
    BY <1>1, <1>2 DEF CallAborted, CallHit, CallJoins, CallStarts, Begin
  <2>2. phase'[r] = phase[r]
    BY <1>2, <2>1 DEF CallAborted, CallHit, CallJoins, CallStarts, requests, FetchInv, Typed
  <2> QED
    BY <2>1, <2>2 DEF FetchInv, Typed
<1>3. ASSUME NEW c \in Calls, Abort(c) \/ Request(c)
      PROVE  phase'[r] # "none" /\ began'[r] = began[r]
  <2>1. began' = began
    BY <1>3 DEF Abort, Request, Answer, Retry, Store, Reject, Resolve, CleanUp, Deliver, calls
  <2>2. phase' = phase \/ \E to \in Phases \ {"none"} : phase' = [phase EXCEPT ![c] = to]
    <3>1. CASE Abort(c) \/ Deliver(c)
      BY <3>1 DEF Abort, Deliver
    <3>2. CASE Answer(c)
      BY <3>2 DEF Answer, Phases
    <3>3. CASE Retry(c)
      <4>1. phase' = [phase EXCEPT ![c] = "sent"] \/ phase' = [phase EXCEPT ![c] = "aborting"]
        BY <3>3 DEF Retry
      <4> QED
        BY <4>1 DEF Phases
    <3>4. CASE Store(c) \/ Reject(c)
      <4>1. phase' = [phase EXCEPT ![c] = "settled"]
        BY <3>4 DEF Store, Reject, Resolve
      <4> QED
        BY <4>1 DEF Phases
    <3>5. CASE CleanUp(c)
      <4>1. phase' = [phase EXCEPT ![c] = "over"]
        BY <3>5 DEF CleanUp
      <4> QED
        BY <4>1 DEF Phases
    <3> QED
      BY <1>3, <3>1, <3>2, <3>3, <3>4, <3>5 DEF Request
  <2> QED
    BY <2>1, <2>2 DEF FetchInv, Typed
<1>4. CASE ClearCache \/ UNCHANGED vars
  BY <1>4 DEF ClearCache, vars, calls, requests
<1> QED
  BY <1>2, <1>3, <1>4 DEF Next

\* A step that leaves the store alone and gives no caller a body.
LEMMA StoreStays ==
    ASSUME CacheInv, [Next]_vars, UNCHANGED <<stored, url, clears>>,
           \A c \in Calls : status'[c] = "body" =>
              status[c] = "body" /\ got'[c] = got[c] /\ began'[c] = began[c],
           \A r \in Calls : Under(r)' /\ phase'[r] # "settled" =>
              (Under(r) /\ phase[r] # "settled") \/ ~Cached(url[r])
    PROVE  StoreInv'
<1>1. Ordered'
  BY DEF CacheInv, StoreInv, Ordered, stored
<1>2. \A i \in 1 .. Len(cache) : cache[i].body \in Calls
  BY CacheHolds DEF CacheInv, StoreInv
<1>3. Dated'
  BY <1>2, DatesStay DEF CacheInv, StoreInv, Dated, stored
<1>4. \A u : Cached(u)' = Cached(u)
  BY DEF Cached, stored
<1>5. Missing'
  BY <1>4 DEF CacheInv, StoreInv, Missing
<1> QED
  BY <1>1, <1>3, <1>5 DEF StoreInv

LEMMA HitKeeps == ASSUME CacheInv, NEW c \in Calls, CallHit(c) PROVE CacheInv'
<1>1. /\ Begin(c) /\ Cached(url[c]) /\ url[c] \in Urls /\ [Next]_vars
      /\ status' = [status EXCEPT ![c] = "body"]
      /\ got' = [got EXCEPT ![c] = EntryOf(url[c]).body]
      /\ cache' = Refresh(url[c]) /\ recent' = MoveToEnd(recent, url[c])
      /\ UNCHANGED <<url, joined, requests, inFlight, clears>>
  BY DEF CallHit, Next, CacheInv, FetchInv, Typed
<1>2. PICK i \in 1 .. Len(cache) : /\ EntryOf(url[c]) = cache[i] /\ cache[i].url = url[c]
                                   /\ cache[i] \in Entries
  BY <1>1, CachedAt DEF CacheInv, StoreInv
<1>3. cache[i].body \in Calls /\ got'[c] = cache[i].body
  BY <1>1, <1>2 DEF Entries, CacheInv, FetchInv, Typed
<1>4. FetchInv'
  <2>1. got' \in [Calls -> Calls \cup {NoRequest}]
    BY <1>1, <1>2, <1>3 DEF CacheInv, FetchInv, Typed
  <2> QED
    BY <1>1, <2>1, CallAtOnce DEF CacheInv
<1>5. /\ Ordered'
      /\ \A j \in 1 .. Len(cache') : \E k \in 1 .. Len(cache) : cache'[j] = cache[k]
  BY <1>1, HitOrders DEF CacheInv, StoreInv
<1>6. Dated'
  <2>1. ASSUME NEW q \in Calls, status'[q] = "body"
        PROVE  got'[q] \in Calls /\ began'[got'[q]] = began'[q] /\ phase'[got'[q]] # "none"
    <3>1. CASE q = c
      <4>1. began[cache[i].body] = clears /\ phase[cache[i].body] # "none"
        BY <1>2 DEF CacheInv, StoreInv, Dated
      <4>2. began'[c] = clears
        BY <1>1 DEF Begin, CacheInv, FetchInv, Typed
      <4> QED
        BY <1>1, <1>3, <3>1, <4>1, <4>2, DatesStay DEF CacheInv
    <3>2. CASE q # c
      <4>1. status[q] = "body" /\ got'[q] = got[q] /\ began'[q] = began[q]
        BY <1>1, <2>1, <3>2 DEF Begin, CacheInv, FetchInv, Typed
      <4>2. got[q] \in Calls /\ began[got[q]] = began[q] /\ phase[got[q]] # "none"
        BY <4>1 DEF CacheInv, StoreInv, Dated
      <4> QED
        BY <1>1, <4>1, <4>2, DatesStay DEF CacheInv
    <3> QED
      BY <3>1, <3>2
  <2>2. ASSUME NEW j \in 1 .. Len(cache')
        PROVE  began'[cache'[j].body] = clears' /\ phase'[cache'[j].body] # "none"
    <3>1. PICK k \in 1 .. Len(cache) : cache'[j] = cache[k]
      BY <1>5
    <3>2. cache[k].body \in Calls /\ began[cache[k].body] = clears /\ phase[cache[k].body] # "none"
      BY <3>1, CacheHolds DEF CacheInv, StoreInv, Dated
    <3> QED
      BY <1>1, <3>1, <3>2, DatesStay DEF CacheInv
  <2> QED
    BY <2>1, <2>2 DEF Dated
<1>7. Missing'
  <2>1. \A u : Cached(u)' => Cached(u)
    BY <1>5, LenProperties DEF Cached, Ordered, CacheInv, StoreInv
  <2> QED
    BY <1>1, <2>1 DEF CacheInv, StoreInv, Missing, Under, requests
<1> QED
  BY <1>4, <1>5, <1>6, <1>7 DEF CacheInv, StoreInv

LEMMA StoreKeeps == ASSUME CacheInv, NEW r \in Calls, Store(r) PROVE CacheInv'
<1>1. /\ phase[r] = "answered" /\ ~aborted[r] /\ url[r] \in Urls /\ [Next]_vars
      /\ phase' = [phase EXCEPT ![r] = "settled"]
      /\ outcome' = [outcome EXCEPT ![r] = "body"]
      /\ cache' = CacheSet(url[r], r) /\ recent' = MoveToEnd(recent, url[r])
      /\ UNCHANGED <<calls, sent, aborted, waiters, inFlight, clears>>
  BY DEF Store, Wanted, Resolve, Next, Request, CacheInv, FetchInv, Typed
<1>2. FetchInv'
  <2>1. outcome' \in [Calls -> {"none", "body", "failed", "cut"}] /\ sent' \in [Calls -> 0 .. 2]
    BY <1>1 DEF CacheInv, FetchInv, Typed
  <2>2. outcome'[r] = "body" /\ \A q \in Calls : q # r => outcome'[q] = outcome[q]
    BY <1>1 DEF CacheInv, FetchInv, Typed
  <2> QED
    BY <1>1, <2>1, <2>2, PhaseMoves DEF CacheInv, Phases
<1>3. Under(r) /\ ~Cached(url[r]) /\ inFlight[url[r]] = r /\ began[r] = clears
  <2>1. Under(r)
    BY <1>1 DEF Under
  <2> QED
    BY <1>1, <2>1 DEF CacheInv, StoreInv, Missing, FetchInv, Installed
<1> DEFINE e == [url |-> url[r], body |-> r]
<1>4. /\ Ordered'
      /\ \A j \in 1 .. Len(cache') : cache'[j] = e \/ \E k \in 1 .. Len(cache) : cache'[j] = cache[k]
  BY <1>1, <1>3, StoreOrders DEF CacheInv, StoreInv
<1>5. Dated'
  <2>1. ASSUME NEW q \in Calls, status'[q] = "body"
        PROVE  got'[q] \in Calls /\ began'[got'[q]] = began'[q] /\ phase'[got'[q]] # "none"
    <3>1. got[q] \in Calls /\ began[got[q]] = began[q] /\ phase[got[q]] # "none"
      BY <1>1, <2>1 DEF CacheInv, StoreInv, Dated, calls
    <3> QED
      BY <1>1, <3>1, DatesStay DEF CacheInv, calls
  <2>2. ASSUME NEW j \in 1 .. Len(cache')
        PROVE  began'[cache'[j].body] = clears' /\ phase'[cache'[j].body] # "none"
    <3>1. PICK b \in Calls : cache'[j].body = b /\ began[b] = clears /\ phase[b] # "none"
      <4>1. CASE cache'[j] = e
        BY <1>1, <1>3, <4>1
      <4>2. CASE \E k \in 1 .. Len(cache) : cache'[j] = cache[k]
        <5>1. PICK k \in 1 .. Len(cache) : cache'[j] = cache[k]
          BY <4>2
        <5>2. cache[k].body \in Calls /\ began[cache[k].body] = clears /\ phase[cache[k].body] # "none"
          BY <5>1, CacheHolds DEF CacheInv, StoreInv, Dated
        <5> QED
          BY <5>1, <5>2
      <4> QED
        BY <1>4, <4>1, <4>2
    <3> QED
      BY <1>1, <3>1, DatesStay DEF CacheInv
  <2> QED
    BY <2>1, <2>2 DEF Dated
<1>6. Missing'
  <2> SUFFICES ASSUME NEW q \in Calls, Under(q)', phase'[q] # "settled", Cached(url[q])'
               PROVE  FALSE
    BY DEF Missing
  <2>1. q # r /\ Under(q) /\ phase[q] # "settled" /\ url'[q] = url[q]
    BY <1>1 DEF Under, CacheInv, FetchInv, Typed, calls
  <2>2. url[q] # url[r]
    BY <1>3, <2>1 DEF CacheInv, FetchInv, Installed
  <2>3. Cached(url[q])
    <3>1. PICK j \in 1 .. Len(cache') : cache'[j].url = url[q]
      BY <1>4, <2>1, LenProperties DEF Cached, Ordered
    <3>2. PICK k \in 1 .. Len(cache) : cache'[j] = cache[k]
      BY <1>4, <2>2, <3>1
    <3> QED
      BY <3>1, <3>2, LenProperties DEF Cached, CacheInv, StoreInv, Ordered
  <2> QED
    BY <2>1, <2>3 DEF CacheInv, StoreInv, Missing
<1> QED
  BY <1>2, <1>4, <1>5, <1>6 DEF CacheInv, StoreInv

LEMMA ClearsBoth == ASSUME CacheInv, ClearCache PROVE CacheInv'
<1>1. /\ cache' = <<>> /\ recent' = <<>> /\ [Next]_vars
      /\ UNCHANGED <<calls, phase, outcome, sent, waiters>>
  BY DEF ClearCache, Next
<1>2. Len(cache') = 0 /\ Len(recent') = 0 /\ cache' \in Seq(Entries) /\ recent' \in Seq(Urls)
  BY <1>1, EmptySeq
<1>3. Ordered'
  <2>1. Distinct(recent')
    BY <1>1 DEF Distinct
  <2> QED
    BY <1>2, <2>1, ApiCacheAssumption DEF Ordered, Least
<1>4. Dated'
  BY <1>1, <1>2 DEF CacheInv, StoreInv, Dated, calls
<1>5. Missing'
  BY <1>1 DEF Missing, Cached
<1> QED
  BY <1>3, <1>4, <1>5, ClearKeeps DEF CacheInv, StoreInv

LEMMA RequestMoves ==
    ASSUME CacheInv, NEW r \in Calls, Answer(r) \/ Retry(r) \/ Reject(r)
    PROVE  CacheInv'
<1> USE DEF CacheInv
<1>1. /\ phase[r] \in {"sent", "backoff", "answered", "erred", "aborting"}
      /\ UNCHANGED <<calls, aborted, waiters, inFlight, stored, clears>>
      /\ [Next]_vars
  BY DEF Answer, Retry, Reject, Resolve, Next, Request
<1>2. \E to \in Phases \ {"none", "over"} :
         /\ phase' = [phase EXCEPT ![r] = to]
         /\ outcome' \in [Calls -> {"none", "body", "failed", "cut"}]
         /\ \A q \in Calls : q # r => outcome'[q] = outcome[q]
         /\ to = "settled" => outcome'[r] # "none"
         /\ outcome'[r] = "cut" \/ to = "aborting" => aborted[r]
         /\ sent' \in [Calls -> 0 .. 2]
  <2>1. ASSUME Answer(r) \/ Retry(r)
        PROVE  /\ outcome' = outcome /\ sent' \in [Calls -> 0 .. 2]
               /\ \E to \in {"sent", "answered", "erred", "backoff", "aborting"} :
                     phase' = [phase EXCEPT ![r] = to] /\ (to = "aborting" => aborted[r])
    <3>1. CASE Answer(r)
      BY <3>1 DEF Answer, FetchInv, Typed
    <3>2. CASE Retry(r)
      BY <3>2 DEF Retry, Resend, FetchInv, Typed
    <3> QED
      BY <2>1, <3>1, <3>2
  <2>2. CASE Answer(r) \/ Retry(r)
    BY <2>1, <2>2 DEF FetchInv, Typed, PhaseSays, Phases
  <2>3. ASSUME Reject(r)
        PROVE  /\ phase' = [phase EXCEPT ![r] = "settled"] /\ sent' = sent
               /\ \E with \in {"failed", "cut"} :
                     /\ outcome' = [outcome EXCEPT ![r] = with]
                     /\ with = "cut" => aborted[r]
    BY <2>3 DEF Reject, Resolve, Wanted, FetchInv, PhaseSays
  <2>4. CASE Reject(r)
    <3>1. PICK with \in {"failed", "cut"} :
             outcome' = [outcome EXCEPT ![r] = with] /\ (with = "cut" => aborted[r])
      BY <2>3, <2>4
    <3>2. /\ outcome' \in [Calls -> {"none", "body", "failed", "cut"}] /\ outcome'[r] = with
          /\ \A q \in Calls : q # r => outcome'[q] = outcome[q]
      BY <3>1 DEF FetchInv, Typed
    <3> QED
      BY <2>3, <2>4, <3>1, <3>2 DEF FetchInv, Typed, Phases
  <2> QED
    BY <2>2, <2>4
<1>3. FetchInv'
  BY <1>1, <1>2, PhaseMoves
<1>4. \A q \in Calls : Under(q)' /\ phase'[q] # "settled" => Under(q) /\ phase[q] # "settled"
  <2> SUFFICES ASSUME NEW q \in Calls, Under(q)', phase'[q] # "settled"
               PROVE  Under(q) /\ phase[q] # "settled"
    OBVIOUS
  <2>1. q # r => phase'[q] = phase[q]
    BY <1>2 DEF FetchInv, Typed
  <2> QED
    BY <1>1, <2>1 DEF Under
<1>5. StoreInv'
  BY <1>1, <1>4, StoreStays DEF calls
<1> QED
  BY <1>3, <1>5

LEMMA CallsKeep ==
    ASSUME CacheInv, NEW c \in Calls, CallAborted(c) \/ CallJoins(c) \/ CallStarts(c)
    PROVE  CacheInv'
<1>1. /\ status[c] = "new" /\ UNCHANGED <<stored, url, clears, got, aborted>> /\ [Next]_vars
      /\ began' = [began EXCEPT ![c] = clears]
      /\ \/ phase' = phase
         \/ CallStarts(c) /\ phase' = [phase EXCEPT ![c] = "sent"] /\ ~Cached(url[c])
      /\ \E to \in {"waiting", "aborted"} : status' = [status EXCEPT ![c] = to]
  BY DEF CallAborted, CallJoins, CallStarts, Begin, Wait, Next, requests
<1>2. FetchInv'
  <2>1. CASE CallAborted(c)
    BY <2>1, CallAtOnce DEF CallAborted, CacheInv, FetchInv, Typed
  <2>2. CASE CallJoins(c) \/ CallStarts(c)
    BY <2>2, CallComes DEF CacheInv
  <2> QED
    BY <2>1, <2>2
<1>3. \A q \in Calls : status'[q] = "body" =>
         status[q] = "body" /\ got'[q] = got[q] /\ began'[q] = began[q]
  BY <1>1 DEF CacheInv, FetchInv, Typed
<1>4. \A q \in Calls : Under(q)' /\ phase'[q] # "settled" =>
         (Under(q) /\ phase[q] # "settled") \/ ~Cached(url[q])
  BY <1>1 DEF Under, CacheInv, FetchInv, Typed
<1> QED
  BY <1>1, <1>2, <1>3, <1>4, StoreStays DEF CacheInv

LEMMA LeavesKeep ==
    ASSUME CacheInv, NEW c \in Calls, Abort(c) \/ Deliver(c) PROVE CacheInv'
<1>1. FetchInv'
  BY CallerLeaves DEF CacheInv
<1>2. /\ status[c] = "waiting" /\ joined[c] \in Calls
      /\ UNCHANGED <<stored, url, clears, began, phase>> /\ [Next]_vars
      /\ \A q \in Calls : aborted[q] => aborted'[q]
  BY DEF Abort, Deliver, Next, Request, CacheInv, FetchInv, CallerSays, Typed
<1>3. Ordered'
  BY <1>2 DEF CacheInv, StoreInv, Ordered, stored
<1>4. Dated'
  <2>1. ASSUME NEW q \in Calls, status'[q] = "body"
        PROVE  got'[q] \in Calls /\ began'[got'[q]] = began'[q] /\ phase'[got'[q]] # "none"
    <3>1. CASE q = c
      <4>1. got'[c] = joined[c] /\ phase[joined[c]] = "over"
        BY <2>1, <3>1 DEF Abort, Deliver, CacheInv, FetchInv, Typed
      <4> QED
        BY <1>2, <3>1, <4>1 DEF CacheInv, FetchInv, CallerSays
    <3>2. CASE q # c
      <4>1. status[q] = "body" /\ got'[q] = got[q]
        BY <2>1, <3>2 DEF Abort, Deliver, CacheInv, FetchInv, Typed
      <4> QED
        BY <1>2, <4>1 DEF CacheInv, StoreInv, Dated
    <3> QED
      BY <3>1, <3>2
  <2> QED
    BY <1>2, <2>1 DEF CacheInv, StoreInv, Dated, stored
<1>5. Missing'
  BY <1>2 DEF CacheInv, StoreInv, Missing, Under, Cached, stored
<1> QED
  BY <1>1, <1>3, <1>4, <1>5 DEF CacheInv, StoreInv

LEMMA CleanUpBoth == ASSUME CacheInv, NEW r \in Calls, CleanUp(r) PROVE CacheInv'
<1>1. /\ phase' = [phase EXCEPT ![r] = "over"] /\ [Next]_vars
      /\ UNCHANGED <<calls, outcome, sent, aborted, waiters, stored, clears>>
  BY DEF CleanUp, Next, Request
<1>2. FetchInv'
  BY CleanUpKeeps DEF CacheInv
<1>3. \A q \in Calls : Under(q)' /\ phase'[q] # "settled" => Under(q) /\ phase[q] # "settled"
  BY <1>1 DEF Under, CacheInv, FetchInv, Typed
<1> QED
  BY <1>1, <1>2, <1>3, StoreStays DEF CacheInv, calls

LEMMA InitCacheInv == Init => CacheInv
<1> SUFFICES ASSUME Init PROVE CacheInv
  OBVIOUS
<1>1. Len(cache) = 0 /\ Len(recent) = 0 /\ cache \in Seq(Entries) /\ recent \in Seq(Urls)
  BY EmptySeq DEF Init
<1>2. Ordered
  <2>1. Distinct(recent)
    BY DEF Init, Distinct
  <2> QED
    BY <1>1, <2>1, ApiCacheAssumption DEF Ordered, Least
<1>3. Dated /\ Missing
  BY <1>1 DEF Init, Dated, Missing, Under
<1> QED
  BY <1>2, <1>3, InitFetchInv DEF CacheInv, StoreInv

LEMMA StepCacheInv == CacheInv /\ [Next]_vars => CacheInv'
<1> SUFFICES ASSUME CacheInv, [Next]_vars PROVE CacheInv'
  OBVIOUS
<1>1. ASSUME NEW c \in Calls, CallAborted(c) \/ CallJoins(c) \/ CallStarts(c)
      PROVE  CacheInv'
  BY <1>1, CallsKeep
<1>2. ASSUME NEW c \in Calls, CallHit(c) PROVE CacheInv'
  BY <1>2, HitKeeps
<1>3. ASSUME NEW c \in Calls, Abort(c) \/ Deliver(c) PROVE CacheInv'
  BY <1>3, LeavesKeep
<1>4. ASSUME NEW r \in Calls, Answer(r) \/ Retry(r) \/ Reject(r) PROVE CacheInv'
  BY <1>4, RequestMoves
<1>5. ASSUME NEW r \in Calls, Store(r) PROVE CacheInv'
  BY <1>5, StoreKeeps
<1>6. ASSUME NEW r \in Calls, CleanUp(r) PROVE CacheInv'
  BY <1>6, CleanUpBoth
<1>7. CASE ClearCache
  BY <1>7, ClearsBoth
<1>8. CASE UNCHANGED vars
  <2>1. UNCHANGED <<calls, requests, inFlight, stored, clears>>
    BY <1>8 DEF vars
  <2>2. FetchInv'
    BY SMTT(60), <2>1 DEF CacheInv, FetchInv, Typed, PhaseSays, CallerSays, Held, Installed, Under,
                WaitersOf, calls, requests
  <2> QED
    BY <2>1, <2>2, StoreStays DEF CacheInv, Under, calls, requests
<1> QED
  BY <1>1, <1>2, <1>3, <1>4, <1>5, <1>6, <1>7, <1>8 DEF Next, Request

LEMMA AlwaysCacheInv == Spec => []CacheInv
  BY InitCacheInv, StepCacheInv, PTL DEF Spec

-----------------------------------------------------------------------------

LEMMA HeldOnce == CacheInv => OneRequestHeldByItsCallers
<1> SUFFICES ASSUME CacheInv PROVE OneRequestHeldByItsCallers
  OBVIOUS
<1>1. \A r \in Calls : Live(r) => Under(r)
  BY DEF Live, Under
<1>2. SingleFlight
  BY <1>1 DEF SingleFlight, CacheInv, FetchInv, Installed
<1>3. ASSUME NEW r \in Calls, Live(r) PROVE waiters[r] > 0
  <2>1. WaitersOf(r) # {} /\ waiters[r] = Cardinality(WaitersOf(r))
    BY <1>1, <1>3 DEF CacheInv, FetchInv, Held
  <2>2. IsFiniteSet(WaitersOf(r)) /\ waiters[r] \in Nat
    BY FiniteWaiters DEF CacheInv, FetchInv, Typed
  <2> QED
    BY <2>1, <2>2, FS_EmptySet
<1>4. RefCount
  BY <1>3 DEF RefCount, WaitersOf, CacheInv, FetchInv, Held
<1> QED
  BY <1>2, <1>4 DEF OneRequestHeldByItsCallers

(***************************************************************************)
(* However callers join, abort and are cut off by a clear, in any order    *)
(* with a request's own callbacks, at most one request of a URL is on its  *)
(* way that may still be answered, and it counts exactly the callers that  *)
(* wait for it (startFetch, attach; web/src/lib/api.js).                   *)
(***************************************************************************)
THEOREM OneRequestHeld == Spec => []OneRequestHeldByItsCallers
  BY AlwaysCacheInv, HeldOnce, PTL

(***************************************************************************)
(* A caller is told AbortError for its own signal or for a clear, never    *)
(* because another caller of the URL gave up (attach's onAbort).           *)
(***************************************************************************)
THEOREM NobodyCutOff == Spec => []NoForeignAbort
<1>1. CacheInv => NoForeignAbort
  BY DEF CacheInv, FetchInv, CallerSays, NoForeignAbort
<1> QED
  BY <1>1, AlwaysCacheInv, PTL

LEMMA SoundCache == CacheInv => CacheIsSound
<1> SUFFICES ASSUME CacheInv PROVE CacheIsSound
  OBVIOUS
<1> USE DEF CacheInv, StoreInv
<1>1. PICK n \in Nat : n = Len(recent) /\ DOMAIN recent = 1 .. n
  BY LenProperties DEF Ordered
<1>2. PICK m \in Nat : m = Len(cache) /\ DOMAIN cache = 1 .. m
  BY LenProperties DEF Ordered
<1>3. m = Least(n, CacheLimit) /\ CacheLimit \in Nat \ {0}
  BY <1>1, <1>2, ApiCacheAssumption DEF Ordered
<1>4. TypeOK
  <2>1. waiters \in [Calls -> 0 .. Cardinality(Calls)]
    BY FiniteWaiters DEF FetchInv, Typed, Held
  <2>2. ToSet(recent) \subseteq Urls
    BY <1>1, ElementOfSeq DEF ToSet, Ordered
  <2>3. Len(cache) <= CacheLimit
    BY <1>1, <1>2, <1>3 DEF Least
  <2> QED
    BY <2>1, <2>2, <2>3 DEF TypeOK, FetchInv, Typed
<1>5. NothingOutlivesClear
  BY <1>2 DEF NothingOutlivesClear, Dated, FetchInv, Typed
<1>6. LeastRecentlyUsed
  <2> DEFINE urls == [i \in DOMAIN cache |-> cache[i].url]
             first == IF n > CacheLimit THEN n - CacheLimit + 1 ELSE 1
             last == SubSeq(recent, first, n)
  <2>1. first = n - m + 1 /\ first \in 1 .. n + 1 /\ m <= n
    BY <1>3 DEF Least
  <2> HIDE DEF first
  <2>2. \A i \in first .. n : recent[i] \in Urls
    BY <1>1, <2>1, ElementOfSeq DEF Ordered
  <2>3. /\ last \in Seq(Urls) /\ Len(last) = m
        /\ \A i \in 1 .. m : last[i] = recent[n - m + i]
    <3>1. /\ last \in Seq(Urls) /\ Len(last) = IF first <= n THEN n - first + 1 ELSE 0
          /\ \A i \in 1 .. n - first + 1 : last[i] = recent[first + i - 1]
      BY <2>1, <2>2, SubSeqProperties
    <3>2. n - first + 1 = m /\ \A i \in 1 .. m : first + i - 1 = n - m + i
      BY <2>1
    <3>3. Len(last) = m
      BY <2>1, <3>1
    <3> QED
      BY <3>1, <3>2, <3>3
  <2>4. \A i \in 1 .. m : cache[i].url = recent[n - m + i] /\ cache[i].url \in Urls
    <3>1. \A i \in 1 .. m : cache[i] \in Entries
      BY <1>2, ElementOfSeq DEF Ordered
    <3> QED
      BY <1>1, <1>2, <3>1 DEF Ordered, Entries
  <2>5. urls \in Seq(Urls) /\ Len(urls) = m /\ \A i \in 1 .. m : urls[i] = cache[i].url
    BY <1>2, <2>4
  <2> HIDE DEF urls, last
  <2>6. urls = last
    BY <2>3, <2>4, <2>5, SeqEqual
  <2> QED
    BY <1>1, <2>6 DEF LeastRecentlyUsed, urls, last, first
<1> QED
  BY <1>4, <1>5, <1>6 DEF CacheIsSound

(***************************************************************************)
(* However late an answer comes, the cache and the callers since a clear   *)
(* hold nothing asked for before it; and the cache is exactly the          *)
(* CacheLimit URLs used last (clearCache, cacheSet and the hit of getJSON).*)
(***************************************************************************)
THEOREM CacheAlwaysSound == Spec => []CacheIsSound
  BY AlwaysCacheInv, SoundCache, PTL

(***************************************************************************)
(* A request is sent only while somebody waits for it, the retry after a   *)
(* 429 included: the delay looks at the signal again (fetchOnce).          *)
(***************************************************************************)
THEOREM AlwaysSentForSomebody == Spec => SentForSomebody
<1>1. ASSUME CacheInv, [Next]_vars, NEW r \in Calls, sent'[r] > sent[r]
      PROVE  \E c \in Calls : status'[c] = "waiting" /\ joined'[c] = r
  <2>1. sent[r] \in 0 .. 2
    BY <1>1 DEF CacheInv, FetchInv, Typed
  <2>2. sent' # sent
    BY <1>1, <2>1
  <2>3. PICK c \in Calls : CallStarts(c) \/ Retry(c)
    BY <1>1, <2>2 DEF Next, Request, CallAborted, CallHit, CallJoins, Abort, Answer, Store,
                      Reject, Resolve, CleanUp, Deliver, ClearCache, vars, requests
  <2>4. CASE CallStarts(c)
    BY <1>1, <2>1, <2>4 DEF CallStarts, Wait, CacheInv, FetchInv, Typed
  <2>5. CASE Retry(c)
    <3>1. r = c /\ ~aborted[c] /\ phase[c] = "backoff" /\ UNCHANGED calls
      BY <1>1, <2>1, <2>5 DEF Retry, Resend, CacheInv, FetchInv, Typed
    <3>2. WaitersOf(r) # {}
      BY <1>1, <3>1 DEF Under, CacheInv, FetchInv, Held
    <3> QED
      BY <3>1, <3>2 DEF WaitersOf, calls
  <2> QED
    BY <2>3, <2>4, <2>5
<1>2. CacheInv /\ [Next]_vars =>
         [\A r \in Calls : sent'[r] > sent[r] =>
             \E c \in Calls : status'[c] = "waiting" /\ joined'[c] = r]_vars
  BY <1>1
<1> QED
  BY <1>2, AlwaysCacheInv, PTL DEF Spec, SentForSomebody

-----------------------------------------------------------------------------
(* The parts together. *)

\* A behaviour of the stores is one of each of them.
LEMMA StoresAreParts == StoresSpec => BodySpec /\ HistorySpec
<1>1. StoresInit => BodyInit /\ HistoryInit
  BY DEF StoresInit
<1>2. [StoresNext]_storeVars => [BodyNext]_cacheVars /\ [HistoryNext]_historyVars
  <2> SUFFICES ASSUME [StoresNext]_storeVars
               PROVE  [BodyNext]_cacheVars /\ [HistoryNext]_historyVars
    OBVIOUS
  <2>1. CASE UNCHANGED storeVars
    BY <2>1 DEF storeVars
  <2>2. CASE StoresNext
    BY <2>2 DEF StoresNext
  <2> QED  BY <2>1, <2>2
<1> QED  BY <1>1, <1>2, PTL DEF StoresSpec, BodySpec, HistorySpec

\* What the server remembers is bounded and is what it would find anew, whichever of the
\* stores moves: the bodies of a snapshot (bodyCache) and the windows of the stuck check
\* (History).
THEOREM MemoriesAlwaysHold == StoresSpec => []MemoriesHold
<1>1. (BodyTypeOK /\ BodiesHold) /\ (HistoryTypeOK /\ StuckMemoryHolds) => MemoriesHold
  BY DEF MemoriesHold
<1> QED  BY StoresAreParts, BodiesAlwaysOwn, StuckMemoryAlwaysHolds, <1>1, PTL

=============================================================================
