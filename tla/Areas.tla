------------------------------- MODULE Areas -------------------------------
(***************************************************************************)
(* The boundaries and what follows them (internal/area): the import of a   *)
(* GeoJSON file, the ingest cycle that stores what lies inside a country,  *)
(* the assignment of sensors to areas after either of them, and the        *)
(* operator's purge.                                                       *)
(*                                                                         *)
(* They run in processes of their own and meet in the database, at READ    *)
(* COMMITTED: a statement sees what was committed when it began and what   *)
(* its own transaction did.  An action is a statement; the last one of a   *)
(* transaction is merged with its commit.  A geometry is the set of the    *)
(* places it covers.                                                       *)
(***************************************************************************)
EXTENDS Integers, FiniteSets

CONSTANTS
    Slugs, Devices, Places,
    NoArea, Nowhere,   \* no row
    MaxImports, MaxIngests, MaxPurges   \* bounds: runs of each

ASSUME AreasAssumption ==
    /\ Nowhere \notin Places
    /\ \A kind \in {"country", "city"}, geom \in SUBSET Places :
           NoArea # [kind |-> kind, geom |-> geom]
    /\ MaxImports \in Nat /\ MaxIngests \in Nat /\ MaxPurges \in Nat

Shapes == [kind : {"country", "city"}, geom : SUBSET Places \ {{}}]

\* Who assigns: the cycle after its write, import-areas after its import.
Assigners == {"cycle", "operator"}

VARIABLES
    area,       \* table area: the shape under each slug
    placed,     \* table sensor: where each device is
    member,     \* table area_sensor
    rowsOf,     \* the devices with rows in reading or reading_hourly
    ingest,     \* where the cycle is
    accepted,   \* what its filter let through, where upstream says it is
    assign,     \* where each assigner is
    withdrawn,  \* the memberships its DELETE took
    purge,      \* where the purge is
    condemned,  \* the ids it selected
    removed,    \* the sensor rows and the readings it has deleted
    runs,       \* bounded: imports, cycles and purges so far
    settled,    \* history: the assigners since whose DELETE nothing changed, and
    exact,      \*   whether one of them committed since the last change
    renamed,    \* history: an import committed since the purge's check
    raced       \* history: a purge committed over the write of what it deleted

tablesOfAreas == <<area, placed, member, rowsOf>>
cycleOfAreas  == <<ingest, accepted>>
assignments   == <<assign, withdrawn>>
purging       == <<purge, condemned, removed>>
historyOfAreas == <<settled, exact, renamed, raced>>
areaVars == <<tablesOfAreas, cycleOfAreas, assignments, purging, runs, historyOfAreas>>

Located == [Devices -> Places \cup {Nowhere}]

AreasTypeOK ==
    /\ area \in [Slugs -> Shapes \cup {NoArea}]
    /\ placed \in Located /\ accepted \in Located
    /\ member \subseteq Slugs \X Devices
    /\ rowsOf \subseteq Devices
    /\ ingest \in {"idle", "joined", "filtered", "upserted", "written"}
    /\ assign \in [Assigners -> {"no", "due", "deleted"}]
    /\ withdrawn \in [Assigners -> SUBSET (Slugs \X Devices)]
    /\ purge \in {"no", "checked", "selected", "emptied", "deleted"}
    /\ condemned \subseteq Devices
    /\ removed \in [sensors : SUBSET Devices, readings : SUBSET Devices]
    /\ settled \subseteq Assigners
    /\ exact \in BOOLEAN /\ renamed \in BOOLEAN /\ raced \in BOOLEAN

NothingRemoved == [sensors |-> {}, readings |-> {}]

AreasInit ==
    /\ area = [s \in Slugs |-> NoArea]
    /\ placed = [d \in Devices |-> Nowhere]
    /\ member = {} /\ rowsOf = {}
    /\ ingest = "idle" /\ accepted = [d \in Devices |-> Nowhere]
    /\ assign = [a \in Assigners |-> "no"]
    /\ withdrawn = [a \in Assigners |-> {}]
    /\ purge = "no" /\ condemned = {} /\ removed = NothingRemoved
    /\ runs = [imports |-> 0, ingests |-> 0, purges |-> 0]
    /\ settled = {} /\ exact = FALSE /\ renamed = FALSE /\ raced = FALSE

-----------------------------------------------------------------------------

Of(kind) == {s \in Slugs : area[s] # NoArea /\ area[s].kind = kind}
CoveredBy(kind, place) == \E s \in Of(kind) : place \in area[s].geom

\* ST_Covers, over the areas that are not countries.
Contained == {m \in Of("city") \X Devices : placed[m[2]] \in area[m[1]].geom}

Disturbs == settled' = {} /\ exact' = FALSE

(* Import: every feature is valid and not empty, or nothing is written.    *)
(* One batch replaces the kind and the geometry under a slug.  The         *)
(* assignment comes next, in a transaction of its own.                     *)
Import(s, shape) ==
    /\ assign["operator"] = "no"
    /\ runs.imports < MaxImports /\ runs' = [runs EXCEPT !.imports = @ + 1]
    /\ area' = [area EXCEPT ![s] = shape]
    /\ assign' = [assign EXCEPT !["operator"] = "due"]
    /\ Disturbs /\ renamed' = TRUE
    /\ UNCHANGED <<placed, member, rowsOf, cycleOfAreas, withdrawn, purging, raced>>

-----------------------------------------------------------------------------
(* The ingest cycle. *)

\* FilterByBoundary's join: what upstream reports inside a country is accepted.  Every
\* country is enabled.
FilterJoin(reported) ==
    /\ ingest = "idle"
    /\ runs.ingests < MaxIngests /\ runs' = [runs EXCEPT !.ingests = @ + 1]
    /\ accepted' = [d \in Devices |-> IF CoveredBy("country", reported[d])
                                      THEN reported[d] ELSE Nowhere]
    /\ ingest' = "joined"
    /\ UNCHANGED <<tablesOfAreas, assignments, purging, historyOfAreas>>

\* importedCountries, a second statement: without a boundary nothing is stored.
FilterPresent ==
    /\ ingest = "joined"
    /\ ingest' = IF Of("country") # {} /\ \E d \in Devices : accepted[d] # Nowhere
                 THEN "filtered" ELSE "idle"
    /\ UNCHANGED <<tablesOfAreas, accepted, assignments, purging, runs, historyOfAreas>>

Batch == {d \in Devices : accepted[d] # Nowhere}

\* UpsertSensors refreshes the location of each; a row that a purge has deleted and not
\* committed is waited for.
UpsertSensors ==
    /\ ingest = "filtered"
    /\ Batch \cap removed.sensors = {}
    /\ placed' = [d \in Devices |-> IF d \in Batch THEN accepted[d] ELSE placed[d]]
    /\ ingest' = "upserted"
    /\ IF placed' = placed THEN UNCHANGED <<settled, exact>> ELSE Disturbs
    /\ UNCHANGED <<area, member, rowsOf, accepted, assignments, purging, runs, renamed, raced>>

\* WriteReadings, another transaction; the rollup that follows only copies.
WriteReadings ==
    /\ ingest = "upserted"
    /\ rowsOf' = rowsOf \cup Batch
    /\ ingest' = "written"
    /\ assign' = [assign EXCEPT !["cycle"] = "due"]
    /\ raced' = (raced \/ Batch \cap removed.sensors # {})
    /\ UNCHANGED <<area, placed, member, accepted, withdrawn, purging, runs,
                   settled, exact, renamed>>

\* A statement fails, and with it the cycle; the readings' may leave some written.
CycleFails ==
    /\ ingest \in {"joined", "filtered", "upserted"}
    /\ ingest' = "idle"
    /\ UNCHANGED <<tablesOfAreas, accepted, assignments, purging, runs, historyOfAreas>>

-----------------------------------------------------------------------------
(* AssignSensors: two statements, one transaction. *)

\* Mutant of Withdraws: memberships are only ever added.
Withdraws_Nothing == {}
Withdraws == member \ Contained

AssignDelete(a) ==
    /\ assign[a] = "due"
    /\ withdrawn' = [withdrawn EXCEPT ![a] = Withdraws]
    /\ assign' = [assign EXCEPT ![a] = "deleted"]
    /\ settled' = settled \cup {a}
    /\ UNCHANGED <<tablesOfAreas, cycleOfAreas, purging, runs, exact, renamed, raced>>

Assigned(a) ==
    /\ assign' = [assign EXCEPT ![a] = "no"]
    /\ withdrawn' = [withdrawn EXCEPT ![a] = {}]
    /\ ingest' = IF a = "cycle" THEN "idle" ELSE ingest
    /\ settled' = settled \ {a}

AssignInsert(a) ==
    /\ assign[a] = "deleted"
    /\ Assigned(a)
    /\ member' = (member \ withdrawn[a]) \cup Contained
    /\ exact' = (exact \/ a \in settled)
    /\ UNCHANGED <<area, placed, rowsOf, accepted, purging, runs, renamed, raced>>

\* A statement times out, and the transaction is rolled back; a cycle whose rollup failed
\* does not begin it.
AssignFails(a) ==
    /\ assign[a] # "no"
    /\ Assigned(a)
    /\ UNCHANGED <<tablesOfAreas, accepted, purging, runs, exact, renamed, raced>>

-----------------------------------------------------------------------------
(* PurgeOutsideBoundary: one transaction. *)

\* Mutant of BoundaryPresent: nothing to test against is not looked at.
BoundaryPresent_Always == TRUE
BoundaryPresent == Of("country") # {}

PurgeCheck ==
    /\ purge = "no"
    /\ runs.purges < MaxPurges /\ runs' = [runs EXCEPT !.purges = @ + 1]
    /\ BoundaryPresent
    /\ purge' = "checked"
    /\ renamed' = FALSE
    /\ UNCHANGED <<tablesOfAreas, cycleOfAreas, assignments, condemned, removed,
                   settled, exact, raced>>

PurgeSelect ==
    /\ purge = "checked"
    /\ condemned' = {d \in Devices : placed[d] # Nowhere /\ ~CoveredBy("country", placed[d])}
    /\ purge' = "selected"
    /\ UNCHANGED <<tablesOfAreas, cycleOfAreas, assignments, removed, runs, historyOfAreas>>

\* reading_hourly and reading.
PurgeReadings ==
    /\ purge = "selected"
    /\ removed' = [removed EXCEPT !.readings = condemned \cap rowsOf]
    /\ purge' = "emptied"
    /\ UNCHANGED <<tablesOfAreas, cycleOfAreas, assignments, condemned, runs, historyOfAreas>>

\* The rows are deleted by id, wherever the device is by now.
PurgeSensors ==
    /\ purge = "emptied"
    /\ removed' = [removed EXCEPT !.sensors = {d \in condemned : placed[d] # Nowhere}]
    /\ purge' = "deleted"
    /\ UNCHANGED <<tablesOfAreas, cycleOfAreas, assignments, condemned, runs, historyOfAreas>>

\* Mutant of Orphans: only what was selected from sensor is deleted.
Orphans_None == {}
Orphans == {d \in rowsOf : placed[d] = Nowhere \/ d \in removed.sensors}

\* The orphans, the commit and, with the sensors, the cascade to area_sensor.
PurgeCommit ==
    /\ purge = "deleted"
    /\ placed' = [d \in Devices |-> IF d \in removed.sensors THEN Nowhere ELSE placed[d]]
    /\ rowsOf' = rowsOf \ (removed.readings \cup Orphans)
    /\ member' = {m \in member : m[2] \notin removed.sensors}
    /\ purge' = "no" /\ condemned' = {} /\ removed' = NothingRemoved
    /\ raced' = (raced \/ (ingest = "upserted" /\ Batch \cap removed.sensors # {}))
    /\ UNCHANGED <<area, cycleOfAreas, assignments, runs, settled, exact, renamed>>

PurgeFails ==
    /\ purge # "no"
    /\ purge' = "no" /\ condemned' = {} /\ removed' = NothingRemoved
    /\ UNCHANGED <<tablesOfAreas, cycleOfAreas, assignments, runs, historyOfAreas>>

-----------------------------------------------------------------------------

AreasNext ==
    \/ \E s \in Slugs, shape \in Shapes : Import(s, shape)
    \/ \E reported \in [Devices -> Places] : FilterJoin(reported)
    \/ FilterPresent \/ UpsertSensors \/ WriteReadings \/ CycleFails
    \/ \E a \in Assigners : AssignDelete(a) \/ AssignInsert(a) \/ AssignFails(a)
    \/ PurgeCheck \/ PurgeSelect \/ PurgeReadings \/ PurgeSensors
    \/ PurgeCommit \/ PurgeFails

AreasSpec == AreasInit /\ [][AreasNext]_areaVars

-----------------------------------------------------------------------------

\* "the mapping ... must be authoritative rather than cumulative": after an assignment
\* that nothing disturbed, and until a boundary or a device moves, it is containment.
MembershipExact == exact => member = Contained

\* Rows without a sensor are the work of a purge that raced a cycle's two transactions.
OrphansExplained == ~raced => \A d \in rowsOf : placed[d] # Nowhere

\* It refuses to run on no boundary, as long as no import takes the boundary from it.
PurgeFailsClosed ==
    purge \in {"selected", "emptied", "deleted"} /\ ~renamed => Of("country") # {}

(***************************************************************************)
(* Imports, cycles, assignments and purges in any order of their           *)
(* statements leave memberships, rows and boundaries in agreement.         *)
(***************************************************************************)
AreasAgree ==
    AreasTypeOK /\ MembershipExact /\ OrphansExplained /\ PurgeFailsClosed

(***************************************************************************)
(* What PurgeOutsideBoundary's comment says of its check: "the check and   *)
(* the ST_Covers join below must agree about which boundary exists, and    *)
(* only a shared snapshot guarantees that ... Reading it here ... removes  *)
(* that tail entirely" (internal/area/purge.go:82-90).  Every device it    *)
(* knows is condemned only while some boundary was there for the join.     *)
(***************************************************************************)
PurgeAgreesWithCheck == [][PurgeSelect /\ condemned' # {} => Of("country") # {}]_areaVars

=============================================================================
