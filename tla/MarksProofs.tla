---------------------------- MODULE MarksProofs ----------------------------
(***************************************************************************)
(* Proofs about what a page's map says of the readings: the stations of    *)
(* Stations and their four readers, and the marks of Cells.                *)
(***************************************************************************)
EXTENDS Cells, Stations, Counting

-----------------------------------------------------------------------------
(***************************************************************************)
(* The ends of a set of numbers.                                           *)
(***************************************************************************)
LEMMA LowestIs ==
  ASSUME NEW T, T \subseteq Nat, T # {}
  PROVE  Lowest(T) \in T /\ \A y \in T : Lowest(T) <= y
BY LeastNat DEF Lowest

\* A nonempty finite set of numbers has both its ends.
Spanned(T, lo, hi) == lo \in T /\ hi \in T /\ \A y \in T : lo <= y /\ y <= hi
LEMMA EndsExist ==
  ASSUME NEW T, IsFiniteSet(T), T \subseteq Int, T # {}
  PROVE  \E lo, hi : Spanned(T, lo, hi)
<1>1. PICK f : Climbs(T, f)
  BY AscendingClimbs
<1>2. PICK n \in Nat : n = Cardinality(T) /\ f \in [1 .. n -> T]
  BY <1>1 DEF Climbs
<1>3. n >= 1
  BY <1>2, FS_EmptySet
<1>4. /\ \A i, j \in 1 .. n : i < j => f[i] < f[j]
      /\ \A x \in T : \E i \in 1 .. n : f[i] = x
  BY <1>1, <1>2 DEF Climbs
<1>5. f[1] \in T /\ f[n] \in T
  BY <1>2, <1>3
<1>6. ASSUME NEW y \in T PROVE f[1] <= y /\ y <= f[n]
  <2>1. PICK i \in 1 .. n : f[i] = y
    BY <1>4
  <2>2. (i = 1 \/ 1 < i) /\ (i = n \/ i < n) /\ 1 \in 1 .. n /\ n \in 1 .. n
    BY <1>3
  <2>3. f[1] \in Int /\ f[n] \in Int /\ f[i] \in Int
    BY <1>5, <2>1
  <2>4. (1 < i => f[1] < f[i]) /\ (i < n => f[i] < f[n])
    BY <1>4, <2>2
  <2> QED  BY <2>1, <2>2, <2>3, <2>4
<1> QED  BY <1>5, <1>6 DEF Spanned

LEMMA LowestOf ==
  ASSUME NEW T, NEW lo, NEW hi, Spanned(T, lo, hi), T \subseteq Int
  PROVE  Lowest(T) = lo /\ Highest(T) = hi
<1>1. \A x \in T : (\A y \in T : x <= y) => x = lo
  BY DEF Spanned
<1>2. \A x \in T : (\A y \in T : y <= x) => x = hi
  BY DEF Spanned
<1>3. lo \in T /\ (\A y \in T : lo <= y) /\ hi \in T /\ (\A y \in T : y <= hi)
  BY DEF Spanned
<1>4. Lowest(T) \in T /\ \A y \in T : Lowest(T) <= y
  BY <1>3 DEF Lowest
<1>5. Highest(T) \in T /\ \A y \in T : y <= Highest(T)
  BY <1>3 DEF Highest
<1> QED  BY <1>1, <1>2, <1>4, <1>5

\* A function that takes no value twice counts its values.
LEMMA ImageCount ==
  ASSUME NEW S, IsFiniteSet(S), NEW f, DOMAIN f = S, \A x, y \in S : f[x] = f[y] => x = y,
         NEW T, T = {f[x] : x \in S}
  PROVE  Cardinality(T) = Cardinality(S) /\ IsFiniteSet(T)
<1>1. PICK g : g = [x \in S |-> f[x]]
  OBVIOUS
<1>2. g \in [S -> T] /\ \A x \in S : g[x] = f[x]
  BY <1>1
<1>3. g \in Injection(S, T)
  BY <1>2 DEF Injection, IsInjective
<1>4. g \in Surjection(S, T)
  BY <1>2 DEF Surjection
<1>5. ExistsBijection(S, T)
  BY <1>3, <1>4 DEF Bijection, ExistsBijection
<1> QED  BY <1>5, FS_Bijection

\* The values of a function over a finite set are finitely many.
LEMMA ImageFinite ==
  ASSUME NEW S, IsFiniteSet(S), NEW f, DOMAIN f = S, NEW T, T = {f[x] : x \in S}
  PROVE  IsFiniteSet(T)
<1>1. PICK g : g = [x \in S |-> f[x]]
  OBVIOUS
<1>2. g \in [S -> T] /\ \A x \in S : g[x] = f[x]
  BY <1>1
<1>3. g \in Surjection(S, T)
  BY <1>2 DEF Surjection
<1> QED  BY <1>3, FS_Surjection

-----------------------------------------------------------------------------
(***************************************************************************)
(* Stations.  A body is any sequence of rows; a station is the set of its  *)
(* rows at one site, and a feature's site tells its station, so a marker   *)
(* per station is what the counts count.                                   *)
(***************************************************************************)
BodyOf(b, n) == n \in Nat /\ b \in [1 .. n -> DeviceRows]

\* The feature of one station.
Feature(b, ids) ==
  [id |-> Lowest(ids), at |-> b[Lowest(ids)].site, value |-> readingAt(b, ids).value,
   faulty |-> isFaultyAt(b, ids), network |-> NetworkAt[b[Lowest(ids)].site]]

LEMMA FeaturesAre == ASSUME NEW b PROVE sensorFeatures(b) = {Feature(b, ids) : ids \in stationsOf(b)}
BY DEF sensorFeatures, Feature

LEMMA BodyRows ==
  ASSUME NEW b, NEW n, BodyOf(b, n), NEW i \in 1 .. n
  PROVE  b[i].site \in Sites /\ b[i].site \in Int /\ b[i].v \in Values \cup {NoValue}
<1>1. b[i] \in DeviceRows
  BY DEF BodyOf
<1> QED  BY <1>1, StationsAssumption DEF DeviceRows

\* What a station is: a row's own, and one site's.
StationAt(b, n, ids, s) ==
  ids # {} /\ ids \subseteq 1 .. n /\ ids = {i \in 1 .. n : b[i].site = s} /\ Lowest(ids) \in ids
LEMMA StationIs ==
  ASSUME NEW b, NEW n, BodyOf(b, n), NEW ids \in stationsOf(b)
  PROVE  \E s : StationAt(b, n, ids, s) /\ \A i \in ids : ids = stationMembers(b, i)
<1>1. n \in Nat /\ DOMAIN b = 1 .. n
  BY DEF BodyOf
<1>2. PICK s \in {b[i].site : i \in 1 .. n} : ids = {i \in 1 .. n : b[i].site = s}
  BY <1>1 DEF stationsOf
<1>3. ids # {} /\ ids \subseteq 1 .. n
  BY <1>2
<1>4. Lowest(ids) \in ids
  <2>1. ids \subseteq Nat
    BY <1>1, <1>3
  <2> QED  BY <1>3, <2>1, LowestIs
<1>5. \A i \in ids : ids = stationMembers(b, i)
  BY <1>1, <1>2 DEF stationMembers
<1> QED  BY <1>2, <1>3, <1>4, <1>5 DEF StationAt

\* The station of a row.
LEMMA StationOf ==
  ASSUME NEW b, NEW n, BodyOf(b, n), NEW i \in 1 .. n, NEW ids, ids = stationMembers(b, i)
  PROVE  ids \in stationsOf(b) /\ i \in ids /\ StationAt(b, n, ids, b[i].site)
<1>1. n \in Nat /\ DOMAIN b = 1 .. n
  BY DEF BodyOf
<1>2. ids = {j \in 1 .. n : b[j].site = b[i].site}
  BY <1>1 DEF stationMembers
<1>3. i \in ids /\ ids \subseteq 1 .. n
  BY <1>2
<1>4. Lowest(ids) \in ids
  BY <1>1, <1>3, LowestIs
<1>5. ids \in stationsOf(b)
  BY <1>1, <1>2 DEF stationsOf
<1> QED  BY <1>2, <1>3, <1>4, <1>5 DEF StationAt

LEMMA StationsFinite ==
  ASSUME NEW b, NEW n, BodyOf(b, n)
  PROVE  IsFiniteSet(stationsOf(b))
<1>1. n \in Nat /\ IsFiniteSet(1 .. n)
  BY FS_Interval DEF BodyOf
<1>2. IsFiniteSet(SUBSET (1 .. n))
  BY <1>1, FS_SUBSET
<1>3. stationsOf(b) \subseteq SUBSET (1 .. n)
  BY DEF stationsOf, BodyOf
<1> QED  BY <1>2, <1>3, FS_Subset

\* The features of some stations are as many as they.
LEMMA FeatureCount ==
  ASSUME NEW b, NEW n, BodyOf(b, n), NEW S, S \subseteq stationsOf(b),
         NEW T, T = {Feature(b, ids) : ids \in S}
  PROVE  Cardinality(T) = Cardinality(S) /\ IsFiniteSet(S) /\ Cardinality(S) \in Nat
<1>1. IsFiniteSet(S) /\ Cardinality(S) \in Nat
  BY StationsFinite, FS_Subset, FS_CardinalityType
<1>2. PICK f : f = [ids \in S |-> Feature(b, ids)]
  OBVIOUS
<1>3. ASSUME NEW x \in S, NEW y \in S, f[x] = f[y] PROVE x = y
  <2>1. Feature(b, x).at = Feature(b, y).at
    BY <1>2, <1>3
  <2>2. b[Lowest(x)].site = b[Lowest(y)].site
    BY <2>1 DEF Feature
  <2>3. PICK s : StationAt(b, n, x, s)
    BY StationIs
  <2>4. PICK t : StationAt(b, n, y, t)
    BY StationIs
  <2>5. b[Lowest(x)].site = s /\ b[Lowest(y)].site = t
    BY <2>3, <2>4 DEF StationAt
  <2> QED  BY <2>2, <2>3, <2>4, <2>5 DEF StationAt
<1>4. DOMAIN f = S /\ T = {f[x] : x \in S} /\ \A x, y \in S : f[x] = f[y] => x = y
  BY <1>2, <1>3
<1> QED  BY <1>1, <1>4, ImageCount

LEMMA FeatureSays ==
  ASSUME NEW b, NEW ids
  PROVE  /\ Feature(b, ids).value = readingAt(b, ids).value
         /\ Feature(b, ids).faulty = isFaultyAt(b, ids)
         /\ Feature(b, ids).id = Lowest(ids)
         /\ Feature(b, ids).at = b[Lowest(ids)].site
         /\ Feature(b, ids).network = NetworkAt[b[Lowest(ids)].site]
BY DEF Feature

\* The stations a status draws.
DrawnStations(b, status, showFaulty) ==
  {ids \in stationsOf(b) :
     IF isFaultyAt(b, ids) THEN showFaulty
     ELSE /\ status = "active" => readingAt(b, ids).value # NoValue
          /\ status = "inactive" => readingAt(b, ids).value = NoValue}

LEMMA MarkersDrawn ==
  ASSUME NEW b, NEW status, NEW showFaulty
  PROVE  Markers(b, status, showFaulty) = {Feature(b, ids) : ids \in DrawnStations(b, status, showFaulty)}
<1> DEFINE Wanted(f) == IF f.faulty THEN showFaulty
                        ELSE /\ status = "active" => f.value # NoValue
                             /\ status = "inactive" => f.value = NoValue
           Meant(ids) == IF isFaultyAt(b, ids) THEN showFaulty
                         ELSE /\ status = "active" => readingAt(b, ids).value # NoValue
                              /\ status = "inactive" => readingAt(b, ids).value = NoValue
<1>1. \A ids : Wanted(Feature(b, ids)) <=> Meant(ids)
  <2> SUFFICES ASSUME NEW ids PROVE Wanted(Feature(b, ids)) <=> Meant(ids)
    OBVIOUS
  <2>1. Feature(b, ids).value = readingAt(b, ids).value /\ Feature(b, ids).faulty = isFaultyAt(b, ids)
    BY FeatureSays
  <2> QED  BY <2>1
<1>2. Markers(b, status, showFaulty) = {f \in sensorFeatures(b) : Wanted(f)}
  BY DEF Markers
<1>3. DrawnStations(b, status, showFaulty) = {ids \in stationsOf(b) : Meant(ids)}
  BY DEF DrawnStations
<1>4. sensorFeatures(b) = {Feature(b, ids) : ids \in stationsOf(b)}
  BY FeaturesAre
<1> HIDE DEF Wanted, Meant
<1> QED  BY <1>1, <1>2, <1>3, <1>4

\* The line under the map counts the markers.
LEMMA LineCountsMarkers ==
  ASSUME NEW b, NEW n, BodyOf(b, n), NEW status \in {"all", "active", "inactive"},
         NEW showFaulty, NEW counts, counts = countSensors(b, showFaulty)
  PROVE  /\ Cardinality(Markers(b, status, showFaulty)) = sensorCountLine(counts, status)
         /\ counts.total = Cardinality(Markers(b, "all", showFaulty))
<1>1. PICK counted, active, lame :
        /\ counted = {ids \in stationsOf(b) : showFaulty \/ ~isFaultyAt(b, ids)}
        /\ active = {ids \in counted : readingAt(b, ids).value # NoValue}
        /\ lame = {ids \in counted \ active : isFaultyAt(b, ids)}
  OBVIOUS
<1>2. /\ counts.total = Cardinality(counted) /\ counts.active = Cardinality(active)
      /\ counts.silent = Cardinality(counted) - Cardinality(active)
      /\ counts.faulty = Cardinality(lame)
  BY <1>1 DEF countSensors
<1>3. \A ids : isFaultyAt(b, ids) => readingAt(b, ids).value = NoValue
  BY DEF isFaultyAt
<1>4. DrawnStations(b, "all", showFaulty) = counted
  BY <1>1 DEF DrawnStations
<1>5. DrawnStations(b, "active", showFaulty) = active \cup lame
  BY <1>1, <1>3 DEF DrawnStations
<1>6. DrawnStations(b, "inactive", showFaulty) = counted \ active
  BY <1>1, <1>3 DEF DrawnStations
<1>7. \A st : Cardinality(Markers(b, st, showFaulty)) = Cardinality(DrawnStations(b, st, showFaulty))
  <2> SUFFICES ASSUME NEW st
               PROVE  Cardinality(Markers(b, st, showFaulty)) = Cardinality(DrawnStations(b, st, showFaulty))
    OBVIOUS
  <2>1. DrawnStations(b, st, showFaulty) \subseteq stationsOf(b)
    BY DEF DrawnStations
  <2> QED  BY <2>1, MarkersDrawn, FeatureCount
<1>8. /\ IsFiniteSet(counted) /\ IsFiniteSet(active) /\ IsFiniteSet(lame)
      /\ active \subseteq counted /\ lame \cap active = {}
  <2>1. counted \subseteq stationsOf(b) /\ active \subseteq counted /\ lame \subseteq counted
    BY <1>1
  <2>2. IsFiniteSet(counted)
    BY <2>1, StationsFinite, FS_Subset
  <2> QED  BY <1>1, <2>1, <2>2, FS_Subset
<1>9. Cardinality(active \cup lame) = Cardinality(active) + Cardinality(lame)
  <2>1. Cardinality(active \cup lame) = Cardinality(active) + Cardinality(lame) - Cardinality(active \cap lame)
    BY <1>8, FS_Union
  <2>2. Cardinality(active \cap lame) = 0
    BY <1>8, FS_EmptySet
  <2>3. Cardinality(active) \in Nat /\ Cardinality(lame) \in Nat
    BY <1>8, FS_CardinalityType
  <2> QED  BY <2>1, <2>2, <2>3
<1>10. Cardinality(counted \ active) = Cardinality(counted) - Cardinality(active)
  <2>1. counted = (counted \ active) \cup active /\ (counted \ active) \cap active = {}
    BY <1>8
  <2>2. IsFiniteSet(counted \ active)
    BY <1>8, FS_Subset
  <2>3. Cardinality(counted) = Cardinality(counted \ active) + Cardinality(active) - Cardinality({})
    BY <1>8, <2>1, <2>2, FS_Union
  <2>4. Cardinality({}) = 0
    BY FS_EmptySet
  <2>5. Cardinality(counted \ active) \in Nat /\ Cardinality(active) \in Nat
    BY <1>8, <2>2, FS_CardinalityType
  <2> QED  BY <2>3, <2>4, <2>5
<1>11. counts.total = Cardinality(Markers(b, "all", showFaulty))
  BY <1>2, <1>4, <1>7
<1>12. CASE status = "all"
  BY <1>2, <1>4, <1>7, <1>12 DEF sensorCountLine
<1>13. CASE status = "active"
  <2>1. Cardinality(Markers(b, status, showFaulty)) = Cardinality(active) + Cardinality(lame)
    BY <1>5, <1>7, <1>9, <1>13
  <2>2. sensorCountLine(counts, status) = counts.active + counts.faulty
    BY <1>13 DEF sensorCountLine
  <2> QED  BY <1>2, <1>11, <2>1, <2>2
<1>14. CASE status = "inactive"
  <2>1. Cardinality(Markers(b, status, showFaulty)) = Cardinality(counted) - Cardinality(active)
    BY <1>6, <1>7, <1>10, <1>14
  <2>2. sensorCountLine(counts, status) = counts.silent
    BY <1>14 DEF sensorCountLine
  <2> QED  BY <1>2, <1>11, <2>1, <2>2
<1> QED  BY <1>11, <1>12, <1>13, <1>14

-----------------------------------------------------------------------------
(* The panel. *)

\* The marker at a row's site.
LEMMA MarkIs ==
  ASSUME NEW b, NEW n, BodyOf(b, n), NEW i \in 1 .. n, NEW ids, ids = stationMembers(b, i)
  PROVE  /\ (CHOOSE f \in sensorFeatures(b) : f.at = b[i].site) = Feature(b, ids)
         /\ b[Lowest(ids)].site = b[i].site /\ Lowest(ids) \in 1 .. n
<1>1. ids \in stationsOf(b) /\ i \in ids /\ StationAt(b, n, ids, b[i].site)
  BY StationOf
<1>2. b[Lowest(ids)].site = b[i].site /\ Lowest(ids) \in 1 .. n
  BY <1>1 DEF StationAt
<1>3. Feature(b, ids) \in sensorFeatures(b) /\ Feature(b, ids).at = b[i].site
  BY <1>1, <1>2, FeaturesAre, FeatureSays
<1>4. ASSUME NEW f \in sensorFeatures(b), f.at = b[i].site PROVE f = Feature(b, ids)
  <2>1. PICK other \in stationsOf(b) : f = Feature(b, other)
    BY FeaturesAre
  <2>2. PICK s : StationAt(b, n, other, s)
    BY StationIs
  <2>3. b[Lowest(other)].site = b[i].site
    BY <1>4, <2>1, FeatureSays
  <2>4. s = b[i].site
    BY <2>2, <2>3 DEF StationAt
  <2>5. other = ids
    BY <1>1, <2>2, <2>4 DEF StationAt
  <2> QED  BY <2>1, <2>5
<1> QED  BY <1>2, <1>3, <1>4

\* A box that is asked for a reading and has one is the box that says it.
LEMMA ReadingIs ==
  ASSUME NEW b, NEW ids, ids \subseteq Nat, readingAt(b, ids).value # NoValue
  PROVE  /\ readingAt(b, ids).sensorId \in ids
         /\ b[readingAt(b, ids).sensorId].v = readingAt(b, ids).value
         /\ \A j \in ids : b[j].v # NoValue => readingAt(b, ids).sensorId <= j
<1>1. PICK has : has = {i \in ids : b[i].v # NoValue}
  OBVIOUS
<1>2. readingAt(b, ids) = IF has = {} THEN [value |-> NoValue, sensorId |-> Lowest(ids)]
                          ELSE [value |-> b[Lowest(has)].v, sensorId |-> Lowest(has)]
  BY <1>1 DEF readingAt
<1>3. has # {}
  BY <1>2
<1>4. Lowest(has) \in has /\ \A y \in has : Lowest(has) <= y
  <2>1. has \subseteq Nat
    BY <1>1
  <2> QED  BY <1>3, <2>1, LowestIs
<1>5. readingAt(b, ids).value = b[Lowest(has)].v /\ readingAt(b, ids).sensorId = Lowest(has)
  BY <1>2, <1>3
<1> QED  BY <1>1, <1>4, <1>5

\* The panel of any box is its marker's.
PanelSays(b, i, s, mark) ==
  /\ s.id = mark.id /\ s.network = mark.network
  /\ s.reading.value = mark.value
  /\ mark.value # NoValue => panelRows(s) = {[value |-> mark.value, missing |-> FALSE]}
  /\ mark.faulty => s.flag # "" /\ \A r \in panelRows(s) : r.missing
  /\ s.reading.value # NoValue => b[s.reading.sensorId].v = s.reading.value
  /\ detailRows(s).since <= SeenAt[i].first /\ SeenAt[i].last <= detailRows(s).updated
LEMMA PanelIsMarkers ==
  ASSUME NEW b, NEW n, BodyOf(b, n), n <= MaxDevices, NEW i \in 1 .. n,
         NEW s, s = normaliseSensor(b, i),
         NEW mark, mark = CHOOSE f \in sensorFeatures(b) : f.at = b[i].site
  PROVE  PanelSays(b, i, s, mark)
<1>1. PICK ids : ids = stationMembers(b, i)
  OBVIOUS
<1>2. mark = Feature(b, ids)
  BY <1>1, MarkIs
<1>3. ids \in stationsOf(b) /\ i \in ids /\ StationAt(b, n, ids, b[i].site)
  BY <1>1, StationOf
<1>4. /\ s.id = Lowest(ids) /\ s.network = NetworkAt[b[Lowest(ids)].site] /\ s.devices = ids
      /\ s.reading = readingAt(b, ids) /\ s.flag = flagsAt(b, ids) /\ s.measured = measuredAt(b, ids)
  BY <1>1 DEF normaliseSensor
<1>5. /\ mark.id = Lowest(ids) /\ mark.network = NetworkAt[b[Lowest(ids)].site]
      /\ mark.value = readingAt(b, ids).value /\ mark.faulty = isFaultyAt(b, ids)
  BY <1>2, FeatureSays
<1>6. ids \subseteq 1 .. n /\ n \in Nat /\ ids \subseteq Nat
  BY <1>3 DEF StationAt, BodyOf
<1>7. s.reading.value # NoValue => b[s.reading.sensorId].v = s.reading.value
  <2>1. readingAt(b, ids).value # NoValue => b[readingAt(b, ids).sensorId].v = readingAt(b, ids).value
    BY <1>6, ReadingIs
  <2> QED  BY ONLY <1>4, <2>1
<1>8. mark.value # NoValue => panelRows(s) = {[value |-> mark.value, missing |-> FALSE]}
  <2> SUFFICES ASSUME mark.value # NoValue
               PROVE  panelRows(s) = {[value |-> mark.value, missing |-> FALSE]}
    OBVIOUS
  <2>1. PICK j : j = readingAt(b, ids).sensorId /\ j \in ids /\ b[j].v # NoValue
    BY <1>5, <1>6, ReadingIs
  <2>2. b[j] \in DeviceRows
    BY <1>6, <2>1 DEF BodyOf
  <2>3. b[j].measures
    BY <2>1, <2>2 DEF DeviceRows
  <2>4. s.measured
    BY <1>4, <2>1, <2>3 DEF measuredAt
  <2>5. s.reading.value = mark.value
    BY <1>4, <1>5
  <2>6. panelRows(s) = {[value |-> s.reading.value, missing |-> s.reading.value = NoValue]}
    BY <2>4 DEF panelRows
  <2>7. (s.reading.value = NoValue) = FALSE
    BY <2>5
  <2> QED  BY <2>5, <2>6, <2>7
<1>9. mark.faulty => s.flag # "" /\ \A r \in panelRows(s) : r.missing
  <2> SUFFICES ASSUME mark.faulty PROVE s.flag # "" /\ \A r \in panelRows(s) : r.missing
    OBVIOUS
  <2>1. isFaultyAt(b, ids)
    BY <1>5
  <2>2. s.reading.value = NoValue /\ s.flag # ""
    BY <1>4, <2>1 DEF isFaultyAt
  <2>3. ASSUME NEW r \in panelRows(s) PROVE r.missing
    <3>1. r = [value |-> s.reading.value, missing |-> s.reading.value = NoValue]
      BY <2>3 DEF panelRows
    <3> QED  BY <2>2, <3>1
  <2> QED  BY <2>2, <2>3
<1>10. detailRows(s).since <= SeenAt[i].first /\ SeenAt[i].last <= detailRows(s).updated
  <2>1. PICK A, B : A = {SeenAt[j].first : j \in ids} /\ B = {SeenAt[j].last : j \in ids}
    OBVIOUS
  <2>2. detailRows(s).since = Lowest(A) /\ detailRows(s).updated = Highest(B)
    BY <1>4, <2>1 DEF detailRows
  <2>3. IsFiniteSet(ids)
    <3>1. IsFiniteSet(1 .. n)
      BY <1>6, FS_Interval
    <3> QED  BY <1>6, <3>1, FS_Subset
  <2>4. IsFiniteSet(A) /\ IsFiniteSet(B)
    <3>1. PICK f, g : f = [j \in ids |-> SeenAt[j].first] /\ g = [j \in ids |-> SeenAt[j].last]
      OBVIOUS
    <3>2. DOMAIN f = ids /\ A = {f[j] : j \in ids} /\ DOMAIN g = ids /\ B = {g[j] : j \in ids}
      BY <2>1, <3>1
    <3> QED  BY <2>3, <3>2, ImageFinite
  <2>5. A \subseteq Int /\ B \subseteq Int /\ SeenAt[i].first \in A /\ SeenAt[i].last \in B
    <3>1. \A j \in ids : SeenAt[j].first \in Int /\ SeenAt[j].last \in Int
      <4>1. MaxDevices \in Nat
        BY StationsAssumption
      <4>2. \A j \in 1 .. n : j \in 1 .. MaxDevices
        BY ONLY <4>1, n <= MaxDevices, <1>6
      <4>3. \A j \in ids : j \in 1 .. MaxDevices
        BY ONLY <4>2, <1>6
      <4> QED  BY <4>3, StationsAssumption
    <3> QED  BY <1>3, <2>1, <3>1
  <2>6. PICK lo, hi : Spanned(A, lo, hi)
    BY <2>4, <2>5, EndsExist
  <2>7. PICK low, high : Spanned(B, low, high)
    BY <2>4, <2>5, EndsExist
  <2>8. Lowest(A) = lo /\ Highest(B) = high
    BY <2>5, <2>6, <2>7, LowestOf
  <2> QED  BY <2>2, <2>5, <2>6, <2>7, <2>8 DEF Spanned
<1> QED  BY <1>4, <1>5, <1>7, <1>8, <1>9, <1>10 DEF PanelSays

-----------------------------------------------------------------------------
(***************************************************************************)
(* The strip.  Its rows are the first of each reporting station, one per   *)
(* marker that reports.                                                    *)
(***************************************************************************)
ReporterOf(b, n, i) ==
  /\ i \in 1 .. n /\ b[i].v \in Values /\ b[i].v \in Nat /\ b[i].v # NoValue
  /\ readingAt(b, stationMembers(b, i)) = [value |-> b[i].v, sensorId |-> i]

LEMMA ReportersAre ==
  ASSUME NEW b, NEW n, BodyOf(b, n), NEW i \in stationValues(b)
  PROVE  ReporterOf(b, n, i)
<1>1. /\ n \in Nat /\ DOMAIN b = 1 .. n /\ i \in 1 .. n /\ b[i].v # NoValue
      /\ \A j \in 1 .. i - 1 : b[j].v # NoValue => b[j].site # b[i].site
  BY DEF stationValues, BodyOf
<1>2. b[i].v \in Values /\ b[i].v \in Nat
  BY <1>1, BodyRows, StationsAssumption
<1>3. PICK ids, has : ids = stationMembers(b, i) /\ has = {j \in ids : b[j].v # NoValue}
  OBVIOUS
<1>4. ids = {j \in 1 .. n : b[j].site = b[i].site}
  BY <1>1, <1>3 DEF stationMembers
<1>5. i \in has /\ has \subseteq Nat
  BY <1>1, <1>3, <1>4
<1>6. Lowest(has) \in has /\ Lowest(has) <= i
  BY <1>5, LowestIs
<1>7. Lowest(has) = i
  <2>1. PICK k : k = Lowest(has)
    OBVIOUS
  <2>2. k \in 1 .. n /\ b[k].site = b[i].site /\ b[k].v # NoValue /\ k <= i
    BY <1>3, <1>4, <1>6, <2>1
  <2>3. k \notin 1 .. i - 1
    BY <1>1, <2>2
  <2> QED  BY <1>1, <2>1, <2>2, <2>3
<1>8. readingAt(b, ids) = [value |-> b[i].v, sensorId |-> i]
  BY <1>3, <1>5, <1>7 DEF readingAt
<1> QED  BY <1>1, <1>2, <1>3, <1>8 DEF ReporterOf

\* Two rows of the strip stand at two sites.
LEMMA ReportersApart ==
  ASSUME NEW b, NEW n, BodyOf(b, n), NEW i \in stationValues(b), NEW j \in stationValues(b),
         b[i].site = b[j].site
  PROVE  i = j
<1>1. ReporterOf(b, n, i) /\ ReporterOf(b, n, j)
  BY ReportersAre
<1>2. stationMembers(b, i) = stationMembers(b, j)
  BY DEF stationMembers
<1> QED  BY <1>1, <1>2 DEF ReporterOf

\* A station that reports has its row.
LEMMA ReporterFound ==
  ASSUME NEW b, NEW n, BodyOf(b, n), NEW ids \in stationsOf(b), readingAt(b, ids).value # NoValue
  PROVE  \E i \in stationValues(b) : i \in ids /\ ids = stationMembers(b, i)
<1>1. PICK s : StationAt(b, n, ids, s) /\ \A i \in ids : ids = stationMembers(b, i)
  BY StationIs
<1>2. n \in Nat /\ DOMAIN b = 1 .. n /\ ids \subseteq 1 .. n /\ ids = {i \in 1 .. n : b[i].site = s}
  BY <1>1 DEF BodyOf, StationAt
<1>3. PICK k : k = readingAt(b, ids).sensorId
  OBVIOUS
<1>4. k \in ids /\ b[k].v # NoValue /\ \A j \in ids : b[j].v # NoValue => k <= j
  <2>1. ids \subseteq Nat
    BY <1>2
  <2> QED  BY <1>3, <2>1, ReadingIs
<1>5. ASSUME NEW j \in 1 .. k - 1, b[j].v # NoValue, b[j].site = b[k].site PROVE FALSE
  <2>1. j \in ids
    BY <1>2, <1>4, <1>5
  <2> QED  BY <1>2, <1>4, <1>5, <2>1
<1>6. k \in stationValues(b)
  BY <1>2, <1>4, <1>5 DEF stationValues
<1> QED  BY <1>1, <1>4, <1>6

\* Some rows of the strip are as many as their markers.
MarkOfRow(b, i) == Feature(b, stationMembers(b, i))
LEMMA RowMarks ==
  ASSUME NEW b, NEW n, BodyOf(b, n), NEW W, W \subseteq stationValues(b),
         NEW T, T = {MarkOfRow(b, i) : i \in W}
  PROVE  Cardinality(T) = Cardinality(W) /\ IsFiniteSet(W) /\ Cardinality(W) \in Nat
<1>1. W \subseteq 1 .. n /\ IsFiniteSet(1 .. n)
  BY FS_Interval DEF stationValues, BodyOf
<1>2. IsFiniteSet(W) /\ Cardinality(W) \in Nat
  BY <1>1, FS_Subset, FS_CardinalityType
<1>3. PICK f : f = [i \in W |-> MarkOfRow(b, i)]
  OBVIOUS
<1>4. ASSUME NEW x \in W, NEW y \in W, f[x] = f[y] PROVE x = y
  <2>1. MarkOfRow(b, x).at = MarkOfRow(b, y).at
    BY <1>3, <1>4
  <2>2. b[Lowest(stationMembers(b, x))].site = b[Lowest(stationMembers(b, y))].site
    BY <2>1, FeatureSays DEF MarkOfRow
  <2>3. b[Lowest(stationMembers(b, x))].site = b[x].site
    BY <1>1, MarkIs
  <2>4. b[Lowest(stationMembers(b, y))].site = b[y].site
    BY <1>1, MarkIs
  <2> QED  BY <2>2, <2>3, <2>4, ReportersApart
<1>5. DOMAIN f = W /\ T = {f[x] : x \in W} /\ \A x, y \in W : f[x] = f[y] => x = y
  BY <1>3, <1>4
<1> QED  BY <1>2, <1>5, ImageCount

\* The markers that report are those of the strip's rows.
LEMMA ReportingAre ==
  ASSUME NEW b, NEW n, BodyOf(b, n)
  PROVE  /\ {f \in sensorFeatures(b) : f.value # NoValue} = {MarkOfRow(b, i) : i \in stationValues(b)}
         /\ \A i \in stationValues(b) : MarkOfRow(b, i).network = NetworkAt[b[i].site]
<1>1. ASSUME NEW i \in stationValues(b)
      PROVE  /\ MarkOfRow(b, i) \in sensorFeatures(b) /\ MarkOfRow(b, i).value # NoValue
             /\ MarkOfRow(b, i).network = NetworkAt[b[i].site]
  <2>1. ReporterOf(b, n, i)
    BY ReportersAre
  <2>2. i \in 1 .. n /\ readingAt(b, stationMembers(b, i)).value = b[i].v /\ b[i].v # NoValue
    BY <2>1 DEF ReporterOf
  <2>3. stationMembers(b, i) \in stationsOf(b)
    BY <2>2, StationOf
  <2>4. b[Lowest(stationMembers(b, i))].site = b[i].site
    BY <2>2, MarkIs
  <2> QED  BY <2>2, <2>3, <2>4, FeaturesAre, FeatureSays DEF MarkOfRow
<1>2. ASSUME NEW f \in sensorFeatures(b), f.value # NoValue
      PROVE  \E i \in stationValues(b) : f = MarkOfRow(b, i)
  <2>1. PICK ids \in stationsOf(b) : f = Feature(b, ids)
    BY FeaturesAre
  <2>2. readingAt(b, ids).value # NoValue
    BY <1>2, <2>1, FeatureSays
  <2>3. PICK i \in stationValues(b) : ids = stationMembers(b, i)
    BY <2>2, ReporterFound
  <2> QED  BY <2>1, <2>3 DEF MarkOfRow
<1> QED  BY <1>1, <1>2

\* A median lies between any bounds of the values it is of.
LEMMA MedianBetween ==
  ASSUME NEW b, NEW n, BodyOf(b, n), NEW rows, rows \subseteq stationValues(b), rows # {},
         NEW lo \in Int, NEW hi \in Int, \A i \in rows : lo <= b[i].v /\ b[i].v <= hi
  PROVE  2 * lo <= median(b, rows) /\ median(b, rows) <= 2 * hi
<1>1. rows \subseteq 1 .. n /\ n \in Nat
  BY DEF stationValues, BodyOf
<1>2. IsFiniteSet(1 .. n)
  BY <1>1, FS_Interval
<1>3. PICK c \in Nat : c = Cardinality(rows) /\ IsFiniteSet(rows) /\ c >= 1
  <2>1. IsFiniteSet(rows) /\ Cardinality(rows) \in Nat
    BY <1>1, <1>2, FS_Subset, FS_CardinalityType
  <2>2. Cardinality(rows) # 0
    BY <2>1, FS_EmptySet
  <2> QED  BY <2>1, <2>2
<1>4. \A i \in rows : b[i].v \in Nat
  BY ReportersAre DEF ReporterOf
<1>5. PICK value : value = [i \in rows |-> b[i].v]
  OBVIOUS
<1>6. ByValue(value, rows) = {p \in rows \X rows : \/ b[p[1]].v < b[p[2]].v
                                                   \/ b[p[1]].v = b[p[2]].v /\ p[1] < p[2]}
  BY <1>5 DEF ByValue
<1>7. PICK order : order = Sorted(rows, ByValue(value, rows))
  OBVIOUS
<1>8. order \in [1 .. c -> rows]
  <2>1. rows \subseteq Int /\ \A i \in rows : value[i] \in Int
    BY <1>1, <1>4, <1>5
  <2>2. Orders(rows, ByValue(value, rows))
    BY <1>3, <2>1, ByValueOrders
  <2>3. InTurn(rows, ByValue(value, rows), order)
    BY <1>7, <2>2, SortedInTurn
  <2> QED  BY <1>3, <2>3 DEF InTurn
<1> DEFINE nth(k) == b[order[k + 1]].v
<1>9. median(b, rows) = IF c % 2 = 0 THEN nth(c \div 2 - 1) + nth(c \div 2) ELSE 2 * nth(c \div 2)
  BY <1>3, <1>6, <1>7 DEF median
<1>10. \A k \in 0 .. c - 1 : nth(k) \in Int /\ lo <= nth(k) /\ nth(k) <= hi
  <2> SUFFICES ASSUME NEW k \in 0 .. c - 1 PROVE nth(k) \in Int /\ lo <= nth(k) /\ nth(k) <= hi
    OBVIOUS
  <2>1. k + 1 \in 1 .. c
    BY <1>3
  <2>2. order[k + 1] \in rows
    BY <1>8, <2>1
  <2> QED  BY <1>4, <2>2
<1> HIDE DEF nth
<1>11. c \div 2 \in 0 .. c - 1 /\ (c % 2 = 0 => c \div 2 - 1 \in 0 .. c - 1)
  BY <1>3
<1>12. PICK x, y : x = nth(c \div 2) /\ y = nth(c \div 2 - 1)
  OBVIOUS
<1>13. x \in Int /\ lo <= x /\ x <= hi /\ (c % 2 = 0 => y \in Int /\ lo <= y /\ y <= hi)
  BY <1>10, <1>11, <1>12
<1>14. median(b, rows) = IF c % 2 = 0 THEN y + x ELSE 2 * x
  BY <1>9, <1>12
<1> QED  BY ONLY <1>13, <1>14, lo \in Int, hi \in Int

\* The strip ranks the open station's marker among those that report.
LEMMA StripIsMarkers ==
  ASSUME NEW b, NEW n, BodyOf(b, n), NEW id \in 1 .. n,
         NEW reporting, reporting = {f \in sensorFeatures(b) : f.value # NoValue},
         NEW stats, stats = areaStats(b, id), NEW parts, parts = areaSourceStats(b),
         NEW mark, mark = CHOOSE f \in sensorFeatures(b) : f.at = b[id].site
  PROVE  /\ (stats = NoStats) = (Cardinality(reporting) < 2)
         /\ stats # NoStats =>
              /\ stats.total = Cardinality(reporting)
              /\ 2 * stats.low <= stats.median /\ stats.median <= 2 * stats.high
              /\ stats.value = mark.value
              /\ (Len(cards(b, id)) = 4) = (mark.value # NoValue)
              /\ stats.rank # 0 => /\ stats.rank \in 1 .. stats.total
                                   /\ stats.rank = 1 <=> stats.value = stats.low
         /\ stats # NoStats =>
              \A p \in parts : /\ p.n = Cardinality({f \in reporting : f.network = p.source})
                               /\ 2 * stats.low <= p.median /\ p.median <= 2 * stats.high
<1>1. PICK rows : rows = stationValues(b)
  OBVIOUS
<1>2. reporting = {MarkOfRow(b, i) : i \in rows} /\ \A i \in rows : MarkOfRow(b, i).network = NetworkAt[b[i].site]
  BY <1>1, ReportingAre
<1>3. PICK c \in Nat : c = Cardinality(rows) /\ c = Cardinality(reporting) /\ IsFiniteSet(rows)
  <2>1. rows \subseteq stationValues(b)
    BY <1>1
  <2>2. Cardinality(reporting) = Cardinality(rows) /\ IsFiniteSet(rows) /\ Cardinality(rows) \in Nat
    BY ONLY BodyOf(b, n), <1>2, <2>1, RowMarks
  <2> QED  BY <2>2
<1>4. \A i \in rows : i \in 1 .. n /\ b[i].v \in Nat /\ b[i].v # NoValue
  BY <1>1, ReportersAre DEF ReporterOf
<1>5. PICK values, mine : /\ values = {b[i].v : i \in rows}
                          /\ mine = {i \in rows : b[i].site = b[id].site}
  OBVIOUS
<1>6. PICK value : value = IF mine = {} THEN NoValue ELSE b[Lowest(mine)].v
  OBVIOUS
<1>7. PICK rank : rank = IF mine = {} THEN 0 ELSE Cardinality({i \in rows : b[i].v < value}) + 1
  OBVIOUS
<1>8. stats = IF c < 2 THEN NoStats
              ELSE [total |-> c, high |-> Highest(values), low |-> Lowest(values),
                    median |-> median(b, rows), value |-> value, rank |-> rank]
  BY <1>1, <1>3, <1>5, <1>6, <1>7 DEF areaStats
<1>9. (stats = NoStats) <=> c < 2
  <2>1. NoStats.total = 0
    BY DEF NoStats
  <2>2. ASSUME ~(c < 2) PROVE stats.total = c
    BY <1>8, <2>2
  <2> QED  BY <1>3, <1>8, <2>1, <2>2
<1>10. ASSUME c >= 2
       PROVE  \E lo, hi \in Nat : /\ Spanned(values, lo, hi) /\ Lowest(values) = lo /\ Highest(values) = hi
                                  /\ \A i \in rows : lo <= b[i].v /\ b[i].v <= hi
  <2>1. PICK f : f = [i \in rows |-> b[i].v]
    OBVIOUS
  <2>2. DOMAIN f = rows /\ values = {f[i] : i \in rows}
    BY <1>5, <2>1
  <2>3. IsFiniteSet(values)
    BY <1>3, <2>2, ImageFinite
  <2>4. rows # {}
    <3>1. Cardinality(rows) = 0 <=> rows = {}
      BY <1>3, FS_EmptySet
    <3> QED  BY <1>3, <1>10, <3>1
  <2>5. values # {} /\ values \subseteq Nat /\ values \subseteq Int
    BY <1>4, <1>5, <2>4
  <2>6. PICK lo, hi : Spanned(values, lo, hi)
    BY <2>3, <2>5, EndsExist
  <2>7. Lowest(values) = lo /\ Highest(values) = hi
    BY <2>5, <2>6, LowestOf
  <2>8. lo \in Nat /\ hi \in Nat
    BY <2>5, <2>6 DEF Spanned
  <2>9. \A i \in rows : lo <= b[i].v /\ b[i].v <= hi
    BY <1>5, <2>6 DEF Spanned
  <2> QED  BY <2>6, <2>7, <2>8, <2>9
<1>11. PICK ids : ids = stationMembers(b, id)
  OBVIOUS
<1>12. mark.value = readingAt(b, ids).value
  <2>1. mark = Feature(b, ids)
    BY <1>11, MarkIs
  <2> QED  BY <2>1, FeatureSays
<1>13. mine = {} => mark.value = NoValue
  <2> SUFFICES ASSUME mark.value # NoValue PROVE mine # {}
    OBVIOUS
  <2>1. ids \in stationsOf(b) /\ StationAt(b, n, ids, b[id].site)
    BY <1>11, StationOf
  <2>2. PICK i \in rows : i \in ids
    BY <1>1, <1>12, <2>1, ReporterFound
  <2>3. b[i].site = b[id].site
    BY <2>1, <2>2 DEF StationAt
  <2> QED  BY <1>5, <2>2, <2>3
<1>14. ASSUME mine # {}
       PROVE  \E i \in rows : mine = {i} /\ value = b[i].v /\ mark.value = b[i].v
  <2>1. PICK i \in mine : TRUE
    BY <1>14
  <2>2. i \in rows /\ b[i].site = b[id].site
    BY <1>5, <2>1
  <2>3. mine = {i}
    BY <1>1, <1>5, <2>1, ReportersApart
  <2>4. Lowest(mine) = i
    <3>1. mine \subseteq Nat
      BY <1>4, <2>2, <2>3
    <3> QED  BY <1>14, <2>3, <3>1, LowestIs
  <2>5. stationMembers(b, i) = ids
    BY <1>11, <2>2 DEF stationMembers
  <2>6. readingAt(b, ids) = [value |-> b[i].v, sensorId |-> i]
    BY <1>1, <2>2, <2>5, ReportersAre DEF ReporterOf
  <2>7. mark.value = b[i].v
    BY <1>12, <2>6
  <2> QED  BY <1>6, <1>14, <2>2, <2>3, <2>4, <2>7
<1>15. value = mark.value /\ (mine = {} <=> mark.value = NoValue)
  BY <1>4, <1>6, <1>13, <1>14
<1>16. ASSUME mine # {}, c >= 2, NEW lo \in Nat, NEW hi \in Nat, Spanned(values, lo, hi)
       PROVE  rank \in 1 .. c /\ (rank = 1 <=> value = lo)
  <2>1. PICK i \in rows : mine = {i} /\ value = b[i].v
    BY <1>14, <1>16
  <2>2. PICK under : under = {j \in rows : b[j].v < value}
    OBVIOUS
  <2>3. rank = Cardinality(under) + 1
    BY <1>7, <1>16, <2>2
  <2>4. under \subseteq rows \ {i}
    BY <1>4, <2>1, <2>2
  <2>5. IsFiniteSet(rows \ {i}) /\ Cardinality(rows \ {i}) = c - 1
    BY <1>3, <2>1, FS_RemoveElement
  <2>6. IsFiniteSet(under) /\ Cardinality(under) \in Nat /\ Cardinality(under) <= c - 1
    BY <2>4, <2>5, FS_Subset, FS_CardinalityType
  <2>7. Cardinality(under) = 0 <=> under = {}
    BY <2>6, FS_EmptySet
  <2>8. under = {} <=> value = lo
    <3>1. value \in values /\ value \in Nat /\ lo \in values /\ \A j \in rows : lo <= b[j].v
      BY <1>4, <1>5, <1>16, <2>1 DEF Spanned
    <3>2. PICK j \in rows : b[j].v = lo
      BY <1>5, <3>1
    <3>3. under = {} => value = lo
      <4>1. lo <= value
        BY <1>16, <3>1 DEF Spanned
      <4>2. lo < value => j \in under
        BY <2>2, <3>2
      <4> QED  BY <3>1, <4>1, <4>2
    <3>4. value = lo => under = {}
      BY <1>4, <2>2, <3>1
    <3> QED  BY <3>3, <3>4
  <2> QED  BY <2>3, <2>6, <2>7, <2>8
<1>17. Len(cards(b, id)) = IF stats = NoStats THEN 0 ELSE IF stats.rank = 0 THEN 3 ELSE 4
  <2>1. id # 0
    BY DEF BodyOf
  <2>2. cards(b, id) = areaCards(stats)
    BY <2>1 DEF cards
  <2>3. CASE stats = NoStats
    BY <2>2, <2>3 DEF areaCards
  <2>4. CASE stats # NoStats /\ stats.rank = 0
    <3>1. areaCards(stats) = <<2 * stats.high, 2 * stats.low, stats.median>> \o <<>>
      BY <2>4 DEF areaCards
    <3>2. PICK x, y, z : x = 2 * stats.high /\ y = 2 * stats.low /\ z = stats.median
      OBVIOUS
    <3>3. Len(<<x, y, z>> \o <<>>) = 3
      OBVIOUS
    <3> QED  BY <2>2, <2>4, <3>1, <3>2, <3>3
  <2>5. CASE stats # NoStats /\ stats.rank # 0
    <3>1. PICK w : w = IF 2 * stats.value > stats.median THEN "above"
                       ELSE IF 2 * stats.value < stats.median THEN "below" ELSE "at"
      OBVIOUS
    <3>2. areaCards(stats) = <<2 * stats.high, 2 * stats.low, stats.median>> \o <<w>>
      BY <2>5, <3>1 DEF areaCards
    <3>3. PICK x, y, z : x = 2 * stats.high /\ y = 2 * stats.low /\ z = stats.median
      OBVIOUS
    <3>4. Len(<<x, y, z>> \o <<w>>) = 4
      OBVIOUS
    <3> QED  BY <2>2, <2>5, <3>2, <3>3, <3>4
  <2> QED  BY <2>3, <2>4, <2>5
<1>18. (stats = NoStats) = (Cardinality(reporting) < 2)
  BY <1>3, <1>9
<1>19. ASSUME stats # NoStats
       PROVE  /\ stats.total = Cardinality(reporting)
              /\ 2 * stats.low <= stats.median /\ stats.median <= 2 * stats.high
              /\ stats.value = mark.value
              /\ (Len(cards(b, id)) = 4) = (mark.value # NoValue)
              /\ stats.rank # 0 => /\ stats.rank \in 1 .. stats.total
                                   /\ stats.rank = 1 <=> stats.value = stats.low
              /\ \A p \in parts : /\ p.n = Cardinality({f \in reporting : f.network = p.source})
                                  /\ 2 * stats.low <= p.median /\ p.median <= 2 * stats.high
  <2>1. c >= 2
    BY <1>3, <1>9, <1>19
  <2>2. PICK lo, hi \in Nat : /\ Spanned(values, lo, hi) /\ Lowest(values) = lo /\ Highest(values) = hi
                              /\ \A i \in rows : lo <= b[i].v /\ b[i].v <= hi
    BY <1>10, <2>1
  <2>3. /\ stats.total = c /\ stats.high = hi /\ stats.low = lo /\ stats.median = median(b, rows)
        /\ stats.value = value /\ stats.rank = rank
    BY <1>8, <2>1, <2>2
  <2>4. rows # {}
    <3>1. Cardinality(rows) = 0 <=> rows = {}
      BY <1>3, FS_EmptySet
    <3> QED  BY <1>3, <2>1, <3>1
  <2>5. 2 * stats.low <= stats.median /\ stats.median <= 2 * stats.high
    <3>1. 2 * lo <= median(b, rows) /\ median(b, rows) <= 2 * hi
      BY <1>1, <2>2, <2>4, MedianBetween
    <3> QED  BY <2>3, <3>1
  <2>6. rank = 0 <=> mine = {}
    BY <1>7, <1>16, <2>1, <2>2
  <2>7. (Len(cards(b, id)) = 4) = (mark.value # NoValue)
    BY <1>15, <1>17, <1>19, <2>3, <2>6
  <2>8. stats.rank # 0 => /\ stats.rank \in 1 .. stats.total
                          /\ stats.rank = 1 <=> stats.value = stats.low
    BY <1>16, <2>1, <2>2, <2>3, <2>6
  <2>9. ASSUME NEW p \in parts
        PROVE  /\ p.n = Cardinality({f \in reporting : f.network = p.source})
               /\ 2 * stats.low <= p.median /\ p.median <= 2 * stats.high
    <3> DEFINE of(w) == {i \in rows : NetworkAt[b[i].site] = w}
    <3>1. \E w : of(w) # {} /\ p = [source |-> w, n |-> Cardinality(of(w)), median |-> median(b, of(w))]
      BY <1>1, <2>9 DEF areaSourceStats
    <3>2. PICK w : of(w) # {} /\ p = [source |-> w, n |-> Cardinality(of(w)), median |-> median(b, of(w))]
      BY <3>1
    <3>3. PICK some : some = of(w)
      OBVIOUS
    <3>4. some # {} /\ p.source = w /\ p.n = Cardinality(some) /\ p.median = median(b, some)
      BY <3>2, <3>3
    <3>5. some \subseteq rows /\ \A i \in rows : i \in some <=> NetworkAt[b[i].site] = w
      BY <3>3
    <3> HIDE DEF of
    <3>6. {f \in reporting : f.network = w} = {MarkOfRow(b, i) : i \in some}
      BY <1>2, <3>5
    <3>7. Cardinality({MarkOfRow(b, i) : i \in some}) = Cardinality(some)
      BY <1>1, <3>5, RowMarks
    <3>8. 2 * lo <= median(b, some) /\ median(b, some) <= 2 * hi
      BY <1>1, <2>2, <3>4, <3>5, MedianBetween
    <3> QED  BY <2>3, <3>4, <3>6, <3>7, <3>8
  <2> QED  BY <1>3, <1>15, <2>3, <2>5, <2>7, <2>8, <2>9
<1> QED  BY <1>18, <1>19

-----------------------------------------------------------------------------
(* The nearest. *)

\* Whoever is nearest is found.
Nearer(at, f, i, j) == Away(at, f[i]) <= Away(at, f[j])
LEMMA NearestExists ==
  ASSUME NEW at \in Int, NEW m \in Nat, m # 0, NEW f, \A i \in 1 .. m : f[i] \in Int,
         NEW T, T = {i \in 1 .. m : \A j \in 1 .. m : Nearer(at, f, i, j)}
  PROVE  T # {} /\ T \subseteq Nat
<1>1. \A i \in 1 .. m : Away(at, f[i]) \in Nat
  BY DEF Away
<1>2. PICK D : D = {Away(at, f[i]) : i \in 1 .. m}
  OBVIOUS
<1>3. D \subseteq Nat /\ D # {}
  <2>1. 1 \in 1 .. m
    OBVIOUS
  <2> QED  BY <1>1, <1>2, <2>1
<1>4. PICK x \in D : \A y \in D : x <= y
  BY <1>3, LeastNat
<1>5. PICK i \in 1 .. m : Away(at, f[i]) = x
  BY <1>2
<1>6. \A j \in 1 .. m : Nearer(at, f, i, j)
  BY <1>2, <1>4, <1>5 DEF Nearer
<1>7. i \in T
  BY <1>6
<1>8. T \subseteq Nat
  OBVIOUS
<1> QED  BY <1>7, <1>8

LEMMA NearestHolds ==
  ASSUME NEW b, NEW n, BodyOf(b, n), NEW at \in Sites
  PROVE  /\ nearestArea(at) \in DOMAIN AreaSites
         /\ b # <<>> =>
              \A f \in sensorFeatures(b) : Away(at, normaliseSensor(b, nearestSensor(at, b)).at) <= Away(at, f.at)
<1>1. at \in Int
  BY StationsAssumption
<1>2. nearestArea(at) \in DOMAIN AreaSites
  <2>1. AreaSites \in Seq(Int) /\ AreaSites # <<>>
    BY StationsAssumption
  <2>2. PICK m \in Nat : m = Len(AreaSites) /\ DOMAIN AreaSites = 1 .. m /\ m # 0 /\ \A i \in 1 .. m : AreaSites[i] \in Int
    BY <2>1
  <2>3. PICK T : T = {i \in 1 .. m : \A j \in 1 .. m : Nearer(at, AreaSites, i, j)}
    OBVIOUS
  <2>4. T # {} /\ T \subseteq Nat
    BY <1>1, <2>2, <2>3, NearestExists
  <2>5. nearestArea(at) = Lowest(T)
    BY <2>2, <2>3 DEF nearestArea, Nearer
  <2>6. Lowest(T) \in T
    BY <2>4, LowestIs
  <2> QED  BY <2>2, <2>3, <2>5, <2>6
<1>3. ASSUME b # <<>>, NEW f \in sensorFeatures(b)
      PROVE  Away(at, normaliseSensor(b, nearestSensor(at, b)).at) <= Away(at, f.at)
  <2>1. n \in Nat /\ DOMAIN b = 1 .. n
    BY DEF BodyOf
  <2>2. PICK other \in stationsOf(b) : f = Feature(b, other)
    BY FeaturesAre
  <2>3. PICK s : StationAt(b, n, other, s)
    BY StationIs
  <2>4. Lowest(other) \in 1 .. n /\ f.at = b[Lowest(other)].site
    BY <2>2, <2>3, FeatureSays DEF StationAt
  <2>5. PICK sites : sites = [i \in 1 .. n |-> b[i].site]
    OBVIOUS
  <2>6. PICK T : T = {i \in 1 .. n : \A j \in 1 .. n : Nearer(at, sites, i, j)}
    OBVIOUS
  <2>7. T # {} /\ T \subseteq Nat
    <3>1. n # 0 /\ \A i \in 1 .. n : sites[i] \in Int
      BY <2>1, <2>4, <2>5, BodyRows
    <3> QED  BY <1>1, <2>1, <2>6, <3>1, NearestExists
  <2>8. nearestSensor(at, b) = Lowest(T)
    BY <1>3, <2>1, <2>5, <2>6 DEF nearestSensor, Nearer
  <2>9. PICK k : k = Lowest(T) /\ k \in T
    BY <2>7, LowestIs
  <2>10. k \in 1 .. n /\ Nearer(at, sites, k, Lowest(other))
    BY <2>4, <2>6, <2>9
  <2>11. normaliseSensor(b, k).at = b[k].site
    <3>1. normaliseSensor(b, k).at = b[Lowest(stationMembers(b, k))].site
      BY DEF normaliseSensor
    <3>2. b[Lowest(stationMembers(b, k))].site = b[k].site
      BY <2>10, MarkIs
    <3> QED  BY <3>1, <3>2
  <2>12. sites[k] = b[k].site /\ sites[Lowest(other)] = b[Lowest(other)].site
    BY <2>4, <2>5, <2>10
  <2> QED  BY <2>4, <2>8, <2>9, <2>10, <2>11, <2>12 DEF Nearer
<1> QED  BY <1>2, <1>3

-----------------------------------------------------------------------------
\* The body stays, and what is open is in it.
StationsInv ==
  /\ \E n \in 0 .. MaxDevices : BodyOf(rowsHeld, n)
  /\ shownStatus \in {"all", "active", "inactive"}
  /\ openedId = 0 \/ openedId \in DOMAIN rowsHeld

LEMMA StationsNextInv == StationsInv /\ [StationsNext]_stationVars => StationsInv'
<1> SUFFICES ASSUME StationsInv, [StationsNext]_stationVars PROVE StationsInv'
  OBVIOUS
<1>1. CASE ChooseStatus
  BY <1>1 DEF StationsInv, ChooseStatus
<1>2. CASE TickFaulty
  BY <1>2 DEF StationsInv, TickFaulty
<1>3. CASE ClickMarker
  <2>1. PICK f \in sensorFeatures(rowsHeld) : openedId' = f.id
    BY <1>3 DEF ClickMarker, Markers
  <2>2. PICK n \in 0 .. MaxDevices : BodyOf(rowsHeld, n)
    BY DEF StationsInv
  <2>3. PICK ids \in stationsOf(rowsHeld) : f = Feature(rowsHeld, ids)
    BY FeaturesAre
  <2>4. f.id = Lowest(ids)
    BY <2>3, FeatureSays
  <2>5. PICK s : StationAt(rowsHeld, n, ids, s)
    BY <2>2, StationIs
  <2>6. openedId' \in DOMAIN rowsHeld
    BY <2>1, <2>2, <2>4, <2>5 DEF StationAt, BodyOf
  <2> QED  BY <1>3, <2>6 DEF StationsInv, ClickMarker
<1>4. CASE FollowLink
  BY <1>4 DEF StationsInv, FollowLink
<1>5. CASE ClosePanel
  BY <1>5 DEF StationsInv, ClosePanel
<1>6. CASE UNCHANGED stationVars
  BY <1>6 DEF StationsInv, stationVars
<1> QED  BY <1>1, <1>2, <1>3, <1>4, <1>5, <1>6 DEF StationsNext

LEMMA StationsInvAgree == StationsInv => StationsAgree
<1> SUFFICES ASSUME StationsInv PROVE StationsAgree
  OBVIOUS
<1>1. PICK n \in 0 .. MaxDevices : BodyOf(rowsHeld, n)
  BY DEF StationsInv
<1>2. n \in Nat /\ DOMAIN rowsHeld = 1 .. n /\ n <= MaxDevices
  BY <1>1, StationsAssumption DEF BodyOf
<1>3. CountsWhatIsDrawn
  BY <1>1, LineCountsMarkers DEF CountsWhatIsDrawn, StationsInv
<1>4. PanelIsItsMarker
  <2>1. \A i \in 1 .. n : PanelSays(rowsHeld, i, normaliseSensor(rowsHeld, i),
                                   CHOOSE f \in sensorFeatures(rowsHeld) : f.at = rowsHeld[i].site)
    BY <1>1, <1>2, PanelIsMarkers
  <2> QED  BY <1>2, <2>1 DEF PanelIsItsMarker, PanelSays
<1>5. StripRanksTheMarkers
  <2> SUFFICES ASSUME openedId # 0 PROVE StripRanksTheMarkers
    BY DEF StripRanksTheMarkers
  <2>1. openedId \in 1 .. n
    BY <1>2 DEF StationsInv
  <2> QED  BY <1>1, <2>1, StripIsMarkers DEF StripRanksTheMarkers
<1>6. NearestIsOpenable
  BY <1>1, NearestHolds DEF NearestIsOpenable
<1> QED  BY <1>3, <1>4, <1>5, <1>6 DEF StationsAgree

LEMMA StationsInitInv == StationsInit => StationsInv
<1> SUFFICES ASSUME StationsInit PROVE StationsInv
  OBVIOUS
<1>1. PICK n \in 0 .. MaxDevices : rowsHeld \in [1 .. n -> DeviceRows]
  BY DEF StationsInit
<1>2. n \in Nat
  BY StationsAssumption
<1> QED  BY <1>1, <1>2 DEF StationsInit, StationsInv, BodyOf

\* The markers, the line that counts them, the panel, the strip and "near me"
\* tell one story of the body, for every body and every way of asking.
THEOREM StationsAlwaysAgree == StationsSpec => []StationsAgree
BY StationsInitInv, StationsNextInv, StationsInvAgree, PTL DEF StationsSpec
-----------------------------------------------------------------------------
(***************************************************************************)
(* The labels' zooms, the columns and the box of a request.                *)
(*                                                                         *)
(* The zooms at which markers and cells hand the number over are computed  *)
(* from the hexagon's size; the proof computes them (HandoverZooms), and   *)
(* from there the markers' range never reaches past the cells'.            *)
(***************************************************************************)
LEMMA PowersOfTwo ==
  /\ 2^0 = 1 /\ 2^1 = 2 /\ 2^2 = 4 /\ 2^3 = 8 /\ 2^4 = 16 /\ 2^5 = 32 /\ 2^6 = 64 /\ 2^7 = 128
  /\ 2^8 = 256 /\ 2^9 = 512 /\ 2^10 = 1024 /\ 2^11 = 2048 /\ 2^12 = 4096 /\ 2^13 = 8192
  /\ 2^14 = 16384
OBVIOUS

\* The first zooms asked for points and for cells.
LEMMA HandoverZooms == POINT_TIER_MIN_ZOOM = 14 /\ GRID_MIN_ZOOM = 4
<1> USE DEF TARGET_HEX_PX, MIN_HEX_PX, M_PER_PX_Z0, FINEST_TIER_M, COARSEST_TIER_M
<1>1. \A y \in 0 .. 13 : \/ y = 0 \/ y = 1 \/ y = 2 \/ y = 3 \/ y = 4 \/ y = 5 \/ y = 6
                         \/ y = 7 \/ y = 8 \/ y = 9 \/ y = 10 \/ y = 11 \/ y = 12 \/ y = 13
  OBVIOUS
<1>2. resolutionForZoom(14) < 250 /\ \A y \in 0 .. 13 : ~(resolutionForZoom(y) < 250)
  BY <1>1, PowersOfTwo DEF resolutionForZoom
<1>3. POINT_TIER_MIN_ZOOM = 14
  <2>1. \E z \in ZoomLevels : resolutionForZoom(z) < 250 /\ \A y \in 0 .. z - 1 : ~(resolutionForZoom(y) < 250)
    <3> HIDE DEF resolutionForZoom
    <3> QED  BY <1>2 DEF ZoomLevels
  <2> HIDE DEF resolutionForZoom
  <2>2. /\ POINT_TIER_MIN_ZOOM \in ZoomLevels /\ resolutionForZoom(POINT_TIER_MIN_ZOOM) < 250
        /\ \A y \in 0 .. POINT_TIER_MIN_ZOOM - 1 : ~(resolutionForZoom(y) < 250)
    BY <2>1 DEF POINT_TIER_MIN_ZOOM, First
  <2> QED  BY <1>2, <2>2 DEF ZoomLevels
<1>4. 3200000 >= 8 * resolutionForZoom(4) /\ \A y \in 0 .. 3 : ~(3200000 >= 8 * resolutionForZoom(y))
  BY <1>1, PowersOfTwo DEF resolutionForZoom
<1>5. GRID_MIN_ZOOM = 4
  <2>1. \E z \in ZoomLevels : /\ 3200000 >= 8 * resolutionForZoom(z)
                              /\ \A y \in 0 .. z - 1 : ~(3200000 >= 8 * resolutionForZoom(y))
    <3> HIDE DEF resolutionForZoom
    <3> QED  BY <1>4 DEF ZoomLevels
  <2> HIDE DEF resolutionForZoom
  <2>2. /\ GRID_MIN_ZOOM \in ZoomLevels /\ 3200000 >= 8 * resolutionForZoom(GRID_MIN_ZOOM)
        /\ \A y \in 0 .. GRID_MIN_ZOOM - 1 : ~(3200000 >= 8 * resolutionForZoom(y))
    BY <2>1 DEF GRID_MIN_ZOOM, First
  <2> QED  BY <1>4, <2>2 DEF ZoomLevels
<1> QED  BY <1>3, <1>5

\* The markers' and the cells' ranges, in half levels.
LEMMA LabelZooms ==
  /\ \A t : markerMaxZoom(t) = IF t = "sensors" THEN 27 ELSE 7
  /\ \A t, values : hexLabelMinZoom(values, t) = IF values /\ t # "sensors" THEN 7 ELSE 27
  /\ POINT_TIER_MIN_ZOOM_FRACTIONAL = 27
<1>1. POINT_TIER_MIN_ZOOM_FRACTIONAL = 27 /\ GRID_MIN_ZOOM_FRACTIONAL = 7
  BY HandoverZooms DEF POINT_TIER_MIN_ZOOM_FRACTIONAL, GRID_MIN_ZOOM_FRACTIONAL
<1>2. \A t : markerMaxZoom(t) = IF t = "sensors" THEN 27 ELSE 7
  BY <1>1 DEF markerMaxZoom
<1> QED  BY <1>1, <1>2 DEF hexLabelMinZoom

CellsInv ==
  /\ drawnTier \in MarkerTiers \cup {"unset"} /\ cellValuesOn \in BOOLEAN /\ layersAdded \in BOOLEAN
  /\ labelMax \in Nat /\ cellLabelMin \in Nat /\ pitched \in 0 .. 2
  /\ rise \in [cells : SUBSET Spots, factor : 0 .. 2, queued : BOOLEAN]
  /\ ~layersAdded => drawnTier = "unset"
  /\ layersAdded /\ drawnTier # "unset" =>
       labelMax = markerMaxZoom(drawnTier) /\ cellLabelMin = hexLabelMinZoom(cellValuesOn, drawnTier)
  /\ ColumnsFollowCells

LEMMA CellsInitInv == CellsInit => CellsInv
<1> SUFFICES ASSUME CellsInit PROVE CellsInv
  OBVIOUS
<1>1. cellValuesOn \in BOOLEAN
  BY DEF CellsInit
<1>2. rise = [cells |-> {}, factor |-> 0, queued |-> FALSE] /\ columns = [c \in {} |-> 0]
  BY DEF CellsInit
<1>3. rise \in [cells : SUBSET Spots, factor : 0 .. 2, queued : BOOLEAN] /\ rise.factor = 0
  BY <1>2
<1>4. ColumnsFollowCells
  BY <1>2, <1>3 DEF CellsInit, ColumnsFollowCells
<1> QED  BY <1>1, <1>3, <1>4 DEF CellsInit, CellsInv

LEMMA CellsNextInv == CellsInv /\ [CellsNext]_cellVars => CellsInv'
<1> SUFFICES ASSUME CellsInv, [CellsNext]_cellVars PROVE CellsInv'
  OBVIOUS
<1>0. PICK cs, f, q : rise = [cells |-> cs, factor |-> f, queued |-> q] /\ cs \subseteq Spots /\ f \in 0 .. 2 /\ q \in BOOLEAN
  BY DEF CellsInv
<1>1. CASE SetCellValues
  <2>1. cellValuesOn' \in BOOLEAN /\ cellValuesOn' = ~cellValuesOn
    BY <1>1 DEF SetCellValues
  <2>2. cellLabelMin' \in Nat
    BY <1>1, LabelZooms DEF SetCellValues, CellsInv
  <2>3. UNCHANGED <<drawnTier, layersAdded, labelMax, pitched, rise, columns>>
    BY <1>1 DEF SetCellValues, riseVars
  <2>4. layersAdded => cellLabelMin' = hexLabelMinZoom(cellValuesOn', drawnTier)
    BY <1>1 DEF SetCellValues
  <2> QED  BY <2>1, <2>2, <2>3, <2>4 DEF CellsInv, ColumnsFollowCells
<1>2. CASE AddLayers
  <2>1. layersAdded' = TRUE /\ labelMax' = 7 /\ cellLabelMin' = 27
    BY <1>2, LabelZooms DEF AddLayers
  <2>2. UNCHANGED <<drawnTier, cellValuesOn, pitched, rise, columns>> /\ ~layersAdded
    BY <1>2 DEF AddLayers, riseVars
  <2> QED  BY <2>1, <2>2 DEF CellsInv, ColumnsFollowCells
<1>3. ASSUME NEW t \in MarkerTiers, applyMarkerZoomRange(t) PROVE CellsInv'
  <2>1. /\ drawnTier' = t /\ labelMax' = markerMaxZoom(t) /\ cellLabelMin' = hexLabelMinZoom(cellValuesOn, t)
        /\ layersAdded /\ UNCHANGED <<cellValuesOn, layersAdded, pitched, rise, columns>>
    BY <1>3 DEF applyMarkerZoomRange, riseVars
  <2>2. labelMax' \in Nat /\ cellLabelMin' \in Nat
    BY <2>1, LabelZooms
  <2> QED  BY <2>1, <2>2 DEF CellsInv, ColumnsFollowCells
<1>4. ASSUME NEW p \in 0 .. 2, Tilt(p) PROVE CellsInv'
  <2>1. /\ rise' = [rise EXCEPT !.queued = TRUE] /\ pitched' = p
        /\ UNCHANGED <<drawnTier, cellValuesOn, layersAdded, labelMax, cellLabelMin, columns>>
    BY <1>4 DEF Tilt, handoverVars
  <2>2. rise' = [cells |-> cs, factor |-> f, queued |-> TRUE]
    BY <1>0, <2>1
  <2> QED  BY <1>0, <2>1, <2>2 DEF CellsInv, ColumnsFollowCells
<1>5. CASE ApplyRise
  <2>1. /\ rise' = [rise EXCEPT !.queued = FALSE, !.factor = pitched]
        /\ UNCHANGED <<drawnTier, cellValuesOn, layersAdded, labelMax, cellLabelMin, pitched>>
    BY <1>5 DEF ApplyRise, handoverVars
  <2>2. rise' = [cells |-> cs, factor |-> pitched, queued |-> FALSE]
    BY <1>0, <2>1
  <2>3. columns = [c \in (IF f = 0 THEN {} ELSE cs) |-> f]
    BY <1>0 DEF CellsInv, ColumnsFollowCells
  <2>4. columns' = IF pitched = f THEN columns ELSE [c \in (IF pitched = 0 THEN {} ELSE cs) |-> pitched]
    BY <1>0, <1>5 DEF ApplyRise
  <2>5. columns' = [c \in (IF pitched = 0 THEN {} ELSE cs) |-> pitched]
    BY <2>3, <2>4
  <2>6. rise'.factor = pitched /\ rise'.cells = cs
    BY <2>2
  <2>7. ColumnsFollowCells'
    BY <2>1, <2>5, <2>6 DEF ColumnsFollowCells
  <2>8. rise' \in [cells : SUBSET Spots, factor : 0 .. 2, queued : BOOLEAN]
    BY <1>0, <2>2 DEF CellsInv
  <2> QED  BY <2>1, <2>7, <2>8 DEF CellsInv
<1>6. ASSUME NEW given \in SUBSET Spots, CellsPainted(given) PROVE CellsInv'
  <2>1. /\ rise' = [rise EXCEPT !.cells = given]
        /\ UNCHANGED <<drawnTier, cellValuesOn, layersAdded, labelMax, cellLabelMin, pitched>>
    BY <1>6 DEF CellsPainted, handoverVars
  <2>2. rise' = [cells |-> given, factor |-> f, queued |-> q]
    BY <1>0, <2>1
  <2>3. columns = [c \in (IF f = 0 THEN {} ELSE cs) |-> f] /\ (f # pitched => q)
    BY <1>0 DEF CellsInv, ColumnsFollowCells
  <2>4. columns' = IF f = 0 THEN columns ELSE [c \in given |-> f]
    BY <1>0, <1>6 DEF CellsPainted
  <2>5. columns' = [c \in (IF f = 0 THEN {} ELSE given) |-> f]
    BY <2>3, <2>4
  <2>6. rise'.factor = f /\ rise'.cells = given /\ rise'.queued = q
    BY <2>2
  <2>7. ColumnsFollowCells'
    BY <2>1, <2>3, <2>5, <2>6 DEF ColumnsFollowCells
  <2>8. rise' \in [cells : SUBSET Spots, factor : 0 .. 2, queued : BOOLEAN]
    BY <1>0, <2>2
  <2> QED  BY <2>1, <2>7, <2>8 DEF CellsInv
<1>7. CASE UNCHANGED cellVars
  BY <1>7 DEF cellVars, handoverVars, riseVars, CellsInv, ColumnsFollowCells
<1> QED  BY <1>1, <1>2, <1>3, <1>4, <1>5, <1>6, <1>7 DEF CellsNext

\* The marks of the map keep their shape.
THEOREM CellsTypeCorrect == CellsSpec => []CellsTypeOK
<1>1. CellsInv => CellsTypeOK
  <2> SUFFICES ASSUME CellsInv PROVE CellsTypeOK
    OBVIOUS
  <2>1. {cellValuesOn, layersAdded} \subseteq BOOLEAN
    BY DEF CellsInv
  <2>2. DOMAIN columns \subseteq Spots /\ rise.cells \subseteq Spots
    BY DEF CellsInv, ColumnsFollowCells
  <2> QED  BY <2>1, <2>2 DEF CellsInv, CellsTypeOK
<1> QED
  BY <1>1, CellsInitInv, CellsNextInv, PTL DEF CellsSpec


\* The box of a request covers the view.
LEMMA BoxCovers ==
  ASSUME NEW lo \in Int, NEW hi \in Int, lo < hi, NEW box, box = bboxParam(lo, hi),
         NEW there, there = {x \in lo .. hi : x \in -Limit .. Limit}
  PROVE  IF box = <<>> THEN Cardinality(there) <= 1 ELSE there \subseteq box[1] .. box[2]
<1>1. PICK k \in Int : k = Limit
  BY CellsAssumption DEF Limit
<1>2. PICK down, up : down = Snap(lo, FALSE) /\ up = Snap(hi, TRUE)
  OBVIOUS
<1>3. down = (lo \div 2) * 2 /\ up = ((hi + 1) \div 2) * 2
  BY <1>2 DEF Snap, Quantum
<1>4. down \in Int /\ up \in Int /\ down <= lo /\ hi <= up
  BY <1>3
<1>5. PICK w, e : w = (IF down < -k THEN -k ELSE down) /\ e = (IF up > k THEN k ELSE up)
  OBVIOUS
<1>6. box = IF w < e THEN <<w, e>> ELSE <<>>
  BY <1>1, <1>2, <1>5 DEF bboxParam
<1>7. w \in Int /\ e \in Int /\ \A x \in there : x \in Int /\ w <= x /\ x <= e
  BY <1>1, <1>4, <1>5
<1>8. CASE w < e
  <2>1. box = <<w, e>> /\ box # <<>> /\ box[1] = w /\ box[2] = e
    BY <1>6, <1>8
  <2> QED  BY <1>7, <2>1
<1>9. CASE ~(w < e)
  <2>1. there \subseteq {w}
    BY <1>7, <1>9
  <2>2. IsFiniteSet({w}) /\ Cardinality({w}) = 1
    BY FS_Singleton
  <2>3. Cardinality(there) <= 1
    BY <2>1, <2>2, FS_Subset
  <2> QED  BY <1>6, <1>9, <2>3
<1> QED  BY <1>8, <1>9

-----------------------------------------------------------------------------
(***************************************************************************)
(* The frames.                                                             *)
(***************************************************************************)
LEMMA MaxIs ==
  ASSUME NEW T, IsFiniteSet(T), T \subseteq Int, T # {}
  PROVE  Max(T) \in T /\ \A y \in T : y <= Max(T)
<1>1. PICK lo, hi : Spanned(T, lo, hi)
  BY EndsExist
<1>2. hi \in T /\ \A y \in T : hi >= y
  BY <1>1 DEF Spanned
<1>3. Max(T) \in T /\ \A y \in T : Max(T) >= y
  BY <1>2 DEF Max
<1> QED  BY <1>3

Frames(body, n) == n \in Nat /\ n # 0 /\ body \in [1 .. n -> [Spots -> Readings \cup {Absent}]]

\* What a cell is held at: the last hour that measured it, if one did.
LEMMA HeldAt ==
  ASSUME NEW body, NEW n, Frames(body, n), NEW i \in 1 .. n, NEW c \in Spots,
         NEW past, past = Earlier(body, i, c)
  PROVE  /\ past \subseteq 1 .. i
         /\ past # {} => Max(past) \in past /\ \A j \in past : j <= Max(past)
         /\ (fillForward(body, i, c).v # Absent) <=> past # {}
         /\ fillForward(body, i, c).carried <=> body[i][c] = Absent /\ past # {}
         /\ fillForward(body, i, c).v = IF past = {} THEN Absent ELSE body[Max(past)][c]
<1>1. past = {j \in 1 .. i : body[j][c] # Absent} /\ i \in Nat
  BY DEF Earlier, Frames
<1>2. IsFiniteSet(1 .. i)
  BY <1>1, FS_Interval
<1>3. past \subseteq 1 .. i /\ IsFiniteSet(past) /\ past \subseteq Int
  BY <1>1, <1>2, FS_Subset
<1>4. past # {} => Max(past) \in past /\ \A j \in past : j <= Max(past)
  BY <1>3, MaxIs
<1>5. /\ fillForward(body, i, c).v = IF past = {} THEN Absent ELSE body[Max(past)][c]
      /\ fillForward(body, i, c).carried = (body[i][c] = Absent /\ past # {})
  BY DEF fillForward
<1>6. past # {} => body[Max(past)][c] # Absent
  BY <1>1, <1>4
<1> QED  BY <1>3, <1>4, <1>5, <1>6

\* A cell measured in an hour shows that; one that is not shows what the hour before
\* showed, and says that it does.
HourSays(body, i, c) ==
  LET f == fillForward(body, i, c)
  IN /\ body[i][c] # Absent => f = [v |-> body[i][c], carried |-> FALSE]
     /\ i = 1 /\ body[i][c] = Absent => f = [v |-> Absent, carried |-> FALSE]
     /\ i > 1 /\ body[i][c] = Absent =>
          f.v = fillForward(body, i - 1, c).v /\ f.carried = (f.v # Absent)
LEMMA HoursHold ==
  ASSUME NEW body, NEW n, Frames(body, n), NEW i \in 1 .. n, NEW c \in Spots
  PROVE  HourSays(body, i, c)
<1>1. PICK past : past = Earlier(body, i, c)
  OBVIOUS
<1>2. past = {j \in 1 .. i : body[j][c] # Absent} /\ i \in Nat /\ i >= 1 /\ n \in Nat
  BY <1>1 DEF Earlier, Frames
<1>3. PICK f : f = fillForward(body, i, c)
  OBVIOUS
<1>4. f = [v |-> f.v, carried |-> f.carried]
  BY <1>3 DEF fillForward
<1>5. CASE body[i][c] # Absent
  <2>1. i \in past
    BY <1>2, <1>5
  <2>2. Max(past) \in past /\ i <= Max(past) /\ past \subseteq 1 .. i
    BY <1>1, <2>1, HeldAt
  <2>3. Max(past) = i
    BY <1>2, <2>2
  <2>4. fillForward(body, i, c) = [v |-> body[i][c], carried |-> FALSE]
    BY <1>1, <1>5, <2>1, <2>3 DEF fillForward
  <2> QED  BY <1>5, <2>4 DEF HourSays
<1>6. CASE body[i][c] = Absent /\ i = 1
  <2>1. past = {}
    BY <1>2, <1>6
  <2>2. fillForward(body, i, c) = [v |-> Absent, carried |-> FALSE]
    BY <1>1, <2>1 DEF fillForward
  <2> QED  BY <1>6, <2>2 DEF HourSays
<1>7. CASE body[i][c] = Absent /\ i > 1
  <2>1. i - 1 \in 1 .. n
    BY <1>2, <1>7
  <2>2. PICK earlier : earlier = Earlier(body, i - 1, c)
    OBVIOUS
  <2>3. earlier = {j \in 1 .. i - 1 : body[j][c] # Absent}
    BY <2>2 DEF Earlier
  <2>4. earlier = past
    BY <1>2, <1>7, <2>3
  <2>5. fillForward(body, i - 1, c).v = IF past = {} THEN Absent ELSE body[Max(past)][c]
    BY <2>2, <2>4 DEF fillForward
  <2>6. f.v = IF past = {} THEN Absent ELSE body[Max(past)][c]
    BY <1>1, <1>3 DEF fillForward
  <2>7. f.carried = (past # {})
    BY <1>1, <1>3, <1>7 DEF fillForward
  <2>8. (f.v # Absent) <=> past # {}
    BY <1>1, <1>3, HeldAt
  <2>9. f.v = fillForward(body, i - 1, c).v
    BY <2>5, <2>6
  <2>10. f.carried = (f.v # Absent)
    BY <2>7, <2>8
  <2> QED  BY <1>3, <1>7, <2>9, <2>10 DEF HourSays
<1> QED  BY <1>2, <1>5, <1>6, <1>7

\* A frame is thin only beside one that is not.
LEMMA ThinHasHistory ==
  ASSUME NEW body, NEW n, Frames(body, n), thinFrames(body) # {}
  PROVE  hasHistory(body)
<1>1. n \in Nat /\ n # 0 /\ DOMAIN body = 1 .. n
  BY DEF Frames
<1>2. \A i : frameCoverage(body, i) \in Nat
  <2> SUFFICES ASSUME NEW i PROVE frameCoverage(body, i) \in Nat
    OBVIOUS
  <2>1. PICK T : T = {c \in Spots : body[i][c] # Absent}
    OBVIOUS
  <2>2. IsFiniteSet(T)
    BY <2>1, CellsAssumption, FS_Subset
  <2> QED  BY <2>1, <2>2, FS_CardinalityType DEF frameCoverage
<1>3. PICK D : D = {frameCoverage(body, j) : j \in 1 .. n}
  OBVIOUS
<1>4. IsFiniteSet(D) /\ D \subseteq Int /\ D # {}
  <2>1. PICK f : f = [j \in 1 .. n |-> frameCoverage(body, j)]
    OBVIOUS
  <2>2. DOMAIN f = 1 .. n /\ D = {f[j] : j \in 1 .. n}
    BY <1>3, <2>1
  <2>3. IsFiniteSet(1 .. n)
    BY <1>1, FS_Interval
  <2>4. IsFiniteSet(D)
    BY <2>2, <2>3, ImageFinite
  <2>5. 1 \in 1 .. n
    BY <1>1
  <2>6. D # {}
    BY <1>3, <2>5
  <2> QED  BY <1>2, <1>3, <2>4, <2>6
<1>5. PICK i \in 1 .. n : 4 * frameCoverage(body, i) < Max(D)
  BY <1>1, <1>3 DEF thinFrames
<1>6. Max(D) \in D
  BY <1>4, MaxIs
<1>7. PICK j \in 1 .. n : frameCoverage(body, j) = Max(D)
  BY <1>3, <1>6
<1>8. frameCoverage(body, i) \in Nat /\ frameCoverage(body, j) \in Nat
  BY <1>2
<1>9. frameCoverage(body, j) > 0
  BY <1>5, <1>7, <1>8
<1> QED  BY <1>1, <1>9 DEF hasHistory

\* What fades in one painting.
FadesIn(before, r, body, i, reducedMotion, c) ==
  /\ ~reducedMotion /\ before # <<>> /\ body[i][c] # Absent
  /\ c \in r.settling => c \in before[1].arrived
  /\ c \in r.arrived => c \notin before[1].valued
LEMMA ArrivalsSay ==
  ASSUME NEW body, NEW n, Frames(body, n), NEW i \in 1 .. n, NEW before, NEW reducedMotion,
         NEW r, r = markArrivals(before, body, i, reducedMotion)[1], NEW c \in r.arrived \cup r.settling
  PROVE  FadesIn(before, r, body, i, reducedMotion, c)
<1> DEFINE f == [d \in Spots |-> fillForward(body, i, d)]
           valued == {d \in Spots : f[d].v # Absent}
           ramp == before # <<>> /\ ~reducedMotion
           fresh == {d \in valued : ramp /\ ~f[d].carried}
           arrived == {d \in fresh : d \notin before[1].valued}
           settling == {d \in fresh \ arrived : d \in before[1].arrived}
<1>1. r.arrived = arrived /\ r.settling = settling
  BY DEF markArrivals
<1>2. c \in fresh
  BY <1>1
<1>3. ramp /\ c \in Spots /\ f[c].v # Absent /\ ~f[c].carried
  BY <1>2
<1>4. fillForward(body, i, c).v # Absent /\ ~fillForward(body, i, c).carried
  BY <1>3
<1>5. body[i][c] # Absent
  <2>1. PICK past : past = Earlier(body, i, c)
    OBVIOUS
  <2>2. past # {}
    BY <1>3, <1>4, <2>1, HeldAt
  <2>3. fillForward(body, i, c).carried <=> body[i][c] = Absent /\ past # {}
    BY <1>3, <2>1, HeldAt
  <2> QED  BY <1>4, <2>2, <2>3
<1>6. c \in r.settling => c \in before[1].arrived
  BY <1>1
<1>7. c \in r.arrived => c \notin before[1].valued
  BY <1>1
<1> QED  BY <1>3, <1>5, <1>6, <1>7 DEF FadesIn

\* The paintings follow one another, each made from the one before.
PaintedInTurn(at, body, order, m, reducedMotion) ==
  at[0] = <<>> /\ \A k \in 1 .. m : at[k] = markArrivals(at[k - 1], body, order[k], reducedMotion)
LEMMA PaintingsFollow ==
  ASSUME NEW body, NEW n, Frames(body, n), NEW order, NEW m \in Nat, order \in [1 .. m -> 1 .. n],
         NEW reducedMotion, NEW at, at = Painted(body, order, reducedMotion)
  PROVE  PaintedInTurn(at, body, order, m, reducedMotion)
<1>1. Len(order) = m
  <2>1. PICK S : S = 1 .. n
    OBVIOUS
  <2>2. order \in [1 .. m -> S]
    BY <2>1
  <2>3. order \in Seq(S) /\ DOMAIN order = 1 .. m
    BY ONLY m \in Nat, <2>2
  <2> QED  BY ONLY m \in Nat, <2>3
<1> DEFINE Next1(k, prior) == markArrivals(prior, body, order[k], reducedMotion)
           Painting == [valued : SUBSET Spots, arrived : SUBSET Spots, settling : SUBSET Spots]
           V == {<<>>} \cup {<<r>> : r \in Painting}
           Follows(g) == g = [k \in 0 .. m |-> IF k = 0 THEN <<>> ELSE Next1(k, g[k - 1])]
<1>2. \A k, prior : Next1(k, prior) \in V
  BY DEF markArrivals
<1>3. at = CHOOSE g : Follows(g)
  BY <1>1 DEF Painted
<1> HIDE DEF Next1
<1>4. \E g : Follows(g)
  <2>1. PICK base, step : base = <<>> /\ step = [k \in 1 .. m |-> [prior \in V |-> Next1(k, prior)]]
    OBVIOUS
  <2>2. base \in V
    BY <2>1
  <2> HIDE DEF V
  <2>3. step \in [1 .. m -> [V -> V]]
    BY <1>2, <2>1
  <2>4. PICK g \in [0 .. m -> V] : Iterates(g, m, base, step)
    BY <2>2, <2>3, IterationExists
  <2>5. g[0] = <<>> /\ \A k \in 1 .. m : g[k] = step[k][g[k - 1]]
    BY <2>1, <2>4 DEF Iterates
  <2>6. \A k \in 1 .. m : g[k - 1] \in V
    <3>1. \A k \in 1 .. m : k - 1 \in 0 .. m
      OBVIOUS
    <3> QED  BY <2>4, <3>1
  <2>7. \A k \in 1 .. m : g[k] = Next1(k, g[k - 1])
    BY <2>1, <2>5, <2>6
  <2>8. \A k \in 0 .. m : g[k] = IF k = 0 THEN <<>> ELSE Next1(k, g[k - 1])
    <3>1. \A k \in 0 .. m : k = 0 \/ k \in 1 .. m
      OBVIOUS
    <3> QED  BY <2>5, <2>7, <3>1
  <2>9. DOMAIN g = 0 .. m /\ g = [k \in 0 .. m |-> g[k]]
    BY <2>4
  <2> QED  BY <2>8, <2>9
<1>5. Follows(at)
  <2> HIDE DEF Follows
  <2> QED  BY <1>3, <1>4
<1>6. \A k \in 0 .. m : at[k] = IF k = 0 THEN <<>> ELSE Next1(k, at[k - 1])
  BY <1>5
<1>7. 0 \in 0 .. m /\ \A k \in 1 .. m : k \in 0 .. m /\ k # 0
  OBVIOUS
<1>8. at[0] = <<>> /\ \A k \in 1 .. m : at[k] = Next1(k, at[k - 1])
  BY <1>6, <1>7
<1> QED  BY <1>8 DEF Next1, PaintedInTurn

LEMMA FramesHold ==
  ASSUME NEW body, NEW n, Frames(body, n), NEW order, NEW m \in Nat, order \in [1 .. m -> 1 .. n],
         NEW reducedMotion, NEW at, at = Painted(body, order, reducedMotion)
  PROVE  /\ \A i \in DOMAIN body, c \in Spots : HourSays(body, i, c)
         /\ thinFrames(body) # {} => hasHistory(body)
         /\ \A k \in DOMAIN order : \A c \in at[k][1].arrived \cup at[k][1].settling :
              k > 1 /\ FadesIn(at[k - 1], at[k][1], body, order[k], reducedMotion, c)
<1>1. DOMAIN body = 1 .. n /\ DOMAIN order = 1 .. m
  BY DEF Frames
<1>2. \A i \in DOMAIN body, c \in Spots : HourSays(body, i, c)
  BY <1>1, HoursHold
<1>3. ASSUME NEW k \in 1 .. m, NEW c \in at[k][1].arrived \cup at[k][1].settling
      PROVE  k > 1 /\ FadesIn(at[k - 1], at[k][1], body, order[k], reducedMotion, c)
  <2>1. at[0] = <<>> /\ at[k] = markArrivals(at[k - 1], body, order[k], reducedMotion)
    <3>1. PaintedInTurn(at, body, order, m, reducedMotion)
      BY ONLY Frames(body, n), m \in Nat, order \in [1 .. m -> 1 .. n],
              at = Painted(body, order, reducedMotion), PaintingsFollow
    <3> QED  BY <3>1 DEF PaintedInTurn
  <2>2. order[k] \in 1 .. n
    OBVIOUS
  <2>3. PICK before, r, i : before = at[k - 1] /\ r = at[k][1] /\ i = order[k]
    OBVIOUS
  <2>4. r = markArrivals(before, body, i, reducedMotion)[1] /\ c \in r.arrived \cup r.settling /\ i \in 1 .. n
    BY <1>3, <2>1, <2>2, <2>3
  <2>5. FadesIn(before, r, body, i, reducedMotion, c)
    BY <2>4, ArrivalsSay
  <2>6. before # <<>>
    BY <2>5 DEF FadesIn
  <2>7. k # 1
    BY <2>1, <2>3, <2>6
  <2> QED  BY <2>3, <2>5, <2>7
<1> QED  BY <1>1, <1>2, <1>3, ThinHasHistory

-----------------------------------------------------------------------------
(***************************************************************************)
(* The ramp.  The bands of a table stand end to end, and over each half of *)
(* a band the colour is a straight line, or flat at the two ends; the      *)
(* stops are the ends of the halves, so between two of them it is the line *)
(* through theirs.                                                         *)
(***************************************************************************)
Banded(spans, n) ==
  /\ n \in Nat /\ n >= 1 /\ DOMAIN spans = 1 .. n /\ Len(spans) = n
  /\ \A i \in 1 .. n : /\ spans[i].lower \in Int /\ spans[i].upper \in Int
                       /\ spans[i].lower < spans[i].upper
                       /\ (spans[i].lower + spans[i].upper) % 2 = 0
  /\ \A i \in 1 .. n : i > 1 => spans[i].lower = spans[i - 1].upper
  /\ \A i, j \in 1 .. n : i < j => spans[i].upper < spans[j].upper

\* What a table holds.
LEMMA TableIs ==
  ASSUME NEW uppers \in Tables, NEW n, n = Len(uppers)
  PROVE  /\ n \in Nat \ {0} /\ DOMAIN uppers = 1 .. n
         /\ \A i \in 1 .. n : uppers[i] # Absent => uppers[i] \in Int /\ uppers[i] % 2 = 0
         /\ \A i \in 1 .. n : i # n => uppers[i] # Absent
         /\ \A i, j \in 1 .. n : i < j /\ uppers[j] # Absent => uppers[i] < uppers[j]
         /\ n = 1 /\ uppers[1] # Absent => uppers[1] > 0
<1>1. BandTable(uppers) /\ Absent \notin Int
  BY CellsAssumption
<1>2. n \in Nat \ {0} /\ DOMAIN uppers = 1 .. n
  BY <1>1 DEF BandTable
<1>3. \A i \in 1 .. n : \/ (uppers[i] \in Int /\ uppers[i] % 2 = 0)
                        \/ (uppers[i] = Absent /\ i = n)
  BY <1>1, <1>2 DEF BandTable
<1>4. \A i, j \in 1 .. n : i < j /\ uppers[j] # Absent => uppers[i] < uppers[j]
  BY <1>1, <1>2 DEF BandTable
<1>5. n = 1 /\ uppers[1] # Absent => uppers[1] > 0
  BY <1>1 DEF BandTable
<1> QED  BY <1>1, <1>2, <1>3, <1>4, <1>5

LEMMA SpansBanded ==
  ASSUME NEW bands, bands.uppers \in Tables, bands.ceiling \in Ceilings \cup {Absent}
  PROVE  Banded(rampSpans(bands), Len(bands.uppers))
<1>1. PICK uppers, n, ceiling, spans : uppers = bands.uppers /\ n = Len(uppers) /\ ceiling = bands.ceiling
                                       /\ spans = rampSpans(bands)
  OBVIOUS
<1>2. BandTable(uppers) /\ (ceiling = Absent \/ (ceiling \in Int /\ ceiling > 0 /\ ceiling % 2 = 0))
  BY <1>1, CellsAssumption
<1>3. n \in Nat \ {0} /\ DOMAIN uppers = 1 .. n
  BY <1>1, <1>2 DEF BandTable
<1>4. /\ \A i \in 1 .. n : uppers[i] # Absent => uppers[i] \in Int /\ uppers[i] % 2 = 0
      /\ \A i \in 1 .. n : i # n => uppers[i] # Absent
      /\ \A i, j \in 1 .. n : i < j /\ uppers[j] # Absent => uppers[i] < uppers[j]
      /\ n = 1 /\ uppers[1] # Absent => uppers[1] > 0
  BY <1>1, <1>3, TableIs
<1>5. CASE n = 1
  <2>1. PICK top : top = IF uppers[1] # Absent THEN uppers[1] ELSE IF ceiling # Absent THEN ceiling ELSE 2
    OBVIOUS
  <2>2. top \in Int /\ top > 0 /\ top % 2 = 0
    BY <1>2, <1>4, <1>5, <2>1
  <2>3. spans = <<[lower |-> 0, upper |-> top]>>
    BY <1>1, <1>5, <2>1 DEF rampSpans
  <2>4. DOMAIN spans = 1 .. 1 /\ Len(spans) = 1 /\ spans[1].lower = 0 /\ spans[1].upper = top
    BY <2>3
  <2>5. Banded(spans, 1)
    BY <2>2, <2>4 DEF Banded
  <2> QED  BY <1>1, <1>5, <2>5
<1>6. CASE n >= 2
  <2>1. PICK below : below = uppers[n - 1]
    OBVIOUS
  <2>2. n - 1 \in 1 .. n /\ n - 1 # n /\ n \in 1 .. n /\ 1 \in 1 .. n /\ 2 \in 1 .. n
    BY <1>3, <1>6
  <2>3. below \in Int /\ below % 2 = 0
    BY <1>4, <2>1, <2>2
  <2>4. PICK borrowed : borrowed = below + (IF n >= 3 THEN below - uppers[n - 2]
                                            ELSE IF below = 0 THEN 2 ELSE IF below < 0 THEN -below ELSE below)
    OBVIOUS
  <2>5. borrowed \in Int /\ borrowed > below /\ borrowed % 2 = 0
    <3>1. CASE n >= 3
      <4>1. n - 2 \in 1 .. n /\ n - 2 # n /\ n - 2 < n - 1
        BY <1>3, <3>1
      <4>2. uppers[n - 2] \in Int /\ uppers[n - 2] % 2 = 0 /\ uppers[n - 2] < below
        BY <1>4, <2>1, <2>2, <4>1
      <4> QED  BY <2>3, <2>4, <3>1, <4>2
    <3>2. CASE ~(n >= 3)
      BY <2>3, <2>4, <3>2
    <3> QED  BY <3>1, <3>2
  <2>6. PICK top : top = IF uppers[n] # Absent THEN uppers[n]
                         ELSE IF ceiling # Absent /\ ceiling > below THEN ceiling ELSE borrowed
    OBVIOUS
  <2>7. top \in Int /\ top > below /\ top % 2 = 0
    <3>1. CASE uppers[n] # Absent
      <4>1. n - 1 < n
        BY <1>3
      <4>2. uppers[n] \in Int /\ uppers[n] % 2 = 0 /\ uppers[n - 1] < uppers[n]
        BY <1>4, <2>2, <3>1, <4>1
      <4> QED  BY <2>1, <2>3, <2>6, <3>1, <4>2
    <3>2. CASE uppers[n] = Absent
      BY <1>2, <2>3, <2>5, <2>6, <3>2
    <3> QED  BY <3>1, <3>2
  <2> DEFINE Upper(i) == IF i = n THEN top ELSE uppers[i]
  <2>8. spans = [i \in 1 .. n |-> [lower |-> IF i = 1 THEN 2 * uppers[1] - Upper(2) ELSE uppers[i - 1],
                                   upper |-> Upper(i)]]
    BY <1>1, <1>6, <2>1, <2>4, <2>6 DEF rampSpans
  <2>9. \A i \in 1 .. n : Upper(i) \in Int /\ Upper(i) % 2 = 0
    BY <1>4, <2>7
  <2>10. \A i, j \in 1 .. n : i < j => Upper(i) < Upper(j)
    <3> SUFFICES ASSUME NEW i \in 1 .. n, NEW j \in 1 .. n, i < j PROVE Upper(i) < Upper(j)
      OBVIOUS
    <3>1. i # n /\ Upper(i) = uppers[i] /\ uppers[i] \in Int
      BY <1>3, <1>4
    <3>2. CASE j # n
      BY <1>4, <3>1, <3>2
    <3>3. CASE j = n
      <4>1. i = n - 1 \/ i < n - 1
        BY <1>3, <3>3
      <4>2. i < n - 1 => uppers[i] < uppers[n - 1]
        BY <1>4, <2>2
      <4> QED  BY <2>1, <2>3, <2>7, <3>1, <3>3, <4>1, <4>2
    <3> QED  BY <3>2, <3>3
  <2>11. \A i \in 1 .. n : i > 1 => i - 1 \in 1 .. n /\ Upper(i - 1) = uppers[i - 1]
    BY <1>3
  <2>12. uppers[1] = Upper(1) /\ Upper(1) < Upper(2)
    BY <1>6, <2>2, <2>10
  <2> HIDE DEF Upper
  <2>13. \A i \in 1 .. n : /\ spans[i].upper = Upper(i)
                           /\ i = 1 => spans[i].lower = 2 * Upper(1) - Upper(2)
                           /\ i > 1 => spans[i].lower = Upper(i - 1) /\ i - 1 \in 1 .. n
    BY <2>8, <2>11, <2>12
  <2>14. ASSUME NEW i \in 1 .. n
         PROVE  /\ spans[i].lower \in Int /\ spans[i].upper \in Int
                /\ spans[i].lower < spans[i].upper
                /\ (spans[i].lower + spans[i].upper) % 2 = 0
                /\ i > 1 => spans[i].lower = spans[i - 1].upper
    <3>1. CASE i = 1
      BY <2>2, <2>9, <2>12, <2>13, <3>1
    <3>2. CASE i > 1
      <4>1. Upper(i - 1) < Upper(i)
        BY <2>10, <2>13, <3>2
      <4> QED  BY <2>9, <2>13, <3>2, <4>1
    <3> QED  BY <3>1, <3>2
  <2>15. \A i, j \in 1 .. n : i < j => spans[i].upper < spans[j].upper
    BY <2>10, <2>13
  <2>16. DOMAIN spans = 1 .. n /\ Len(spans) = n
    <3>1. DOMAIN spans = 1 .. n
      BY <2>8
    <3>2. PICK S : S = {spans[i] : i \in 1 .. n}
      OBVIOUS
    <3>4. spans = [i \in 1 .. n |-> spans[i]]
      BY <2>8
    <3>5. spans \in [1 .. n -> S]
      BY <3>2, <3>4
    <3>3. spans \in Seq(S)
      BY ONLY <1>3, <3>5
    <3> QED  BY ONLY <1>3, <3>1, <3>3
  <2>17. Banded(spans, n)
    BY <1>3, <2>14, <2>15, <2>16 DEF Banded
  <2> QED  BY <1>1, <2>17
<1> QED  BY <1>3, <1>5, <1>6

\* Where a value of a band is placed: in it, or at the end of the band before.
LEMMA BandIs ==
  ASSUME NEW spans, NEW n, Banded(spans, n), NEW b \in 1 .. n, NEW v \in Int,
         spans[b].lower <= v, v <= spans[b].upper
  PROVE  IF b > 1 /\ v = spans[b].lower THEN BandOf(v, spans) = b - 1 ELSE BandOf(v, spans) = b
<1> DEFINE Fits1(k) == /\ k = n \/ v <= spans[k].upper
                       /\ \A j \in 1 .. k - 1 : v > spans[j].upper
<1>1. n \in Nat /\ DOMAIN spans = 1 .. n /\ Len(spans) = n
  BY DEF Banded
<1>2. BandOf(v, spans) = CHOOSE k \in 1 .. n : Fits1(k)
  BY <1>1 DEF BandOf
<1>3. /\ \A i \in 1 .. n : spans[i].lower \in Int /\ spans[i].upper \in Int
      /\ \A i \in 1 .. n : i > 1 => spans[i].lower = spans[i - 1].upper
      /\ \A i, j \in 1 .. n : i < j => spans[i].upper < spans[j].upper
  BY DEF Banded
<1>4. ASSUME NEW k \in 1 .. n, NEW l \in 1 .. n, Fits1(k), Fits1(l) PROVE k = l
  <2>1. ASSUME NEW x \in 1 .. n, NEW y \in 1 .. n, Fits1(x), Fits1(y), x < y PROVE FALSE
    <3>1. x \in 1 .. y - 1 /\ x # n
      BY <1>1, <2>1
    <3>2. v > spans[x].upper /\ v <= spans[x].upper
      BY <2>1, <3>1
    <3> QED  BY <1>3, <3>2
  <2>2. k < l \/ k = l \/ l < k
    BY <1>1
  <2> QED  BY <1>4, <2>1, <2>2
<1>5. CASE b > 1 /\ v = spans[b].lower
  <2>1. b - 1 \in 1 .. n /\ v = spans[b - 1].upper
    BY <1>1, <1>3, <1>5
  <2>2. ASSUME NEW j \in 1 .. (b - 1) - 1 PROVE v > spans[j].upper
    <3>1. j \in 1 .. n /\ j < b - 1
      BY <1>1
    <3> QED  BY <1>3, <2>1, <3>1
  <2>3. Fits1(b - 1)
    <3>1. v <= spans[b - 1].upper
      BY <2>1
    <3> QED  BY <2>2, <3>1
  <2> HIDE DEF Fits1
  <2> QED  BY <1>2, <1>4, <1>5, <2>1, <2>3
<1>6. CASE ~(b > 1 /\ v = spans[b].lower)
  <2>1. ASSUME NEW j \in 1 .. b - 1 PROVE v > spans[j].upper
    <3>1. j \in 1 .. n /\ b > 1 /\ b - 1 \in 1 .. n /\ (j = b - 1 \/ j < b - 1)
      BY <1>1
    <3>2. v > spans[b - 1].upper
      BY <1>3, <1>6, <3>1
    <3> QED  BY <1>3, <3>1, <3>2
  <2>2. Fits1(b)
    BY <2>1
  <2> HIDE DEF Fits1
  <2> QED  BY <1>2, <1>4, <1>6, <2>2
<1> QED  BY <1>5, <1>6

\* A half of a band.
InHalf(span, half, v) ==
  IF half = 0 THEN span.lower <= v /\ 2 * v <= span.lower + span.upper
  ELSE span.lower + span.upper <= 2 * v /\ v <= span.upper
\* The colour c lies on the line that starts at alpha, over D, and climbs by beta.
OnLine(c, x, alpha, beta, D) ==
  c[1] \in Int /\ c[2] \in Int /\ c[2] > 0 /\ c[1] * D = (alpha + beta * x) * c[2]

LEMMA StepsOf == ASSUME NEW k \in Int, NEW m \in Int, NEW w \in Int, k <= m, w > 0
               PROVE  k * w \in Int /\ m * w \in Int /\ k * w <= m * w /\ (k < m => k * w + w <= m * w)
<1>1. PICK d \in Nat : m = k + d
  <2>1. m - k \in Nat /\ m = k + (m - k)
    OBVIOUS
  <2> QED  BY <2>1
<1>2. m * w = k * w + d * w
  BY <1>1
<1>3. d * w \in Int /\ d * w >= 0
  OBVIOUS
<1>4. d >= 1 => d * w >= w
  OBVIOUS
<1>5. k * w \in Int
  OBVIOUS
<1>6. k < m => d >= 1
  BY <1>1
<1> QED  BY <1>2, <1>3, <1>4, <1>5, <1>6

\* Over a half of a band the colour is a line.
LineOver(spans, n, b, half, alpha, beta, D) ==
  D > 0 /\ \A v \in Int : InHalf(spans[b], half, v) =>
             OnLine(Mixed(Placed(v, spans), n), v - spans[b].lower, alpha, beta, D)
LEMMA HalfIsLine ==
  ASSUME NEW spans, NEW n, Banded(spans, n), NEW b \in 1 .. n, NEW half \in {0, 1}
  PROVE  \E alpha, beta, D \in Int : LineOver(spans, n, b, half, alpha, beta, D)
<1>1. PICK L, U \in Int : L = spans[b].lower /\ U = spans[b].upper /\ L < U
  BY DEF Banded
<1>2. PICK w \in Int : w = U - L /\ w > 0
  BY <1>1
<1>3. n \in Nat /\ n >= 1 /\ b \in Int /\ b >= 1 /\ b <= n
  BY DEF Banded
<1>4. PICK B, N \in Int : B = (b - 1) * w /\ N = (n - 1) * w
  BY <1>2, <1>3
<1>5. /\ b = 1 => B = 0
      /\ b > 1 => B >= w
      /\ b = n => B = N
      /\ b < n => B + w <= N
      /\ B <= N /\ 0 <= B
  <2>1. 0 \in Int /\ b - 1 \in Int /\ n - 1 \in Int /\ 0 <= b - 1 /\ b - 1 <= n - 1 /\ w \in Int /\ w > 0
    BY <1>2, <1>3
  <2>2. 0 * w <= B /\ (0 < b - 1 => 0 * w + w <= B)
    BY ONLY <1>4, <2>1, StepsOf
  <2>3. B <= N /\ (b - 1 < n - 1 => B + w <= N)
    BY ONLY <1>4, <2>1, StepsOf
  <2>4. 0 * w = 0
    BY <2>1
  <2> QED  BY <1>3, <1>4, <2>2, <2>3, <2>4
<1>6. ASSUME NEW v \in Int, L <= v, v <= U
      PROVE  \/ Placed(v, spans) = <<B + (v - L), w>>
             \/ /\ b > 1 /\ v = L
                /\ \E q \in Int : q > 0 /\ Placed(v, spans) = <<(b - 1) * q, q>>
  <2>1. CASE ~(b > 1 /\ v = L)
    <3>1. BandOf(v, spans) = b
      BY <1>1, <1>6, <2>1, BandIs
    <3>2. Placed(v, spans) = Within(v, spans[b], b)
      BY <3>1 DEF Placed
    <3>3. Within(v, spans[b], b) = <<(b - 1) * w + (v - L), w>>
      <4>1. U - L # 0 /\ ~(v < L) /\ ~(v > U)
        BY <1>1, <1>6
      <4> QED  BY <1>1, <1>2, <4>1 DEF Within
    <3> QED  BY <1>4, <3>2, <3>3
  <2>2. CASE b > 1 /\ v = L
    <3>1. BandOf(v, spans) = b - 1 /\ b - 1 \in 1 .. n
      <4>1. BandOf(v, spans) = b - 1
        BY <1>1, <1>6, <2>2, BandIs
      <4> QED  BY <1>3, <2>2, <4>1
    <3>2. Placed(v, spans) = Within(v, spans[b - 1], b - 1)
      BY <3>1 DEF Placed
    <3>3. PICK l, u \in Int : l = spans[b - 1].lower /\ u = spans[b - 1].upper /\ l < u /\ v = u
      BY <1>1, <2>2, <3>1 DEF Banded
    <3>4. PICK q \in Int : q = u - l /\ q > 0
      BY <3>3
    <3>5. Within(v, spans[b - 1], b - 1) = <<((b - 1) - 1) * q + q, q>>
      <4>1. u - l # 0 /\ ~(v < l) /\ ~(v > u) /\ v - l = q
        BY <3>3, <3>4
      <4> QED  BY <3>3, <3>4, <4>1 DEF Within
    <3>6. ((b - 1) - 1) * q + q = (b - 1) * q
      BY <1>3, <3>4
    <3> QED  BY <2>2, <3>2, <3>4, <3>5, <3>6
  <2> QED  BY <2>1, <2>2
<1> DEFINE Bent(p, q) == LET twice == 2 * p - q
                             last == 2 * (n - 1) * q
                         IN <<IF twice < 0 THEN 0 ELSE IF twice > last THEN last ELSE twice, 2 * q>>
<1>7. \A p, q : Mixed(<<p, q>>, n) = Bent(p, q)
  BY DEF Mixed
<1>8. 2 * (n - 1) * w = 2 * N
  BY <1>2, <1>3, <1>4
<1>9. \A v \in Int : InHalf(spans[b], half, v) <=> IF half = 0 THEN L <= v /\ 2 * v <= L + U ELSE L + U <= 2 * v /\ v <= U
  BY <1>1 DEF InHalf
\* The straight halves.
<1>10. ASSUME (half = 0 /\ b > 1) \/ (half = 1 /\ b < n), NEW v \in Int, InHalf(spans[b], half, v)
       PROVE  OnLine(Mixed(Placed(v, spans), n), v - L, 2 * B - w, 2, 2 * w)
  <2>1. L <= v /\ v <= U
    BY <1>1, <1>9, <1>10
  <2>2. PICK x \in Int : x = v - L /\ 0 <= x /\ x <= w /\ (half = 0 => 2 * x <= w) /\ (half = 1 => 2 * x >= w)
    BY <1>1, <1>2, <1>9, <1>10, <2>1
  <2>3. CASE Placed(v, spans) = <<B + (v - L), w>>
    <3>1. PICK t \in Int : t = 2 * (B + x) - w /\ ~(t < 0) /\ ~(t > 2 * N)
      <4>1. CASE half = 0 /\ b > 1
        BY <1>2, <1>5, <2>2, <4>1
      <4>2. CASE half = 1 /\ b < n
        BY <1>2, <1>5, <2>2, <4>2
      <4> QED  BY <1>10, <4>1, <4>2
    <3>2. Mixed(Placed(v, spans), n) = <<t, 2 * w>>
      BY <1>7, <1>8, <2>2, <2>3, <3>1
    <3>3. t * (2 * w) = ((2 * B - w) + 2 * x) * (2 * w)
      <4>1. t = (2 * B - w) + 2 * x
        BY <2>2, <3>1
      <4> QED  BY <4>1
    <3>4. 2 * w \in Int /\ 2 * w > 0
      BY <1>2
    <3> QED  BY <2>2, <3>2, <3>3, <3>4 DEF OnLine
  <2>4. CASE b > 1 /\ v = L /\ \E q \in Int : q > 0 /\ Placed(v, spans) = <<(b - 1) * q, q>>
    <3>1. PICK q \in Int : q > 0 /\ Placed(v, spans) = <<(b - 1) * q, q>>
      BY <2>4
    <3>2. PICK M, K \in Int : M = (b - 1) * q /\ K = (n - 1) * q
      BY <1>3
    <3>3. M >= q /\ M <= K
      <4>1. 0 \in Int /\ b - 1 \in Int /\ n - 1 \in Int /\ 0 < b - 1 /\ 0 <= b - 1 /\ b - 1 <= n - 1
        BY <1>3, <2>4
      <4>2. 0 * q + q <= M
        BY ONLY <3>1, <3>2, <4>1, StepsOf
      <4>3. M <= K
        BY ONLY <3>1, <3>2, <4>1, StepsOf
      <4> QED  BY <4>2, <4>3
    <3>4. 2 * (n - 1) * q = 2 * K
      BY <1>3, <3>2
    <3>5. PICK t \in Int : t = 2 * M - q /\ ~(t < 0) /\ ~(t > 2 * K)
      <4>1. q > 0
        BY <3>1
      <4>2. 2 * M - q \in Int /\ ~(2 * M - q < 0) /\ ~(2 * M - q > 2 * K)
        BY ONLY <3>3, <4>1, M \in Int, K \in Int, q \in Int
      <4> QED  BY ONLY <4>2
    <3>6. Mixed(Placed(v, spans), n) = <<t, 2 * q>>
      BY <1>7, <3>1, <3>2, <3>4, <3>5
    <3>7. v - L = 0
      BY <2>4
    <3>8. t * (2 * w) = ((2 * B - w) + 2 * 0) * (2 * q)
      <4>1. PICK d \in Int : d = b - 1
        BY <1>3
      <4>2. t = 2 * (d * q) - q /\ B = d * w
        BY <1>4, <3>2, <3>5, <4>1
      <4>3. (2 * (d * q) - q) * (2 * w) = ((2 * (d * w) - w) + 2 * 0) * (2 * q)
        BY ONLY d \in Int, q \in Int, w \in Int
      <4> QED  BY <4>2, <4>3
    <3>9. 2 * q \in Int /\ 2 * q > 0
      BY <3>1
    <3> QED  BY <3>6, <3>7, <3>8, <3>9 DEF OnLine
  <2> QED  BY <1>6, <2>1, <2>3, <2>4
\* The flat ends.
<1>11. ASSUME half = 0, b = 1, NEW v \in Int, InHalf(spans[b], half, v)
       PROVE  OnLine(Mixed(Placed(v, spans), n), v - L, 0, 0, 2 * w)
  <2>1. L <= v /\ v <= U /\ 2 * v <= L + U
    BY <1>1, <1>9, <1>11
  <2>2. Placed(v, spans) = <<B + (v - L), w>>
    BY <1>6, <1>11, <2>1
  <2>3. PICK t \in Int : t = 2 * (B + (v - L)) - w /\ t <= 0 /\ 0 <= 2 * N
    BY <1>2, <1>5, <1>11, <2>1
  <2>4. Mixed(Placed(v, spans), n) = <<0, 2 * w>>
    <3>1. Mixed(Placed(v, spans), n) = Bent(B + (v - L), w)
      BY <1>7, <2>2
    <3>2. t < 0 \/ t = 0
      BY <2>3
    <3> QED  BY <1>8, <2>3, <3>1, <3>2
  <2>5. 0 * (2 * w) = (0 + 0 * (v - L)) * (2 * w) /\ 2 * w \in Int /\ 2 * w > 0
    BY <1>2
  <2> QED  BY <2>4, <2>5 DEF OnLine
<1>12. ASSUME half = 1, b = n, NEW v \in Int, InHalf(spans[b], half, v)
       PROVE  OnLine(Mixed(Placed(v, spans), n), v - L, 2 * N, 0, 2 * w)
  <2>1. L <= v /\ v <= U /\ L + U <= 2 * v /\ v # L
    BY <1>1, <1>9, <1>12
  <2>2. Placed(v, spans) = <<B + (v - L), w>>
    BY <1>6, <2>1
  <2>3. PICK t \in Int : t = 2 * (B + (v - L)) - w /\ t >= 2 * N /\ 0 <= 2 * N
    BY <1>2, <1>5, <1>12, <2>1
  <2>4. Mixed(Placed(v, spans), n) = <<2 * N, 2 * w>>
    <3>1. Mixed(Placed(v, spans), n) = Bent(B + (v - L), w)
      BY <1>7, <2>2
    <3>2. ~(t < 0) /\ (t > 2 * N \/ t = 2 * N)
      BY <2>3
    <3> QED  BY <1>8, <2>3, <3>1, <3>2
  <2>5. (2 * N) * (2 * w) = (2 * N + 0 * (v - L)) * (2 * w) /\ 2 * w \in Int /\ 2 * w > 0 /\ 2 * N \in Int
    BY <1>2
  <2> QED  BY <2>4, <2>5 DEF OnLine
<1>13. 2 * w \in Int /\ 2 * w > 0 /\ 2 * B - w \in Int /\ 2 * N \in Int
  BY <1>2
<1>14. CASE (half = 0 /\ b > 1) \/ (half = 1 /\ b < n)
  <2>1. LineOver(spans, n, b, half, 2 * B - w, 2, 2 * w)
    BY <1>1, <1>10, <1>13, <1>14 DEF LineOver
  <2> QED  BY <1>13, <2>1
<1>15. CASE half = 0 /\ b = 1
  <2>1. LineOver(spans, n, b, half, 0, 0, 2 * w)
    BY <1>1, <1>11, <1>13, <1>15 DEF LineOver
  <2> QED  BY <1>13, <2>1
<1>16. CASE half = 1 /\ b = n
  <2>1. LineOver(spans, n, b, half, 2 * N, 0, 2 * w)
    BY <1>1, <1>12, <1>13, <1>16 DEF LineOver
  <2> QED  BY <1>13, <2>1
<1>17. b > 1 \/ b = 1
  BY <1>3
<1>18. b < n \/ b = n
  BY <1>3
<1> QED  BY <1>14, <1>15, <1>16, <1>17, <1>18

\* Three points of one line.
AtPoint(c1, c2, x, alpha, beta, D) == c1 * D = (alpha + beta * x) * c2
InLine(v1, v2, a1, a2, b1, b2, x, y, z) ==
  (v1 * a2 - a1 * v2) * (z - y) * b2 = (b1 * a2 - a1 * b2) * (x - y) * v2
LEMMA LineBetween ==
  ASSUME NEW alpha \in Int, NEW beta \in Int, NEW D \in Int, D > 0,
         NEW x \in Int, NEW y \in Int, NEW z \in Int,
         NEW v1 \in Int, NEW v2 \in Int, AtPoint(v1, v2, x, alpha, beta, D),
         NEW a1 \in Int, NEW a2 \in Int, AtPoint(a1, a2, y, alpha, beta, D),
         NEW b1 \in Int, NEW b2 \in Int, AtPoint(b1, b2, z, alpha, beta, D)
  PROVE  InLine(v1, v2, a1, a2, b1, b2, x, y, z)
<1> USE DEF AtPoint, InLine
<1>1. (v1 * a2 - a1 * v2) * D = beta * (x - y) * v2 * a2
  <2>1. (v1 * a2 - a1 * v2) * D = (v1 * D) * a2 - (a1 * D) * v2
    BY ONLY v1 \in Int, a2 \in Int, a1 \in Int, v2 \in Int, D \in Int
  <2>2. ((alpha + beta * x) * v2) * a2 - ((alpha + beta * y) * a2) * v2 = beta * (x - y) * v2 * a2
    BY ONLY alpha \in Int, beta \in Int, x \in Int, y \in Int, a2 \in Int, v2 \in Int
  <2> QED  BY <2>1, <2>2
<1>2. (b1 * a2 - a1 * b2) * D = beta * (z - y) * b2 * a2
  <2>1. (b1 * a2 - a1 * b2) * D = (b1 * D) * a2 - (a1 * D) * b2
    BY ONLY b1 \in Int, a2 \in Int, a1 \in Int, b2 \in Int, D \in Int
  <2>2. ((alpha + beta * z) * b2) * a2 - ((alpha + beta * y) * a2) * b2 = beta * (z - y) * b2 * a2
    BY ONLY alpha \in Int, beta \in Int, z \in Int, y \in Int, a2 \in Int, b2 \in Int
  <2> QED  BY <2>1, <2>2
<1>3. PICK p, q \in Int : p = v1 * a2 - a1 * v2 /\ q = b1 * a2 - a1 * b2
  OBVIOUS
<1>4. PICK f, g \in Int : f = p * (z - y) * b2 /\ g = q * (x - y) * v2
  OBVIOUS
<1>5. f * D = g * D
  <2>1. f * D = (p * D) * (z - y) * b2
    BY ONLY <1>4, p \in Int, D \in Int, z \in Int, y \in Int, b2 \in Int
  <2>2. g * D = (q * D) * (x - y) * v2
    BY ONLY <1>4, q \in Int, D \in Int, x \in Int, y \in Int, v2 \in Int
  <2>3. (beta * (x - y) * v2 * a2) * (z - y) * b2 = (beta * (z - y) * b2 * a2) * (x - y) * v2
    BY ONLY beta \in Int, x \in Int, y \in Int, z \in Int, v2 \in Int, a2 \in Int, b2 \in Int
  <2>4. p * D = beta * (x - y) * v2 * a2 /\ q * D = beta * (z - y) * b2 * a2
    BY ONLY <1>1, <1>2, <1>3
  <2> QED  BY ONLY <2>1, <2>2, <2>3, <2>4
<1>6. f = g
  BY ONLY <1>5, f \in Int, g \in Int, D \in Int, D > 0
<1> QED  BY ONLY <1>3, <1>4, <1>6

\* Two stops that follow one another are the ends of a half.
StopsAt(stops, spans, n) ==
  /\ Len(stops) = 2 * n + 1
  /\ \A b \in 1 .. n : /\ stops[2 * b - 1] = spans[b].lower /\ stops[2 * b + 1] = spans[b].upper
                       /\ 2 * stops[2 * b] = spans[b].lower + spans[b].upper /\ stops[2 * b] \in Int
LEMMA StopsAreEnds ==
  ASSUME NEW bands, NEW spans, spans = rampSpans(bands), NEW n, Banded(spans, n)
  PROVE  StopsAt(rampValueStops(bands), spans, n)
<1>1. n \in Nat /\ n >= 1 /\ Len(spans) = n /\ \A i \in 1 .. n : spans[i].lower \in Int /\ spans[i].upper \in Int
  BY DEF Banded
<1>2. PICK f : f = [k \in 1 .. 2 * n |->
                      LET s == spans[(k + 1) \div 2]
                      IN IF k % 2 = 1 THEN (s.lower + s.upper) \div 2 ELSE s.upper]
  OBVIOUS
<1>3. PICK x \in Int : x = spans[1].lower
  BY <1>1
<1>4. rampValueStops(bands) = <<x>> \o f
  BY <1>1, <1>2, <1>3 DEF rampValueStops
<1>5. \A b \in 1 .. n : /\ 2 * b - 1 \in 1 .. 2 * n /\ 2 * b \in 1 .. 2 * n
                        /\ f[2 * b - 1] = (spans[b].lower + spans[b].upper) \div 2
                        /\ f[2 * b] = spans[b].upper
  <2> SUFFICES ASSUME NEW b \in 1 .. n
               PROVE  /\ 2 * b - 1 \in 1 .. 2 * n /\ 2 * b \in 1 .. 2 * n
                      /\ f[2 * b - 1] = (spans[b].lower + spans[b].upper) \div 2
                      /\ f[2 * b] = spans[b].upper
    OBVIOUS
  <2>1. b \in Int /\ 2 * b - 1 \in 1 .. 2 * n /\ 2 * b \in 1 .. 2 * n
    BY <1>1
  <2>2. (2 * b - 1) % 2 = 1 /\ ((2 * b - 1) + 1) \div 2 = b /\ (2 * b) % 2 = 0 /\ (2 * b + 1) \div 2 = b
    BY ONLY <2>1
  <2> QED  BY <1>2, <2>1, <2>2
<1>6. f \in [1 .. 2 * n -> Int]
  <2> SUFFICES ASSUME NEW k \in 1 .. 2 * n
               PROVE  (IF k % 2 = 1 THEN (spans[(k + 1) \div 2].lower + spans[(k + 1) \div 2].upper) \div 2
                       ELSE spans[(k + 1) \div 2].upper) \in Int
    BY <1>2
  <2>1. PICK b : b = (k + 1) \div 2
    OBVIOUS
  <2>2. b \in 1 .. n
    BY <1>1, <2>1
  <2>3. spans[b].lower \in Int /\ spans[b].upper \in Int
    BY <1>1, <2>2
  <2> QED  BY <2>1, <2>3
<1>7. PICK m \in Nat : m = 2 * n
  BY <1>1
<1>8. f \in Seq(Int) /\ Len(f) = m
  <2>1. f \in [1 .. m -> Int] /\ DOMAIN f = 1 .. m
    BY <1>6, <1>7
  <2>2. f \in Seq(Int)
    BY ONLY m \in Nat, <2>1
  <2> QED  BY ONLY m \in Nat, <2>1, <2>2
<1>9. PICK stops : stops = <<x>> \o f
  OBVIOUS
<1>10. Len(stops) = m + 1 /\ stops[1] = x /\ \A k \in 1 .. m : stops[k + 1] = f[k]
  BY ONLY <1>8, <1>9, x \in Int, m \in Nat
<1>11. ASSUME NEW b \in 1 .. n
       PROVE  /\ stops[2 * b - 1] = spans[b].lower /\ stops[2 * b + 1] = spans[b].upper
              /\ 2 * stops[2 * b] = spans[b].lower + spans[b].upper /\ stops[2 * b] \in Int
  <2>1. stops[2 * b + 1] = spans[b].upper
    BY <1>5, <1>7, <1>10
  <2>2. stops[2 * b] = (spans[b].lower + spans[b].upper) \div 2
    <3>1. 2 * b = (2 * b - 1) + 1 /\ 2 * b - 1 \in 1 .. m
      BY <1>5, <1>7
    <3> QED  BY <1>5, <1>10, <3>1
  <2>3. PICK L, U \in Int : L = spans[b].lower /\ U = spans[b].upper /\ (L + U) % 2 = 0
    BY DEF Banded
  <2>4. 2 * ((L + U) \div 2) = L + U /\ (L + U) \div 2 \in Int
    BY <2>3
  <2>5. stops[2 * b - 1] = spans[b].lower
    <3>1. CASE b = 1
      BY <1>3, <1>10, <3>1
    <3>2. CASE b > 1
      <4>1. PICK c : c = b - 1
        OBVIOUS
      <4>2. c \in 1 .. n /\ 2 * b - 1 = 2 * c + 1 /\ 2 * c \in 1 .. m
        BY <1>1, <1>7, <3>2, <4>1
      <4>3. stops[2 * b - 1] = spans[c].upper
        BY <1>5, <1>10, <4>2
      <4> QED  BY <3>2, <4>1, <4>3 DEF Banded
    <3> QED  BY <1>1, <3>1, <3>2
  <2> QED  BY <2>1, <2>2, <2>3, <2>4, <2>5
<1>12. Len(stops) = 2 * n + 1
  BY <1>7, <1>10
<1> QED  BY <1>4, <1>9, <1>11, <1>12 DEF StopsAt

\* The straight line between two stops, at v.
Between1(v, cv, a, ca, b, cb) ==
  (cv[1] * ca[2] - ca[1] * cv[2]) * (b - a) * cb[2] = (cb[1] * ca[2] - ca[1] * cb[2]) * (v - a) * cv[2]

LEMMA MarkersMatch ==
  ASSUME NEW bands, bands.uppers \in Tables, bands.ceiling \in Ceilings \cup {Absent}, NEW v \in Int,
         NEW stops, stops = rampValueStops(bands), NEW i \in 1 .. Len(stops) - 1,
         stops[i] <= v, v <= stops[i + 1]
  PROVE  Between1(v, rampColour(v, bands), stops[i], rampColour(stops[i], bands),
                  stops[i + 1], rampColour(stops[i + 1], bands))
<1>1. PICK spans, n : spans = rampSpans(bands) /\ n = Len(bands.uppers)
  OBVIOUS
<1>2. Banded(spans, n)
  BY <1>1, SpansBanded
<1>3. StopsAt(stops, spans, n)
  BY <1>1, <1>2, StopsAreEnds
<1>4. \A x : rampColour(x, bands) = Mixed(Placed(x, spans), n)
  BY <1>1 DEF rampColour, rampPosition
<1>5. n \in Nat /\ Len(stops) = 2 * n + 1 /\ i \in 1 .. 2 * n
  BY <1>2, <1>3 DEF Banded, StopsAt
<1>6. PICK b \in 1 .. n : i = 2 * b - 1 \/ i = 2 * b
  <2>1. PICK q : q = (i + 1) \div 2
    OBVIOUS
  <2>2. q \in 1 .. n /\ (i = 2 * q - 1 \/ i = 2 * q)
    BY <1>5, <2>1
  <2> QED  BY <2>2
<1>7. PICK L, U, mid \in Int : /\ L = spans[b].lower /\ U = spans[b].upper /\ L < U /\ 2 * mid = L + U
                               /\ stops[2 * b - 1] = L /\ stops[2 * b] = mid /\ stops[2 * b + 1] = U
  BY <1>2, <1>3 DEF Banded, StopsAt
<1>8. PICK half \in {0, 1} : half = IF i = 2 * b - 1 THEN 0 ELSE 1
  OBVIOUS
<1>9. PICK s, e \in Int : s = stops[i] /\ e = stops[i + 1] /\ s <= v /\ v <= e
                          /\ IF half = 0 THEN s = L /\ e = mid ELSE s = mid /\ e = U
  <2>1. CASE i = 2 * b - 1
    <3>1. i + 1 = 2 * b
      BY <2>1
    <3> QED  BY <1>7, <1>8, <2>1, <3>1
  <2>2. CASE i = 2 * b
    <3>1. i + 1 = 2 * b + 1 /\ i # 2 * b - 1
      BY <2>2
    <3> QED  BY <1>7, <1>8, <2>2, <3>1
  <2> QED  BY <1>6, <2>1, <2>2
<1>10. ASSUME NEW x \in Int, s <= x, x <= e PROVE InHalf(spans[b], half, x)
  <2>1. IF half = 0 THEN L <= x /\ 2 * x <= L + U ELSE L + U <= 2 * x /\ x <= U
    <3>1. 2 * mid = L + U
      BY <1>7
    <3>2. IF half = 0 THEN s = L /\ e = mid ELSE s = mid /\ e = U
      BY <1>9
    <3> QED
      BY ONLY <1>10, <3>1, <3>2, x \in Int, s \in Int, e \in Int, L \in Int, U \in Int, mid \in Int
  <2>2. spans[b].lower = L /\ spans[b].upper = U
    BY <1>7
  <2> QED  BY ONLY <2>1, <2>2 DEF InHalf
<1>11. PICK alpha, beta, D \in Int : LineOver(spans, n, b, half, alpha, beta, D)
  BY <1>2, HalfIsLine
<1>12. PICK cv, cs, ce : cv = Mixed(Placed(v, spans), n) /\ cs = Mixed(Placed(s, spans), n)
                         /\ ce = Mixed(Placed(e, spans), n)
  OBVIOUS
<1>13. D > 0 /\ OnLine(cv, v - L, alpha, beta, D) /\ OnLine(cs, s - L, alpha, beta, D)
       /\ OnLine(ce, e - L, alpha, beta, D)
  <2>1. s <= v /\ v <= e
    BY <1>9
  <2>2. s <= s /\ s <= e /\ e <= e
    BY ONLY <2>1, s \in Int, e \in Int, v \in Int
  <2>3. InHalf(spans[b], half, v) /\ InHalf(spans[b], half, s) /\ InHalf(spans[b], half, e)
    BY ONLY <1>10, <2>1, <2>2, s \in Int, e \in Int, v \in Int
  <2>4. spans[b].lower = L
    BY <1>7
  <2>5. D > 0 /\ \A x \in Int : InHalf(spans[b], half, x) =>
                   OnLine(Mixed(Placed(x, spans), n), x - spans[b].lower, alpha, beta, D)
    BY ONLY <1>11 DEF LineOver
  <2> QED  BY ONLY <1>12, <2>3, <2>4, <2>5, s \in Int, e \in Int, v \in Int
<1>14. PICK v1, v2, s1, s2, e1, e2 \in Int :
         /\ v1 = cv[1] /\ v2 = cv[2] /\ s1 = cs[1] /\ s2 = cs[2] /\ e1 = ce[1] /\ e2 = ce[2]
         /\ v1 * D = (alpha + beta * (v - L)) * v2
         /\ s1 * D = (alpha + beta * (s - L)) * s2
         /\ e1 * D = (alpha + beta * (e - L)) * e2
  BY <1>13 DEF OnLine
<1>15. PICK x, y, z \in Int : x = v - L /\ y = s - L /\ z = e - L
  BY ONLY L \in Int, v \in Int, s \in Int, e \in Int
<1>16. (v1 * s2 - s1 * v2) * (z - y) * e2 = (e1 * s2 - s1 * e2) * (x - y) * v2
  <2>1. /\ AtPoint(v1, v2, x, alpha, beta, D) /\ AtPoint(s1, s2, y, alpha, beta, D)
        /\ AtPoint(e1, e2, z, alpha, beta, D) /\ D > 0
    BY <1>13, <1>14, <1>15 DEF AtPoint
  <2>2. /\ alpha \in Int /\ beta \in Int /\ D \in Int /\ x \in Int /\ y \in Int /\ z \in Int
        /\ v1 \in Int /\ v2 \in Int /\ s1 \in Int /\ s2 \in Int /\ e1 \in Int /\ e2 \in Int
    OBVIOUS
  <2>3. InLine(v1, v2, s1, s2, e1, e2, x, y, z)
    BY ONLY <2>1, <2>2, LineBetween, Zenon
  <2> QED  BY ONLY <2>3 DEF InLine
<1>17. z - y = e - s /\ x - y = v - s
  BY ONLY <1>15, L \in Int, v \in Int, s \in Int, e \in Int
<1>18. Between1(v, cv, s, cs, e, ce)
  BY <1>14, <1>16, <1>17 DEF Between1
<1> QED  BY <1>4, <1>9, <1>12, <1>18

-----------------------------------------------------------------------------
(***************************************************************************)
(* What else is drawn from a band table: the readings' bands on the card,  *)
(* the arc and the key.                                                    *)
(***************************************************************************)
\* A stated bound is its band's upper end, and so is a ceiling above the last bound.
LEMMA SpanEnds ==
  ASSUME NEW bands, bands.uppers \in Tables, bands.ceiling \in Ceilings \cup {Absent},
         NEW n, n = Len(bands.uppers), NEW i \in 1 .. n
  PROVE  /\ bands.uppers[i] # Absent => rampSpans(bands)[i].upper = bands.uppers[i]
         /\ /\ i = n /\ bands.uppers[n] = Absent /\ bands.ceiling # Absent
            /\ n = 1 \/ bands.ceiling > bands.uppers[n - 1]
            => rampSpans(bands)[n].upper = bands.ceiling
<1>1. n \in Nat \ {0}
  BY TableIs
<1>2. CASE n = 1
  BY <1>2 DEF rampSpans
<1>3. CASE n # 1
  BY <1>1, <1>3 DEF rampSpans
<1> QED  BY <1>2, <1>3

\* The band that fits is the band.
LEMMA BandOfIs ==
  ASSUME NEW spans, NEW n, Banded(spans, n), NEW b \in 1 .. n, NEW v \in Int,
         b = n \/ v <= spans[b].upper, \A j \in 1 .. b - 1 : v > spans[j].upper
  PROVE  BandOf(v, spans) = b
<1> DEFINE Fits(k) == /\ k = n \/ v <= spans[k].upper
                      /\ \A j \in 1 .. k - 1 : v > spans[j].upper
<1>1. n \in Nat /\ DOMAIN spans = 1 .. n /\ Len(spans) = n /\ \A i \in 1 .. n : spans[i].upper \in Int
  BY DEF Banded
<1>2. BandOf(v, spans) = CHOOSE k \in 1 .. n : Fits(k)
  BY <1>1 DEF BandOf
<1>3. Fits(b)
  OBVIOUS
<1>4. ASSUME NEW x \in 1 .. n, NEW y \in 1 .. n, Fits(x), Fits(y), x < y PROVE FALSE
  <2>1. x \in 1 .. y - 1 /\ x # n
    BY <1>1, <1>4
  <2>2. v > spans[x].upper /\ v <= spans[x].upper
    BY <1>4, <2>1
  <2> QED  BY <1>1, <2>2
<1>5. ASSUME NEW k \in 1 .. n, Fits(k) PROVE k = b
  <2>1. k < b \/ k = b \/ b < k
    BY <1>1
  <2> HIDE DEF Fits
  <2> QED  BY <1>3, <1>4, <1>5, <2>1
<1> HIDE DEF Fits
<1> QED  BY <1>2, <1>3, <1>5

\* What the card's band says of the reading.
CardBand(v, bands, n, b) ==
  /\ b \in 1 .. n
  /\ bands.uppers[b] # Absent => v <= bands.uppers[b]
  /\ bands.uppers[b] = Absent => b = n
  /\ \A j \in 1 .. b - 1 : bands.uppers[j] \in Int /\ v > bands.uppers[j]
LEMMA CardBandIs ==
  ASSUME NEW bands, bands.uppers \in Tables, NEW n, n = Len(bands.uppers), NEW v \in Int,
         NEW b, b = bandColour(v, bands), b # 0
  PROVE  CardBand(v, bands, n, b)
<1>1. PICK uppers : uppers = bands.uppers
  OBVIOUS
<1>2. /\ n \in Nat \ {0} /\ DOMAIN uppers = 1 .. n
      /\ \A i \in 1 .. n : uppers[i] # Absent => uppers[i] \in Int
      /\ \A i \in 1 .. n : i # n => uppers[i] # Absent
  BY <1>1, TableIs
<1>3. PICK fits : fits = {i \in 1 .. n : uppers[i] = Absent \/ v <= uppers[i]}
  OBVIOUS
<1>4. b = IF fits = {} THEN 0 ELSE Min(fits)
  BY <1>1, <1>2, <1>3 DEF bandColour
<1>5. fits # {} /\ fits \subseteq Nat
  BY <1>2, <1>3, <1>4
<1>6. b \in fits /\ \A y \in fits : b <= y
  <2>1. \E x \in fits : \A y \in fits : x <= y
    BY <1>5, LeastNat
  <2> QED  BY <1>4, <1>5, <2>1 DEF Min
<1>7. ASSUME NEW j \in 1 .. b - 1 PROVE uppers[j] \in Int /\ v > uppers[j]
  <2>1. b \in 1 .. n /\ j \in 1 .. n /\ j # n /\ ~(b <= j)
    BY <1>2, <1>3, <1>6
  <2>2. j \notin fits
    BY <1>6, <2>1
  <2> QED  BY <1>2, <1>3, <2>1, <2>2
<1>8. b \in 1 .. n /\ (uppers[b] # Absent => v <= uppers[b]) /\ (uppers[b] = Absent => b = n)
  BY <1>2, <1>3, <1>6
<1> QED  BY <1>1, <1>7, <1>8 DEF CardBand

\* It is the ramp's band, whatever ceiling the table comes with.
LEMMA CardBandOnRamp ==
  ASSUME NEW bands, bands.uppers \in Tables, bands.ceiling \in Ceilings \cup {Absent},
         NEW n, n = Len(bands.uppers), NEW v \in Int, NEW b, CardBand(v, bands, n, b)
  PROVE  /\ Banded(rampSpans(bands), n)
         /\ rampPosition(v, bands) = Within(v, rampSpans(bands)[b], b)
<1>1. PICK spans : spans = rampSpans(bands)
  OBVIOUS
<1>2. Banded(spans, n)
  BY <1>1, SpansBanded
<1>3. b \in 1 .. n /\ n \in Nat
  BY <1>2 DEF CardBand, Banded
<1>4. b = n \/ v <= spans[b].upper
  BY <1>1, <1>3, SpanEnds DEF CardBand
<1>5. ASSUME NEW j \in 1 .. b - 1 PROVE v > spans[j].upper
  <2>1. j \in 1 .. n /\ bands.uppers[j] \in Int /\ v > bands.uppers[j]
    BY <1>3 DEF CardBand
  <2>2. bands.uppers[j] # Absent
    BY <2>1, CellsAssumption
  <2> QED  BY <1>1, <2>1, <2>2, SpanEnds
<1>6. BandOf(v, spans) = b
  BY <1>2, <1>3, <1>4, <1>5, BandOfIs
<1> QED  BY <1>1, <1>2, <1>6 DEF rampPosition, Placed

\* The colour of a reading is no further than half a band from its band's own.
NearBand(c, b) == (2 * b - 3) * c[2] <= 2 * c[1] /\ 2 * c[1] <= (2 * b - 1) * c[2]
LEMMA HalfABand ==
  ASSUME NEW spans, NEW n, Banded(spans, n), NEW b \in 1 .. n, NEW v \in Int
  PROVE  NearBand(Mixed(Within(v, spans[b], b), n), b)
<1>1. PICK L, U \in Int : L = spans[b].lower /\ U = spans[b].upper /\ L < U
  BY DEF Banded
<1>2. PICK w, x \in Int : w = U - L /\ w > 0
                          /\ x = (IF v < L THEN 0 ELSE IF v > U THEN w ELSE v - L)
                          /\ 0 <= x /\ x <= w
  BY <1>1
<1>3. n \in Int /\ b \in Int /\ 1 <= b /\ b <= n
  BY DEF Banded
<1>4. PICK B, N \in Int : B = b * w /\ N = n * w
  BY <1>2, <1>3
<1>5. w <= B /\ B <= N
  <2>1. 1 \in Int /\ b \in Int /\ 1 <= b /\ w \in Int /\ w > 0
    BY <1>2, <1>3
  <2>2. 1 * w <= b * w
    BY ONLY <2>1, StepsOf
  <2>3. b * w <= n * w
    BY ONLY <1>3, <2>1, StepsOf
  <2> QED  BY ONLY <1>4, <2>2, <2>3, w \in Int
<1>6. (b - 1) * w = B - w /\ 2 * (n - 1) * w = 2 * N - 2 * w
  BY ONLY <1>3, <1>4, w \in Int
<1>7. Within(v, spans[b], b) = <<(B - w) + x, w>>
  <2>1. spans[b].upper - spans[b].lower = w /\ w # 0
    BY <1>1, <1>2
  <2> QED  BY <1>1, <1>2, <1>6, <2>1 DEF Within
<1>8. PICK t \in Int : t = 2 * ((B - w) + x) - w
  OBVIOUS
<1>9. PICK c \in Int : c = IF t < 0 THEN 0 ELSE IF t > 2 * N - 2 * w THEN 2 * N - 2 * w ELSE t
  <2>1. (IF t < 0 THEN 0 ELSE IF t > 2 * N - 2 * w THEN 2 * N - 2 * w ELSE t) \in Int
    OBVIOUS
  <2> QED  BY ONLY <2>1, Zenon
<1>10. Mixed(Within(v, spans[b], b), n) = <<c, 2 * w>>
  BY <1>6, <1>7, <1>8, <1>9 DEF Mixed
<1>11. (2 * b - 3) * (2 * w) = 4 * B - 6 * w /\ (2 * b - 1) * (2 * w) = 4 * B - 2 * w
  BY ONLY <1>3, <1>4, w \in Int
<1>12. 4 * B - 6 * w <= 2 * c /\ 2 * c <= 4 * B - 2 * w
  <2>1. w > 0 /\ 0 <= x /\ x <= w
    BY <1>2
  <2> QED
    BY ONLY <1>5, <1>8, <1>9, <2>1, B \in Int, N \in Int, w \in Int, x \in Int, t \in Int, c \in Int
<1> QED  BY <1>10, <1>11, <1>12 DEF NearBand

\* With three bands or more only the last one's range is the ceiling's.
LEMMA LowerSpansAlike ==
  ASSUME NEW bands, NEW bare, bare.uppers = bands.uppers, bands.uppers \in Tables,
         NEW n, n = Len(bands.uppers), n >= 3, NEW i \in 1 .. n, i # n
  PROVE  rampSpans(bare)[i] = rampSpans(bands)[i]
<1>1. n \in Nat \ {0} /\ 2 # n /\ n # 1
  BY TableIs
<1>2. PICK low : low = IF i = 1 THEN 2 * bands.uppers[1] - bands.uppers[2] ELSE bands.uppers[i - 1]
  OBVIOUS
<1>3. rampSpans(bands)[i] = [lower |-> low, upper |-> bands.uppers[i]]
  BY <1>1, <1>2 DEF rampSpans
<1>4. rampSpans(bare)[i] = [lower |-> low, upper |-> bands.uppers[i]]
  BY <1>1, <1>2 DEF rampSpans
<1> QED  BY <1>3, <1>4

\* A value further on stands further along the arc.
LEMMA AlongClimbs ==
  ASSUME NEW r, r.min \in Int, r.max \in Int, r.min < r.max, NEW x \in Int, NEW y \in Int
  PROVE  /\ Along(x, r) \in 0 .. r.max - r.min
         /\ x <= y => Along(x, r) <= Along(y, r)
         /\ Along(r.max, r) = r.max - r.min
BY DEF Along

LEMMA ArcIs ==
  ASSUME NEW bands, bands.uppers \in Tables, bands.ceiling \in Ceilings \cup {Absent}, NEW floor \in Int
  PROVE  gaugeRange(floor, bands).min = floor /\ gaugeRange(floor, bands).max \in Int
<1>1. PICK uppers, n, ceiling : uppers = bands.uppers /\ n = Len(uppers) /\ ceiling = bands.ceiling
  OBVIOUS
<1>2. /\ n \in Nat \ {0} /\ \A i \in 1 .. n : uppers[i] # Absent => uppers[i] \in Int
      /\ \A i \in 1 .. n : i # n => uppers[i] # Absent
  BY <1>1, TableIs
<1>3. ceiling = Absent \/ ceiling \in Int
  BY <1>1, CellsAssumption
<1>4. PICK m : m = IF uppers[n] = Absent THEN n - 1 ELSE n
  OBVIOUS
<1>5. m \in 0 .. n /\ \A i \in 1 .. m : i \in 1 .. n /\ uppers[i] \in Int
  BY <1>2, <1>4
<1>6. PICK past : past = IF m = 0 THEN IF ceiling = Absent THEN 0 ELSE ceiling
                         ELSE IF m = 1 THEN 2 * uppers[1] ELSE 2 * uppers[m] - uppers[m - 1]
  OBVIOUS
<1>7. past \in Int
  <2>1. m = 0 \/ m = 1 \/ (m - 1 \in 1 .. m /\ m \in 1 .. m)
    BY <1>2, <1>5
  <2> QED  BY <1>3, <1>5, <1>6, <2>1
<1>8. gaugeRange(floor, bands) =
        [min |-> floor, max |-> IF ceiling # Absent /\ ceiling > floor /\ ceiling < past THEN ceiling ELSE past]
  BY <1>1, <1>4, <1>6 DEF gaugeRange
<1> QED  BY <1>3, <1>7, <1>8

-----------------------------------------------------------------------------
(***************************************************************************)
(* Sums over parts, and sets in a sequence.                                *)
(***************************************************************************)

\* B cuts D into blocks, one for each member of H.
Blocks(H, B, D) ==
  /\ IsFiniteSet(H) /\ IsFiniteSet(D)
  /\ \A h \in H : B[h] \subseteq D
  /\ \A g, h \in H : g # h => B[g] \cap B[h] = {}
  /\ \A x \in D : \E h \in H : x \in B[h]

\* The blocks' counts add up to the whole's.
LEMMA BlocksCount ==
  ASSUME NEW H, NEW B, NEW D, Blocks(H, B, D),
         NEW w, DOMAIN w = H, \A h \in H : w[h] = Cardinality(B[h])
  PROVE  SumFunction(w) = Cardinality(D)
<1>1. IsFiniteSet(H) /\ IsFiniteSet(D)
  BY DEF Blocks
<1>2. \A h \in H : IsFiniteSet(B[h]) /\ w[h] \in Int
  <2> SUFFICES ASSUME NEW h \in H PROVE IsFiniteSet(B[h]) /\ w[h] \in Int
    OBVIOUS
  <2>1. B[h] \in SUBSET D
    BY DEF Blocks
  <2>2. IsFiniteSet(B[h])
    BY <1>1, <2>1, FS_Subset
  <2> QED  BY <2>2, FS_CardinalityType
<1>3. PICK F : SumsOf(F, H, w)
  BY <1>1, <1>2, SumsExist
<1>4. SumFunction(w) = F[H]
  BY <1>1, <1>2, <1>3, SumIs
<1> DEFINE In(T) == {x \in D : \E h \in T : x \in B[h]}
           G == {k \in Nat : \A T \in SUBSET H : Cardinality(T) = k => F[T] = Cardinality(In(T))}
<1>5. 0 \in G
  <2>1. ASSUME NEW T \in SUBSET H, Cardinality(T) = 0
        PROVE  F[T] = Cardinality(In(T))
    <3>1. T = {}
      BY <1>1, <2>1, FS_EmptySet, FS_Subset
    <3>2. In(T) = {} /\ F[T] = 0
      BY <1>3, <3>1 DEF SumsOf
    <3>3. Cardinality({}) = 0
      BY FS_EmptySet
    <3> QED  BY <3>2, <3>3
  <2> QED  BY <2>1
<1>6. ASSUME NEW k \in G, k + 1 <= Cardinality(H)
      PROVE  k + 1 \in G
  <2>1. ASSUME NEW T \in SUBSET H, Cardinality(T) = k + 1
        PROVE  F[T] = Cardinality(In(T))
    <3>1. IsFiniteSet(T) /\ k \in Nat
      BY <1>1, FS_Subset
    <3>2. T # {}
      BY <2>1, <3>1, FS_EmptySet
    <3>3. PICK d \in T : TRUE
      BY <3>2
    <3>4. PICK R : R = T \ {d}
      OBVIOUS
    <3>5. Cardinality(R) = k /\ R \in SUBSET H
      <4>1. Cardinality(T \ {d}) = Cardinality(T) - 1
        BY <3>1, <3>3, FS_RemoveElement
      <4> QED  BY <2>1, <3>1, <3>4, <4>1
    <3>6. F[R] = Cardinality(In(R))
      BY <3>5
    <3>7. F[T] = F[R] + w[d]
      <4>1. d \in H \ R /\ R \cup {d} = T
        BY <3>3, <3>4
      <4> QED  BY <1>3, <3>5, <4>1 DEF SumsOf
    <3>8. PICK P, Q : P = In(R) /\ Q = B[d]
      OBVIOUS
    <3>9. In(T) = P \cup Q /\ P \cap Q = {} /\ P \in SUBSET D /\ Q \in SUBSET D
      BY <3>3, <3>4, <3>8 DEF Blocks
    <3>10. IsFiniteSet(P) /\ IsFiniteSet(Q)
      BY <1>1, <3>9, FS_Subset
    <3>11. Cardinality(P \cup Q) = Cardinality(P) + Cardinality(Q) - Cardinality(P \cap Q)
      BY <3>10, FS_Union
    <3>12. Cardinality(P \cap Q) = 0 /\ Cardinality(P) \in Nat /\ Cardinality(Q) \in Nat
      BY <3>9, <3>10, FS_EmptySet, FS_CardinalityType
    <3>13. w[d] = Cardinality(Q)
      BY <3>3, <3>8
    <3> HIDE DEF In
    <3> QED  BY <3>6, <3>7, <3>8, <3>9, <3>11, <3>12, <3>13
  <2> QED  BY <2>1
<1>7. Cardinality(H) \in Nat
  BY <1>1, FS_CardinalityType
<1>8. Cardinality(H) \in G
  <2> HIDE DEF G
  <2> QED  BY <1>5, <1>6, <1>7, UpTo
<1>9. F[H] = Cardinality(In(H))
  BY <1>8
<1>10. In(H) = D
  BY DEF Blocks
<1> QED  BY <1>4, <1>9, <1>10

\* A sum lies between its least and its greatest weight, taken as often as it has weights.
SumWithin(t, lo, hi, c) == t \in Int /\ c \in Nat /\ lo * c <= t /\ t <= hi * c
LEMMA SumBetween ==
  ASSUME NEW H, IsFiniteSet(H), NEW lo \in Int, NEW hi \in Int,
         NEW w, DOMAIN w = H, \A x \in H : w[x] \in Int /\ lo <= w[x] /\ w[x] <= hi
  PROVE  SumWithin(SumFunction(w), lo, hi, Cardinality(H))
<1>3. PICK F : SumsOf(F, H, w)
  BY SumsExist
<1>4. SumFunction(w) = F[H]
  BY <1>3, SumIs
<1> DEFINE G == {k \in Nat : \A T \in SUBSET H : Cardinality(T) = k => SumWithin(F[T], lo, hi, k)}
<1>5. 0 \in G
  <2>1. ASSUME NEW T \in SUBSET H, Cardinality(T) = 0
        PROVE  SumWithin(F[T], lo, hi, 0)
    <3>1. T = {}
      BY <2>1, FS_EmptySet, FS_Subset
    <3>2. F[T] = 0
      BY <1>3, <3>1 DEF SumsOf
    <3> QED  BY <3>2 DEF SumWithin
  <2> QED  BY <2>1
<1>6. ASSUME NEW k \in G, k + 1 <= Cardinality(H)
      PROVE  k + 1 \in G
  <2>1. ASSUME NEW T \in SUBSET H, Cardinality(T) = k + 1
        PROVE  SumWithin(F[T], lo, hi, k + 1)
    <3>1. IsFiniteSet(T) /\ k \in Nat
      BY FS_Subset
    <3>2. T # {}
      BY <2>1, <3>1, FS_EmptySet
    <3>3. PICK d \in T : TRUE
      BY <3>2
    <3>4. PICK R : R = T \ {d}
      OBVIOUS
    <3>5. Cardinality(R) = k /\ R \in SUBSET H
      <4>1. Cardinality(T \ {d}) = Cardinality(T) - 1
        BY <3>1, <3>3, FS_RemoveElement
      <4> QED  BY <2>1, <3>1, <3>4, <4>1
    <3>6. SumWithin(F[R], lo, hi, k)
      BY <3>5
    <3>7. F[T] = F[R] + w[d]
      <4>1. d \in H \ R /\ R \cup {d} = T
        BY <3>3, <3>4
      <4> QED  BY <1>3, <3>5, <4>1 DEF SumsOf
    <3>8. w[d] \in Int /\ lo <= w[d] /\ w[d] <= hi
      BY <3>3
    <3>9. lo * (k + 1) = lo * k + lo /\ hi * (k + 1) = hi * k + hi
      BY ONLY lo \in Int, hi \in Int, k \in Nat, <3>1
    <3>10. lo * k \in Int /\ hi * k \in Int
      BY ONLY lo \in Int, hi \in Int, <3>1
    <3>11. PICK a, b, c \in Int : a = lo * k /\ b = hi * k /\ c = F[R] /\ a <= c /\ c <= b
      BY <3>6, <3>10 DEF SumWithin
    <3>12. F[T] = c + w[d] /\ lo * (k + 1) = a + lo /\ hi * (k + 1) = b + hi
      BY <3>7, <3>9, <3>11
    <3>13. F[T] \in Int /\ lo * (k + 1) <= F[T] /\ F[T] <= hi * (k + 1) /\ k + 1 \in Nat
      BY <3>1, <3>8, <3>11, <3>12
    <3> QED  BY ONLY <3>13 DEF SumWithin
  <2>2. k + 1 \in Nat
    OBVIOUS
  <2> QED  BY <2>1, <2>2
<1>7. Cardinality(H) \in Nat
  BY FS_CardinalityType
<1>8. Cardinality(H) \in G
  <2> HIDE DEF G
  <2> QED  BY <1>5, <1>6, <1>7, UpTo
<1>9. SumWithin(F[H], lo, hi, Cardinality(H))
  BY <1>8
<1> QED  BY <1>4, <1>9

\* f goes through S, once each.
GoesThrough(S, n, f) == /\ n \in Nat /\ n = Cardinality(S) /\ f \in [1 .. n -> S] /\ Apart(n, f)
                    /\ \A x \in S : \E i \in 1 .. n : f[i] = x

LEMMA SeqOfSet ==
  ASSUME NEW S, IsFiniteSet(S)
  PROVE  GoesThrough(S, Cardinality(S), SetToSeq(S)) /\ Len(SetToSeq(S)) = Cardinality(S)
<1>1. PICK n \in Nat : n = Cardinality(S)
  BY FS_CardinalityType
<1>2. \E f \in [1 .. n -> S] : IsInjective(f)
  <2>1. PICK f : f \in Bijection(1 .. n, S)
    BY <1>1, FS_CardinalityType DEF ExistsBijection
  <2> QED  BY <2>1 DEF Bijection, Injection
<1>3. PICK f : f = SetToSeq(S)
  OBVIOUS
<1>4. f \in [1 .. n -> S] /\ IsInjective(f)
  BY <1>1, <1>2, <1>3 DEF SetToSeq
<1>5. Apart(n, f)
  BY <1>4 DEF Apart, IsInjective
<1>6. \A x \in S : \E i \in 1 .. n : f[i] = x
  <2>1. PICK D : D = 1 .. n
    OBVIOUS
  <2>2. IsFiniteSet(D) /\ Cardinality(D) = n
    <3>1. IsFiniteSet(1 .. n) /\ Cardinality(1 .. n) = n
      BY <1>1, FS_Interval
    <3> QED  BY <2>1, <3>1
  <2>3. f \in Injection(D, S)
    BY <1>4, <2>1 DEF Injection
  <2>4. f \in Surjection(D, S)
    BY <1>1, <2>2, <2>3, FS_Injection
  <2> QED  BY <2>1, <2>4 DEF Surjection
<1>7. Len(f) = n
  <2>1. f \in Seq(S) /\ DOMAIN f = 1 .. n
    BY ONLY <1>1, <1>4
  <2> QED  BY ONLY <1>1, <2>1
<1> QED  BY <1>1, <1>3, <1>4, <1>5, <1>6, <1>7 DEF GoesThrough

-----------------------------------------------------------------------------
(***************************************************************************)
(* Means.  A mean is Absent or a pair <<total, weight>>; it lies between   *)
(* two numbers when every reading under it does.                           *)
(***************************************************************************)
Lies(m, lo, hi) == lo * m[2] <= m[1] /\ m[1] <= hi * m[2]
Pair(m) == m \in Int \X Int /\ m[2] > 0

DevicesOf(ds, n) == n \in Nat /\ ds \in [1 .. n -> Devices]
ReadBetween(ds, T, lo, hi) == \A i \in T : ds[i].v # Absent => lo <= ds[i].v /\ ds[i].v <= hi

\* m is a mean of the readings of T: absent when there is none.
MeanOf(m, ds, T) ==
  IF \A i \in T : ds[i].v = Absent THEN m = Absent
  ELSE Pair(m) /\ \A lo, hi \in Int : ReadBetween(ds, T, lo, hi) => Lies(m, lo, hi)

LEMMA DeviceIs ==
  ASSUME NEW ds, NEW n, DevicesOf(ds, n), NEW i \in 1 .. n
  PROVE  ds[i].spot \in Spots /\ ds[i].network \in Networks /\ (ds[i].v # Absent => ds[i].v \in Int)
<1>1. ds[i] \in Devices
  BY DEF DevicesOf
<1>2. Readings \subseteq Int
  BY CellsAssumption
<1> QED  BY <1>1, <1>2 DEF Devices

LEMMA MeanIs ==
  ASSUME NEW ds, NEW n, DevicesOf(ds, n), NEW T, T \subseteq 1 .. n
  PROVE  MeanOf(Mean(ds, T), ds, T)
<1>1. PICK S : S = {i \in T : ds[i].v # Absent}
  OBVIOUS
<1>2. PICK w : w = [i \in S |-> ds[i].v]
  OBVIOUS
<1>3. Mean(ds, T) = IF S = {} THEN Absent ELSE <<SumFunction(w), Cardinality(S)>>
  BY <1>1, <1>2 DEF Mean
<1>4. CASE S = {}
  BY <1>1, <1>3, <1>4 DEF MeanOf
<1>5. CASE S # {}
  <2>1. IsFiniteSet(S) /\ Cardinality(S) \in Nat
    <3>1. n \in Int /\ 1 \in Int
      BY DEF DevicesOf
    <3>2. IsFiniteSet(1 .. n)
      BY <3>1, FS_Interval
    <3>3. PICK D : D = 1 .. n
      OBVIOUS
    <3>4. IsFiniteSet(D) /\ S \in SUBSET D
      BY <1>1, <3>2, <3>3
    <3> QED  BY <3>4, FS_Subset, FS_CardinalityType
  <2>2. Cardinality(S) > 0
    <3>1. Cardinality(S) = 0 <=> S = {}
      BY <2>1, FS_EmptySet
    <3> QED  BY <1>5, <2>1, <3>1
  <2>3. DOMAIN w = S /\ \A i \in S : w[i] = ds[i].v /\ w[i] \in Int
    BY <1>1, <1>2, DeviceIs
  <2>4. SumFunction(w) \in Int
    <3>1. PICK F : SumsOf(F, S, w)
      BY <2>1, <2>3, SumsExist
    <3>2. SumFunction(w) = F[S]
      BY <2>1, <2>3, <3>1, SumIs
    <3> QED  BY <3>1, <3>2 DEF SumsOf
  <2>5. PICK m : m = <<SumFunction(w), Cardinality(S)>>
    OBVIOUS
  <2>6. Pair(m) /\ m[1] = SumFunction(w) /\ m[2] = Cardinality(S)
    BY <2>1, <2>2, <2>4, <2>5 DEF Pair
  <2>7. ASSUME NEW lo \in Int, NEW hi \in Int, ReadBetween(ds, T, lo, hi)
        PROVE  Lies(m, lo, hi)
    <3>1. \A i \in S : w[i] \in Int /\ lo <= w[i] /\ w[i] <= hi
      BY <1>1, <2>3, <2>7 DEF ReadBetween
    <3>2. SumWithin(SumFunction(w), lo, hi, Cardinality(S))
      BY <2>1, <2>3, <3>1, SumBetween
    <3> QED  BY ONLY <2>6, <3>2 DEF SumWithin, Lies
  <2>8. ~\A i \in T : ds[i].v = Absent
    BY <1>1, <1>5
  <2> QED  BY <1>3, <1>5, <2>5, <2>6, <2>7, <2>8 DEF MeanOf
<1> QED  BY <1>4, <1>5

-----------------------------------------------------------------------------
(***************************************************************************)
(* combine: what has been added up so far lies between what the parts lie  *)
(* between.                                                                *)
(***************************************************************************)
Tally == [total : Int, over : Int, weight : Int]
NoTally == [total |-> 0, over |-> 1, weight |-> 0]
PartOf(p) == p.n \in Nat /\ p.n > 0 /\ (p.v # Absent => Pair(p.v))
TallyOK(s) == s \in Tally /\ s.over > 0 /\ s.weight >= 0
TallyLies(s, lo, hi) == lo * (s.over * s.weight) <= s.total /\ s.total <= hi * (s.over * s.weight)

LEMMA ScaledBelow ==
  ASSUME NEW lo \in Int, NEW over \in Int, NEW weight \in Int, NEW t \in Int, lo * (over * weight) <= t,
         NEW a \in Int, NEW d \in Int, lo * d <= a, NEW c \in Int, over > 0, d > 0, c > 0
  PROVE  lo * ((over * d) * (weight + c)) <= t * d + (a * c) * over
<1>1. PICK x \in Int : x = lo * (over * weight)
  OBVIOUS
<1>2. PICK y \in Int : y = lo * d
  OBVIOUS
<1>3. PICK z \in Int : z = c * over /\ z > 0
  <2>1. 1 \in Int /\ 1 <= over /\ 0 <= over /\ 0 \in Int
    OBVIOUS
  <2>2. 0 * c <= over * c /\ (0 < over => 0 * c + c <= over * c) /\ over * c \in Int
    BY ONLY <2>1, over \in Int, c \in Int, c > 0, StepsOf
  <2>3. c * over = over * c
    OBVIOUS
  <2>4. over * c > 0
    BY ONLY <2>2, over > 0, c > 0, c \in Int, over \in Int
  <2> QED  BY <2>2, <2>3, <2>4
<1>4. x * d <= t * d /\ x * d \in Int /\ t * d \in Int
  BY ONLY <1>1, t \in Int, d \in Int, d > 0, lo * (over * weight) <= t, StepsOf
<1>5. y * z <= a * z /\ y * z \in Int /\ a * z \in Int
  BY ONLY <1>2, <1>3, a \in Int, lo * d <= a, StepsOf
<1>6. lo * ((over * d) * (weight + c)) = x * d + y * z
  BY ONLY <1>1, <1>2, <1>3, lo \in Int, over \in Int, weight \in Int, d \in Int, c \in Int
<1>7. (a * c) * over = a * z
  BY ONLY <1>3, a \in Int, c \in Int, over \in Int
<1> QED  BY ONLY <1>4, <1>5, <1>6, <1>7

LEMMA ScaledAbove ==
  ASSUME NEW hi \in Int, NEW over \in Int, NEW weight \in Int, NEW t \in Int, t <= hi * (over * weight),
         NEW a \in Int, NEW d \in Int, a <= hi * d, NEW c \in Int, over > 0, d > 0, c > 0
  PROVE  t * d + (a * c) * over <= hi * ((over * d) * (weight + c))
<1>1. PICK l, s, b \in Int : l = -hi /\ s = -t /\ b = -a
  OBVIOUS
<1>2. l * (over * weight) = -(hi * (over * weight)) /\ l * d = -(hi * d)
  BY ONLY <1>1, hi \in Int, over \in Int, weight \in Int, d \in Int
<1>3. hi * (over * weight) \in Int /\ hi * d \in Int
  OBVIOUS
<1>4. l * (over * weight) <= s /\ l * d <= b
  BY ONLY <1>1, <1>2, <1>3, t \in Int, a \in Int, t <= hi * (over * weight), a <= hi * d
<1>5. l * ((over * d) * (weight + c)) <= s * d + (b * c) * over
  BY ONLY <1>1, <1>4, over \in Int, weight \in Int, d \in Int, c \in Int, over > 0, d > 0, c > 0, ScaledBelow
<1>6. /\ l * ((over * d) * (weight + c)) = -(hi * ((over * d) * (weight + c)))
      /\ s * d + (b * c) * over = -(t * d + (a * c) * over)
  BY ONLY <1>1, hi \in Int, t \in Int, a \in Int, over \in Int, weight \in Int, d \in Int, c \in Int
<1>7. hi * ((over * d) * (weight + c)) \in Int /\ t * d + (a * c) * over \in Int
  OBVIOUS
<1> QED  BY ONLY <1>5, <1>6, <1>7

\* One part more.
LEMMA WeighedOK ==
  ASSUME NEW s, TallyOK(s), NEW p, PartOf(p), NEW r, r = Weighed(s, p)
  PROVE  TallyOK(r) /\ r.weight = s.weight + (IF p.v = Absent THEN 0 ELSE p.n)
<1>1. PICK t, o, g \in Int : s = [total |-> t, over |-> o, weight |-> g] /\ o > 0 /\ g >= 0
  BY DEF TallyOK, Tally
<1>2. CASE p.v = Absent
  <2>1. r = s
    BY <1>2 DEF Weighed
  <2> QED  BY <1>1, <1>2, <2>1
<1>3. CASE p.v # Absent
  <2>1. PICK a, d \in Int : p.v[1] = a /\ p.v[2] = d /\ d > 0
    BY <1>3 DEF PartOf, Pair
  <2>2. PICK c \in Int : p.n = c /\ c > 0
    BY DEF PartOf
  <2>3. r = [total |-> t * d + a * c * o, over |-> o * d, weight |-> g + c]
    BY <1>1, <1>3, <2>1, <2>2 DEF Weighed
  <2>4. t * d + a * c * o \in Int /\ o * d \in Int /\ g + c \in Int /\ g + c >= 0
    BY <1>1, <2>1, <2>2
  <2>5. o * d > 0
    <3>1. 0 \in Int /\ 0 <= o
      BY <1>1
    <3>2. 0 < o => 0 * d + d <= o * d
      BY ONLY <1>1, <2>1, <3>1, StepsOf
    <3> QED  BY ONLY <1>1, <2>1, <2>4, <3>2
  <2>6. PICK x, y, z \in Int : r = [total |-> x, over |-> y, weight |-> z] /\ y > 0 /\ z >= 0 /\ z = g + c
    BY <2>3, <2>4, <2>5
  <2>7. TallyOK(r) /\ r.weight = g + c
    BY <2>6 DEF TallyOK, Tally
  <2> QED  BY <1>1, <1>3, <2>2, <2>7
<1> QED  BY <1>2, <1>3

LEMMA WeighedLies ==
  ASSUME NEW s, TallyOK(s), NEW p, PartOf(p), NEW lo \in Int, NEW hi \in Int, TallyLies(s, lo, hi),
         p.v # Absent => Lies(p.v, lo, hi), NEW r, r = Weighed(s, p)
  PROVE  TallyLies(r, lo, hi)
<1>1. PICK t, o, g \in Int : s = [total |-> t, over |-> o, weight |-> g] /\ o > 0 /\ g >= 0
  BY DEF TallyOK, Tally
<1>2. CASE p.v = Absent
  BY <1>2 DEF Weighed
<1>3. CASE p.v # Absent
  <2>1. PICK a, d \in Int : p.v[1] = a /\ p.v[2] = d /\ d > 0
    BY <1>3 DEF PartOf, Pair
  <2>2. PICK c \in Int : p.n = c /\ c > 0
    BY DEF PartOf
  <2>3. r = [total |-> t * d + (a * c) * o, over |-> o * d, weight |-> g + c]
    BY <1>1, <1>3, <2>1, <2>2 DEF Weighed
  <2>4. lo * (o * g) <= t /\ t <= hi * (o * g) /\ lo * d <= a /\ a <= hi * d
    BY <1>1, <1>3, <2>1 DEF TallyLies, Lies
  <2>5. lo * ((o * d) * (g + c)) <= t * d + (a * c) * o
    BY ONLY <1>1, <2>1, <2>2, <2>4, lo \in Int, ScaledBelow
  <2>6. t * d + (a * c) * o <= hi * ((o * d) * (g + c))
    BY ONLY <1>1, <2>1, <2>2, <2>4, hi \in Int, ScaledAbove
  <2>7. r.total = t * d + (a * c) * o /\ r.over = o * d /\ r.weight = g + c
    BY ONLY <2>3
  <2> QED  BY ONLY <2>5, <2>6, <2>7 DEF TallyLies
<1> QED  BY <1>2, <1>3

\* Every part in turn.
Tallied(f, q, n) == f[0] = NoTally /\ \A k \in 1 .. n : f[k] = Weighed(f[k - 1], q[k])
Weighs(s, q, k) == TallyOK(s) /\ (s.weight = 0 <=> \A j \in 1 .. k : q[j].v = Absent)
LEMMA TalliesWeigh ==
  ASSUME NEW n \in Nat, NEW q, \A k \in 1 .. n : PartOf(q[k]), NEW f, Tallied(f, q, n)
  PROVE  Weighs(f[n], q, n)
<1> DEFINE G == {k \in Nat : k <= n => Weighs(f[k], q, k)}
<1>1. 0 \in G
  <2>1. f[0] = NoTally
    BY DEF Tallied
  <2>2. TallyOK(NoTally) /\ NoTally.weight = 0
    BY DEF TallyOK, Tally, NoTally
  <2>3. \A j \in 1 .. 0 : q[j].v = Absent
    OBVIOUS
  <2>4. Weighs(f[0], q, 0)
    BY <2>1, <2>2, <2>3 DEF Weighs
  <2> QED  BY <2>4
<1>2. ASSUME NEW k \in G, k + 1 <= n PROVE k + 1 \in G
  <2>1. k \in Nat /\ k + 1 \in 1 .. n /\ (k + 1) - 1 = k /\ k <= n
    BY <1>2
  <2>2. PICK s, p, r : s = f[k] /\ p = q[k + 1] /\ r = f[k + 1]
    OBVIOUS
  <2>3. r = Weighed(s, p) /\ PartOf(p)
    BY <2>1, <2>2 DEF Tallied
  <2>4. TallyOK(s) /\ (s.weight = 0 <=> \A j \in 1 .. k : q[j].v = Absent)
    BY <2>1, <2>2 DEF Weighs
  <2>5. TallyOK(r) /\ r.weight = s.weight + (IF p.v = Absent THEN 0 ELSE p.n)
    BY <2>3, <2>4, WeighedOK
  <2>6. s.weight \in Int /\ s.weight >= 0 /\ p.n \in Int /\ p.n > 0
    BY <2>3, <2>4 DEF TallyOK, Tally, PartOf
  <2>7. r.weight = 0 <=> s.weight = 0 /\ p.v = Absent
    BY <2>5, <2>6
  <2>8. (\A j \in 1 .. k + 1 : q[j].v = Absent) <=> (\A j \in 1 .. k : q[j].v = Absent) /\ p.v = Absent
    <3>1. \A j \in 1 .. k + 1 : j \in 1 .. k \/ j = k + 1
      BY <2>1
    <3>2. \A j \in 1 .. k : j \in 1 .. k + 1
      BY <2>1
    <3> QED  BY <2>1, <2>2, <3>1, <3>2
  <2>9. Weighs(f[k + 1], q, k + 1)
    BY <2>2, <2>4, <2>5, <2>7, <2>8 DEF Weighs
  <2> QED  BY <2>1, <2>9
<1>3. n \in G
  <2> HIDE DEF G
  <2> QED  BY <1>1, <1>2, UpTo
<1> QED  BY <1>3

LEMMA TalliesLie ==
  ASSUME NEW n \in Nat, NEW q, \A k \in 1 .. n : PartOf(q[k]), NEW f, Tallied(f, q, n),
         NEW lo \in Int, NEW hi \in Int, \A k \in 1 .. n : q[k].v # Absent => Lies(q[k].v, lo, hi)
  PROVE  TallyLies(f[n], lo, hi)
<1> DEFINE G == {k \in Nat : k <= n => TallyOK(f[k]) /\ TallyLies(f[k], lo, hi)}
<1>1. 0 \in G
  <2>1. f[0] = NoTally
    BY DEF Tallied
  <2>2. TallyOK(NoTally) /\ TallyLies(NoTally, lo, hi)
    BY DEF TallyOK, Tally, NoTally, TallyLies
  <2> QED  BY <2>1, <2>2
<1>2. ASSUME NEW k \in G, k + 1 <= n PROVE k + 1 \in G
  <2>1. k \in Nat /\ k + 1 \in 1 .. n /\ (k + 1) - 1 = k /\ k <= n
    BY <1>2
  <2>2. PICK s, p, r : s = f[k] /\ p = q[k + 1] /\ r = f[k + 1]
    OBVIOUS
  <2>3. r = Weighed(s, p) /\ PartOf(p) /\ (p.v # Absent => Lies(p.v, lo, hi))
    BY <2>1, <2>2 DEF Tallied
  <2>4. TallyOK(s) /\ TallyLies(s, lo, hi)
    BY <2>1, <2>2
  <2>5. TallyOK(r) /\ TallyLies(r, lo, hi)
    BY <2>3, <2>4, WeighedOK, WeighedLies
  <2> QED  BY <2>1, <2>2, <2>5
<1>3. n \in G
  <2> HIDE DEF G
  <2> QED  BY <1>1, <1>2, UpTo
<1> QED  BY <1>3

\* What the parts blend to.
BlendOf(m, parts) ==
  IF \A w \in DOMAIN parts : parts[w].v = Absent THEN m = Absent
  ELSE Pair(m) /\ \A lo, hi \in Int :
         (\A w \in DOMAIN parts : parts[w].v # Absent => Lies(parts[w].v, lo, hi)) => Lies(m, lo, hi)
LEMMA CombineIs ==
  ASSUME NEW parts, IsFiniteSet(DOMAIN parts), \A w \in DOMAIN parts : PartOf(parts[w])
  PROVE  BlendOf(combine(parts), parts)
<1> DEFINE W == DOMAIN parts
<1>1. PICK n, ws : n = Cardinality(W) /\ ws = SetToSeq(W)
  OBVIOUS
<1>2. GoesThrough(W, n, ws) /\ Len(ws) = n
  BY <1>1, SeqOfSet
<1>3. n \in Nat /\ ws \in [1 .. n -> W] /\ \A w \in W : \E i \in 1 .. n : ws[i] = w
  BY <1>2 DEF GoesThrough
<1>4. PICK q : q = [k \in 1 .. n |-> parts[ws[k]]]
  OBVIOUS
<1>5. \A k \in 1 .. n : q[k] = parts[ws[k]] /\ PartOf(q[k]) /\ ws[k] \in W
  BY <1>3, <1>4
<1> DEFINE Next1(k, prior) == Weighed(prior, parts[ws[k]])
           Follows(g) == g = [k \in 0 .. n |-> IF k = 0 THEN NoTally ELSE Next1(k, g[k - 1])]
<1>6. PICK sums : sums = CHOOSE g : g = [k \in 0 .. Len(ws) |->
                                           IF k = 0 THEN NoTally ELSE Weighed(g[k - 1], parts[ws[k]])]
  OBVIOUS
<1>7. combine(parts) = IF n = 1 THEN parts[ws[1]].v
                       ELSE IF sums[n].weight = 0 THEN Absent
                       ELSE <<sums[n].total, sums[n].over * sums[n].weight>>
  <2>1. combine(parts) = IF Len(ws) = 1 THEN parts[ws[1]].v
                         ELSE IF sums[Len(ws)].weight = 0 THEN Absent
                         ELSE <<sums[Len(ws)].total, sums[Len(ws)].over * sums[Len(ws)].weight>>
    BY <1>1, <1>6 DEF combine, NoTally
  <2>2. Len(ws) = n
    BY <1>2
  <2> QED  BY ONLY <2>1, <2>2
<1>7a. sums = CHOOSE g : Follows(g)
  BY <1>2, <1>6
<1>8. ASSUME NEW k \in 1 .. n, NEW s \in {s \in Tally : TallyOK(s)} PROVE Next1(k, s) \in {r \in Tally : TallyOK(r)}
  <2>1. TallyOK(Weighed(s, parts[ws[k]]))
    BY <1>5, WeighedOK
  <2> QED  BY <2>1 DEF TallyOK
<1> HIDE DEF Next1, W
<1>9. \E g : Follows(g)
  <2>1. PICK V, base, step : V = {s \in Tally : TallyOK(s)} /\ base = NoTally /\ step = [k \in 1 .. n |-> [prior \in V |-> Next1(k, prior)]]
    OBVIOUS
  <2>2. base \in V
    BY <2>1 DEF TallyOK, Tally, NoTally
  <2>3. step \in [1 .. n -> [V -> V]]
    BY <1>8, <2>1
  <2>4. PICK g \in [0 .. n -> V] : Iterates(g, n, base, step)
    BY <1>3, <2>2, <2>3, IterationExists
  <2>5. g[0] = NoTally /\ \A k \in 1 .. n : g[k] = step[k][g[k - 1]]
    BY <2>1, <2>4 DEF Iterates
  <2>6. \A k \in 1 .. n : g[k - 1] \in V
    <3>1. \A k \in 1 .. n : k - 1 \in 0 .. n
      BY <1>3
    <3> QED  BY <2>4, <3>1
  <2>7. \A k \in 1 .. n : g[k] = Next1(k, g[k - 1])
    BY <2>1, <2>5, <2>6
  <2>8. \A k \in 0 .. n : g[k] = IF k = 0 THEN NoTally ELSE Next1(k, g[k - 1])
    <3>1. \A k \in 0 .. n : k = 0 \/ k \in 1 .. n
      BY <1>3
    <3> QED  BY <2>5, <2>7, <3>1
  <2>9. DOMAIN g = 0 .. n /\ g = [k \in 0 .. n |-> g[k]]
    BY <2>4
  <2> QED  BY <2>8, <2>9
<1>10. Follows(sums)
  <2> HIDE DEF Follows
  <2> QED  BY <1>7a, <1>9
<1>11. Tallied(sums, q, n)
  <2>1. \A k \in 0 .. n : sums[k] = IF k = 0 THEN NoTally ELSE Next1(k, sums[k - 1])
    BY <1>10
  <2>2. 0 \in 0 .. n /\ \A k \in 1 .. n : k \in 0 .. n /\ k # 0
    BY <1>3
  <2> QED  BY <1>5, <2>1, <2>2 DEF Next1, Tallied
<1>12. PICK s : s = sums[n]
  OBVIOUS
<1>13. TallyOK(s) /\ (s.weight = 0 <=> \A k \in 1 .. n : q[k].v = Absent)
  <2>1. \A k \in 1 .. n : PartOf(q[k])
    BY <1>5
  <2>2. n \in Nat
    BY <1>3
  <2>3. Weighs(sums[n], q, n)
    BY ONLY <1>11, <2>1, <2>2, TalliesWeigh
  <2> QED  BY ONLY <1>12, <2>3 DEF Weighs
<1>14. (\A k \in 1 .. n : q[k].v = Absent) <=> (\A w \in W : parts[w].v = Absent)
  BY <1>3, <1>5
<1>15. PICK m : m = combine(parts)
  OBVIOUS
<1>16. CASE n = 1
  <2>1. PICK w : w = ws[1] /\ w \in W /\ \A x \in W : x = w
    <3>1. 1 \in 1 .. n /\ \A i \in 1 .. n : i = 1
      BY <1>16
    <3> QED  BY <1>3, <3>1
  <2>2. m = parts[w].v
    BY <1>7, <1>15, <1>16, <2>1
  <2>3. m # Absent => Pair(m)
    BY <2>1, <2>2 DEF PartOf, W
  <2> QED  BY <1>15, <2>1, <2>2, <2>3 DEF BlendOf, W
<1>17. CASE n # 1 /\ s.weight = 0
  <2>1. m = Absent
    BY <1>7, <1>12, <1>15, <1>17
  <2> QED  BY <1>13, <1>14, <1>15, <1>17, <2>1 DEF BlendOf, W
<1>18. CASE n # 1 /\ s.weight # 0
  <2>1. PICK t, o, g \in Int : s = [total |-> t, over |-> o, weight |-> g] /\ o > 0 /\ g > 0
    BY <1>13, <1>18 DEF TallyOK, Tally
  <2>2. m = <<t, o * g>>
    BY <1>7, <1>12, <1>15, <1>18, <2>1
  <2>3. o * g \in Int /\ o * g > 0
    <3>1. 0 \in Int /\ 0 <= o /\ 0 < o
      BY <2>1
    <3>2. 0 * g + g <= o * g /\ o * g \in Int
      BY ONLY <2>1, <3>1, StepsOf
    <3> QED  BY ONLY <2>1, <3>2
  <2>4. Pair(m) /\ m[1] = t /\ m[2] = o * g
    BY <2>1, <2>2, <2>3 DEF Pair
  <2>5. ASSUME NEW lo \in Int, NEW hi \in Int, \A w \in W : parts[w].v # Absent => Lies(parts[w].v, lo, hi)
        PROVE  Lies(m, lo, hi)
    <3>1. \A k \in 1 .. n : q[k].v # Absent => Lies(q[k].v, lo, hi)
      BY <1>5, <2>5
    <3>2. TallyLies(s, lo, hi)
      BY <1>3, <1>5, <1>11, <1>12, <3>1, TalliesLie
    <3>3. s.total = t /\ s.over = o /\ s.weight = g
      BY ONLY <2>1
    <3> QED  BY ONLY <2>4, <3>2, <3>3 DEF Lies, TallyLies
  <2>6. ~\A w \in W : parts[w].v = Absent
    BY <1>13, <1>14, <1>18
  <2> QED  BY <1>15, <2>4, <2>5, <2>6 DEF BlendOf, W
<1> QED  BY <1>16, <1>17, <1>18

-----------------------------------------------------------------------------
(***************************************************************************)
(* The order the cells are painted in, and the heads of a Map's keys.      *)
(***************************************************************************)

\* fs draws the cells of drawn, once each, the silent ones first.
DrawnInTurn(fs, n, order, cells, drawn) ==
  /\ GoesThrough(drawn, n, order) /\ DOMAIN fs = 1 .. n
  /\ \A k \in 1 .. n : fs[k] = cells[order[k]]
  /\ \A i, j \in 1 .. n : i < j /\ fs[j].mean = Absent => fs[i].mean = Absent
LEMMA OrderedIs ==
  ASSUME NEW drawn, IsFiniteSet(drawn), drawn \subseteq Int, NEW cells
  PROVE  \E n, order : DrawnInTurn(Ordered(cells, drawn), n, order, cells, drawn)
<1>1. PICK S, R : S = {k \in drawn : cells[k].mean = Absent} /\ R = drawn \ S
  OBVIOUS
<1>2. S \in SUBSET drawn /\ R \in SUBSET drawn /\ S \cap R = {} /\ S \cup R = drawn
  BY <1>1
<1>3. IsFiniteSet(S) /\ IsFiniteSet(R) /\ S \subseteq Int /\ R \subseteq Int
  BY <1>2, FS_Subset
<1>4. PICK f, g : f = Ascending(S) /\ g = Ascending(R)
  OBVIOUS
<1>5. Climbs(S, f) /\ Climbs(R, g)
  BY <1>3, <1>4, AscendingClimbs
<1>6. PICK a, b \in Nat : a = Cardinality(S) /\ b = Cardinality(R)
  BY <1>3, FS_CardinalityType
<1>7. /\ f \in [1 .. a -> S] /\ (\A i, j \in 1 .. a : i < j => f[i] < f[j])
      /\ \A x \in S : \E i \in 1 .. a : f[i] = x
  BY <1>5, <1>6 DEF Climbs
<1>8. /\ g \in [1 .. b -> R] /\ (\A i, j \in 1 .. b : i < j => g[i] < g[j])
      /\ \A x \in R : \E i \in 1 .. b : g[i] = x
  BY <1>5, <1>6 DEF Climbs
<1>9. Len(f) = a /\ Len(g) = b /\ f \in Seq(S) /\ g \in Seq(R)
  BY <1>5, <1>6, ClimbsLen
<1>10. PICK n \in Nat : n = a + b
  OBVIOUS
<1>11. PICK order : order = f \o g
  OBVIOUS
<1>12. /\ order \in Seq(drawn) /\ DOMAIN order = 1 .. n /\ Len(order) = n
       /\ \A i \in 1 .. n : order[i] = IF i <= a THEN f[i] ELSE g[i - a]
  <2>1. f \in Seq(drawn) /\ g \in Seq(drawn)
    BY ONLY <1>2, <1>9
  <2>2. /\ f \o g \in Seq(drawn) /\ Len(f \o g) = Len(f) + Len(g)
        /\ \A i \in 1 .. Len(f) + Len(g) : (f \o g)[i] = IF i <= Len(f) THEN f[i] ELSE g[i - Len(f)]
    BY ONLY <2>1
  <2>3. Len(f) = a /\ Len(g) = b /\ Len(f) + Len(g) = n
    BY ONLY <1>9, <1>10
  <2>4. DOMAIN (f \o g) = 1 .. Len(f \o g)
    BY ONLY <2>2
  <2> QED  BY ONLY <1>11, <2>2, <2>3, <2>4
<1>13. n = Cardinality(drawn)
  <2>1. Cardinality(S \cup R) = Cardinality(S) + Cardinality(R) - Cardinality(S \cap R)
    BY <1>3, FS_Union
  <2>2. Cardinality(S \cap R) = 0
    BY <1>2, FS_EmptySet
  <2>3. Cardinality(S) = a /\ Cardinality(R) = b /\ S \cup R = drawn /\ a \in Int /\ b \in Int
    BY <1>2, <1>6
  <2> QED  BY ONLY <1>10, <2>1, <2>2, <2>3
<1>14. \A i \in 1 .. n : \/ i \in 1 .. a /\ order[i] = f[i] /\ order[i] \in S
                         \/ i > a /\ i - a \in 1 .. b /\ order[i] = g[i - a] /\ order[i] \in R
  <2> SUFFICES ASSUME NEW i \in 1 .. n
               PROVE  \/ i \in 1 .. a /\ order[i] = f[i] /\ order[i] \in S
                      \/ i > a /\ i - a \in 1 .. b /\ order[i] = g[i - a] /\ order[i] \in R
    OBVIOUS
  <2>1. i \in 1 .. a \/ (i > a /\ i - a \in 1 .. b /\ ~(i <= a))
    BY <1>6, <1>10
  <2> QED  BY <1>7, <1>8, <1>12, <2>1
<1>15. order \in [1 .. n -> drawn]
  <2>1. \A i \in 1 .. n : order[i] \in drawn
    BY <1>2, <1>14
  <2>2. DOMAIN order = 1 .. n /\ order = [i \in DOMAIN order |-> order[i]]
    BY ONLY <1>12
  <2> QED  BY <2>1, <2>2
<1>16. Apart(n, order)
  <2> SUFFICES ASSUME NEW i \in 1 .. n, NEW j \in 1 .. n, i < j PROVE order[i] # order[j]
    BY DEF Apart
  <2>1. CASE i \in 1 .. a /\ j \in 1 .. a
    <3>0. i <= a /\ j <= a
      BY <1>6, <2>1
    <3>1. order[i] = f[i] /\ order[j] = f[j] /\ f[i] < f[j] /\ f[i] \in Int /\ f[j] \in Int
      BY <1>3, <1>7, <1>12, <2>1, <3>0
    <3> QED  BY <3>1
  <2>2. CASE i > a
    <3>1. order[i] = g[i - a] /\ order[j] = g[j - a] /\ i - a \in 1 .. b /\ j - a \in 1 .. b /\ i - a < j - a
      BY <1>6, <1>14, <2>2
    <3>2. g[i - a] < g[j - a] /\ g[i - a] \in Int /\ g[j - a] \in Int
      BY <1>3, <1>8, <3>1
    <3> QED  BY <3>1, <3>2
  <2>3. CASE i \in 1 .. a /\ j > a
    <3>1. i <= a /\ ~(j \in 1 .. a) /\ ~(i > a)
      BY <1>6, <2>3
    <3>2. order[i] \in S /\ order[j] \in R
      BY <1>14, <2>3, <3>1
    <3> QED  BY <1>2, <3>2
  <2>4. (i \in 1 .. a \/ i > a) /\ (j \in 1 .. a \/ j > a)
    BY <1>14
  <2> QED  BY <2>1, <2>2, <2>3, <2>4
<1>17. ASSUME NEW x \in drawn PROVE \E i \in 1 .. n : order[i] = x
  <2>1. CASE x \in S
    <3>1. PICK i \in 1 .. a : f[i] = x
      BY <1>7, <2>1
    <3>2. i \in 1 .. n /\ order[i] = f[i]
      BY <1>6, <1>10, <1>12
    <3> QED  BY <3>1, <3>2
  <2>2. CASE x \in R
    <3>1. PICK i \in 1 .. b : g[i] = x
      BY <1>8, <2>2
    <3>2. i + a \in 1 .. n /\ ~(i + a <= a) /\ (i + a) - a = i
      BY <1>6, <1>10
    <3>3. order[i + a] = g[i]
      BY <1>12, <3>2
    <3> QED  BY <3>1, <3>2, <3>3
  <2> QED  BY <1>2, <2>1, <2>2
<1>18. PICK fs : fs = Ordered(cells, drawn)
  OBVIOUS
<1>19. fs = [k \in DOMAIN order |-> cells[order[k]]]
  BY <1>1, <1>4, <1>11, <1>18 DEF Ordered
<1>20. DOMAIN fs = 1 .. n /\ \A k \in 1 .. n : fs[k] = cells[order[k]]
  BY <1>12, <1>19
<1>21. ASSUME NEW i \in 1 .. n, NEW j \in 1 .. n, i < j, fs[j].mean = Absent PROVE fs[i].mean = Absent
  <2>1. cells[order[j]].mean = Absent /\ order[j] \in drawn
    BY <1>15, <1>20, <1>21
  <2>2. order[j] \in S
    BY <1>1, <2>1
  <2>3. j \in 1 .. a
    BY <1>2, <1>14, <2>2
  <2>4. i \in 1 .. a
    BY <1>21, <2>3
  <2>5. order[i] \in S
    BY <1>6, <1>14, <2>4
  <2> QED  BY <1>1, <1>20, <2>5
<1>22. GoesThrough(drawn, n, order)
  BY <1>10, <1>13, <1>15, <1>16, <1>17 DEF GoesThrough
<1> QED  BY <1>18, <1>20, <1>21, <1>22 DEF DrawnInTurn

\* One head for every key.
Heads(T, key, H, f) ==
  /\ H \subseteq T /\ GoesThrough(H, Cardinality(H), f) /\ IsFiniteSet(H)
  /\ \A i \in T : \E h \in H : key[h] = key[i]
  /\ \A g, h \in H : key[g] = key[h] => g = h
LEMMA FirstOfIs ==
  ASSUME NEW T, IsFiniteSet(T), T \subseteq Nat, NEW key
  PROVE  \E H : Heads(T, key, H, FirstOf(T, key))
<1>1. PICK H : H = {i \in T : \A j \in T : j < i => key[j] # key[i]}
  OBVIOUS
<1>2. H \in SUBSET T /\ IsFiniteSet(H) /\ H \subseteq Int
  <2>1. H \in SUBSET T
    BY <1>1
  <2>2. IsFiniteSet(H)
    BY <2>1, FS_Subset
  <2> QED  BY <2>1, <2>2
<1>3. PICK f : f = FirstOf(T, key)
  OBVIOUS
<1>4. Climbs(H, f)
  BY <1>1, <1>2, <1>3, AscendingClimbs DEF FirstOf
<1>5. PICK n \in Nat : n = Cardinality(H)
  BY <1>2, FS_CardinalityType
<1>6. /\ f \in [1 .. n -> H] /\ (\A i, j \in 1 .. n : i < j => f[i] < f[j])
      /\ \A x \in H : \E i \in 1 .. n : f[i] = x
  BY <1>4, <1>5 DEF Climbs
<1>7. Apart(n, f)
  <2> SUFFICES ASSUME NEW i \in 1 .. n, NEW j \in 1 .. n, i < j PROVE f[i] # f[j]
    BY DEF Apart
  <2>1. f[i] < f[j] /\ f[i] \in Int /\ f[j] \in Int
    BY <1>2, <1>6
  <2> QED  BY <2>1
<1>8. ASSUME NEW i \in T PROVE \E h \in H : key[h] = key[i]
  <2>1. PICK S : S = {j \in T : key[j] = key[i]}
    OBVIOUS
  <2>2. S \subseteq Nat /\ S # {}
    BY <2>1
  <2>3. PICK h \in S : \A y \in S : h <= y
    BY <2>2, LeastNat
  <2>4. h \in T /\ key[h] = key[i]
    BY <2>1, <2>3
  <2>5. \A j \in T : j < h => key[j] # key[h]
    BY <2>1, <2>3, <2>4
  <2> QED  BY <1>1, <2>4, <2>5
<1>9. \A g, h \in H : key[g] = key[h] => g = h
  BY <1>1
<1> QED  BY ZenonT(60), <1>2, <1>3, <1>5, <1>6, <1>7, <1>8, <1>9 DEF Heads, GoesThrough

-----------------------------------------------------------------------------
(***************************************************************************)
(* The cells drawn, in either tier.                                        *)
(***************************************************************************)

\* p takes devices of T, no two under the same key.
KeysApart(p, N, T, key) ==
  /\ N \in Nat /\ \A k \in 1 .. N : p[k] \in T
  /\ \A i, j \in 1 .. N : key[p[i]] = key[p[j]] => i = j
\* Every key of T has its head, and one that is drawn is among p.
HeadsReached(T, key, m, f, drawn, N, p) ==
  \A x \in T : \E j \in 1 .. m : /\ key[f[j]] = key[x] /\ f[j] \in T
                                 /\ j \in drawn => \E k \in 1 .. N : p[k] = f[j]
LEMMA DrawnHeads ==
  ASSUME NEW T, NEW key, NEW H, NEW f, Heads(T, key, H, f), NEW drawn, drawn \subseteq 1 .. Cardinality(H),
         NEW N, NEW order, GoesThrough(drawn, N, order), NEW p, p = [k \in 1 .. N |-> f[order[k]]]
  PROVE  /\ KeysApart(p, N, T, key)
         /\ HeadsReached(T, key, Cardinality(H), f, drawn, N, p)
<1>1. PICK m : m = Cardinality(H)
  OBVIOUS
<1>2. m \in Nat /\ f \in [1 .. m -> H] /\ Apart(m, f) /\ (\A x \in H : \E i \in 1 .. m : f[i] = x) /\ H \subseteq T
  BY <1>1 DEF Heads, GoesThrough
<1>3. N \in Nat /\ order \in [1 .. N -> drawn] /\ Apart(N, order) /\ \A x \in drawn : \E i \in 1 .. N : order[i] = x
  BY DEF GoesThrough
<1>4. \A k \in 1 .. N : p[k] = f[order[k]] /\ order[k] \in 1 .. m /\ p[k] \in H
  BY <1>1, <1>2, <1>3
<1>5. ASSUME NEW i \in 1 .. N, NEW j \in 1 .. N, key[p[i]] = key[p[j]] PROVE i = j
  <2>1. p[i] = p[j]
    BY <1>4, <1>5 DEF Heads
  <2>2. PICK a, b \in 1 .. m : a = order[i] /\ b = order[j]
    BY <1>4
  <2>3. f[a] = f[b]
    BY <1>4, <2>1, <2>2
  <2>4. a = b
    <3>1. a < b \/ b < a \/ a = b
      BY <1>2
    <3> QED  BY <1>2, <2>3, <3>1 DEF Apart
  <2>5. i < j \/ j < i \/ i = j
    BY <1>3
  <2> QED  BY <1>3, <2>2, <2>4, <2>5 DEF Apart
<1>6. ASSUME NEW x \in T
      PROVE  \E j \in 1 .. m : /\ key[f[j]] = key[x] /\ f[j] \in T
                               /\ j \in drawn => \E k \in 1 .. N : p[k] = f[j]
  <2>1. PICK h \in H : key[h] = key[x]
    BY DEF Heads
  <2>2. PICK j \in 1 .. m : f[j] = h
    BY <1>2
  <2>3. j \in drawn => \E k \in 1 .. N : p[k] = f[j]
    BY <1>3, <1>4
  <2> QED  BY <1>2, <2>1, <2>2, <2>3
<1>7. HeadsReached(T, key, m, f, drawn, N, p)
  BY ONLY <1>6 DEF HeadsReached
<1> QED  BY <1>1, <1>2, <1>3, <1>4, <1>5, <1>7 DEF KeysApart

\* The devices of W, by the head they stand under.
UnderHeads(B, p, N, W, key) ==
  /\ \A x \in W : \E k \in 1 .. N : key[p[k]] = key[x]
  /\ \A k \in 1 .. N : B[k] = {x \in W : key[x] = key[p[k]]}
LEMMA HeadBlocks ==
  ASSUME NEW p, NEW N, NEW T, NEW key, KeysApart(p, N, T, key), NEW W, IsFiniteSet(W),
         NEW B, UnderHeads(B, p, N, W, key)
  PROVE  Blocks(1 .. N, B, W)
<1>1. N \in Nat
  BY DEF KeysApart
<1>2. IsFiniteSet(1 .. N)
  BY ONLY <1>1, FS_Interval
<1>3. \A g, h \in 1 .. N : g # h => B[g] \cap B[h] = {}
  BY DEF KeysApart, UnderHeads
<1>4. (\A k \in 1 .. N : B[k] \subseteq W) /\ \A x \in W : \E k \in 1 .. N : x \in B[k]
  BY DEF UnderHeads
<1> QED  BY <1>2, <1>3, <1>4 DEF Blocks

UnderOf(ds, ticks, points, f) ==
  {i \in DOMAIN ds : /\ ds[i].spot = f.spot /\ ds[i].network \in ticks
                     /\ points => ds[i].network = f.network}
Ticked(ds, ticks) == {i \in DOMAIN ds : ds[i].network \in ticks}
TellsDevices(fs, ds, ticks, points) ==
  /\ SumFunction([k \in DOMAIN fs |-> fs[k].n]) = Cardinality(Ticked(ds, ticks))
  /\ \A i, j \in DOMAIN fs : i < j /\ fs[j].mean = Absent => fs[i].mean = Absent
  /\ \A k \in DOMAIN fs : points \/ ~fs[k].blend => MeanOf(fs[k].mean, ds, UnderOf(ds, ticks, points, fs[k]))

LEMMA TickedAre ==
  ASSUME NEW ds, NEW n, DevicesOf(ds, n), NEW ticks
  PROVE  /\ Ticked(ds, ticks) \subseteq 1 .. n /\ IsFiniteSet(Ticked(ds, ticks)) /\ DOMAIN ds = 1 .. n
         /\ IsFiniteSet(1 .. n) /\ n \in Nat
<1>1. n \in Nat /\ DOMAIN ds = 1 .. n
  BY DEF DevicesOf
<1>2. IsFiniteSet(1 .. n)
  BY <1>1, FS_Interval
<1>3. PICK D, W : D = 1 .. n /\ W = Ticked(ds, ticks)
  OBVIOUS
<1>4. W \in SUBSET D /\ IsFiniteSet(D)
  BY <1>1, <1>2, <1>3 DEF Ticked
<1>5. IsFiniteSet(W)
  BY <1>4, FS_Subset
<1> QED  BY <1>1, <1>2, <1>3, <1>4, <1>5

\* The point tier.
LEMMA PointsTell ==
  ASSUME NEW ds, NEW n, DevicesOf(ds, n), NEW ticks, NEW fs, fs = hexFeatures(ds, TRUE, ticks)
  PROVE  TellsDevices(fs, ds, ticks, TRUE)
<1>1. PICK T, key : T = Ticked(ds, ticks) /\ key = [i \in T |-> <<ds[i].spot, ds[i].network>>]
  OBVIOUS
<1>2. T \subseteq 1 .. n /\ IsFiniteSet(T) /\ DOMAIN ds = 1 .. n /\ n \in Nat /\ T \subseteq Nat
  BY <1>1, TickedAre
<1>3. PICK heads : heads = FirstOf(T, key)
  OBVIOUS
<1>4. PICK H : Heads(T, key, H, heads)
  BY <1>2, <1>3, FirstOfIs
<1>5. PICK m \in Nat : m = Cardinality(H) /\ DOMAIN heads = 1 .. m
  BY <1>4 DEF Heads, GoesThrough
<1>6. PICK cells : cells = snapToLattice(ds, T)
  OBVIOUS
<1> DEFINE On(h) == T \cap StandAt(ds, ds[h].spot, ds[h].network)
<1>7. cells = [k \in 1 .. m |->
                 [spot |-> ds[heads[k]].spot, network |-> ds[heads[k]].network,
                  n |-> Cardinality(On(heads[k])), mean |-> Mean(ds, On(heads[k]))]]
  BY <1>1, <1>3, <1>5, <1>6 DEF snapToLattice
<1>8. DOMAIN cells = 1 .. m
  BY <1>7
<1>9. fs = Ordered(cells, 1 .. m)
  BY <1>1, <1>6, <1>8 DEF hexFeatures, Ticked
<1>10. IsFiniteSet(1 .. m) /\ 1 .. m \subseteq Int
  BY <1>5, FS_Interval
<1>11. PICK N, order : DrawnInTurn(fs, N, order, cells, 1 .. m)
  BY <1>9, <1>10, OrderedIs
<1>12. PICK p : p = [k \in 1 .. N |-> heads[order[k]]]
  OBVIOUS
<1>13. /\ KeysApart(p, N, T, key)
       /\ \A x \in T : \E j \in 1 .. m : /\ key[heads[j]] = key[x] /\ heads[j] \in T
                                         /\ j \in 1 .. m => \E k \in 1 .. N : p[k] = heads[j]
  <2>1. PICK drawn : drawn = 1 .. m
    OBVIOUS
  <2>2. GoesThrough(drawn, N, order) /\ drawn \subseteq 1 .. Cardinality(H)
    BY <1>5, <1>11, <2>1 DEF DrawnInTurn
  <2>3. KeysApart(p, N, T, key) /\ HeadsReached(T, key, Cardinality(H), heads, drawn, N, p)
    BY ONLY <1>4, <1>12, <2>2, DrawnHeads
  <2> QED  BY ONLY <1>5, <2>1, <2>3 DEF HeadsReached
<1>14. PICK B : B = [k \in 1 .. N |-> On(p[k])]
  OBVIOUS
<1>15. \A k \in 1 .. N : B[k] = {x \in T : key[x] = key[p[k]]}
  <2> SUFFICES ASSUME NEW k \in 1 .. N PROVE On(p[k]) = {x \in T : key[x] = key[p[k]]}
    BY <1>14
  <2>1. p[k] \in T
    BY <1>13 DEF KeysApart
  <2> QED  BY <1>1, <1>2, <2>1 DEF StandAt
<1>16. \A x \in T : \E k \in 1 .. N : key[p[k]] = key[x]
  BY <1>13
<1>17. Blocks(1 .. N, B, T)
  <2>1. UnderHeads(B, p, N, T, key)
    BY ONLY <1>15, <1>16 DEF UnderHeads
  <2> QED  BY <1>2, <1>13, <2>1, HeadBlocks
<1>18. \A k \in 1 .. N : /\ order[k] \in 1 .. m /\ fs[k] = cells[order[k]] /\ p[k] = heads[order[k]]
  BY <1>11, <1>12 DEF DrawnInTurn, GoesThrough
<1>19. DOMAIN fs = 1 .. N /\ \A i, j \in 1 .. N : i < j /\ fs[j].mean = Absent => fs[i].mean = Absent
  BY <1>11 DEF DrawnInTurn
<1> HIDE DEF On
<1>20. \A k \in 1 .. N : /\ fs[k].spot = ds[p[k]].spot /\ fs[k].network = ds[p[k]].network
                         /\ fs[k].n = Cardinality(B[k]) /\ fs[k].mean = Mean(ds, B[k])
  <2> SUFFICES ASSUME NEW k \in 1 .. N
               PROVE  /\ fs[k].spot = ds[p[k]].spot /\ fs[k].network = ds[p[k]].network
                      /\ fs[k].n = Cardinality(B[k]) /\ fs[k].mean = Mean(ds, B[k])
    OBVIOUS
  <2>1. PICK j \in 1 .. m : j = order[k] /\ fs[k] = cells[j] /\ p[k] = heads[j]
    BY <1>18
  <2>2. PICK h : h = heads[j]
    OBVIOUS
  <2>3. cells[j] = [spot |-> ds[h].spot, network |-> ds[h].network,
                    n |-> Cardinality(On(h)), mean |-> Mean(ds, On(h))]
    BY <1>7, <2>2
  <2>4. PICK S : S = On(h)
    OBVIOUS
  <2>5. B[k] = S /\ p[k] = h /\ fs[k] = [spot |-> ds[h].spot, network |-> ds[h].network,
                                         n |-> Cardinality(S), mean |-> Mean(ds, S)]
    BY <1>14, <2>1, <2>2, <2>3, <2>4
  <2> QED  BY ONLY <2>5
<1>21. PICK w : w = [k \in DOMAIN fs |-> fs[k].n]
  OBVIOUS
<1>22. DOMAIN w = 1 .. N /\ \A k \in 1 .. N : w[k] = Cardinality(B[k])
  BY <1>19, <1>20, <1>21
<1>23. SumFunction(w) = Cardinality(T)
  <2>1. PICK D : D = 1 .. N
    OBVIOUS
  <2>2. Blocks(D, B, T) /\ DOMAIN w = D /\ \A k \in D : w[k] = Cardinality(B[k])
    BY <1>17, <1>22, <2>1
  <2> QED  BY ONLY <2>2, BlocksCount
<1>24. ASSUME NEW k \in 1 .. N PROVE MeanOf(fs[k].mean, ds, UnderOf(ds, ticks, TRUE, fs[k]))
  <2>1. PICK U : U = B[k]
    OBVIOUS
  <2>2. U = UnderOf(ds, ticks, TRUE, fs[k])
    BY <1>1, <1>14, <1>20, <2>1 DEF On, UnderOf, StandAt, Ticked
  <2>3. U \subseteq 1 .. n
    BY <1>2, <1>15, <2>1
  <2>4. MeanOf(Mean(ds, U), ds, U)
    BY <2>3, MeanIs
  <2> QED  BY <1>20, <2>1, <2>2, <2>4
<1> QED  BY <1>1, <1>19, <1>21, <1>23, <1>24 DEF TellsDevices

\* One bin, as the tick boxes leave it.
BinParts(ds, s) == [w \in {w \in Networks : StandAt(ds, s, w) # {}} |->
                      [n |-> Cardinality(StandAt(ds, s, w)), v |-> Mean(ds, StandAt(ds, s, w))]]
Picked(cell, ds, s, U) ==
  /\ cell.spot = s /\ cell.n = Cardinality(U) /\ (cell.hole <=> U = {})
  /\ U # {} => MeanOf(cell.mean, ds, U)
LEMMA PickIs ==
  ASSUME NEW ds, NEW n, DevicesOf(ds, n), NEW s, NEW ticks, NEW bin, bin = [spot |-> s, parts |-> BinParts(ds, s)],
         NEW cell, cell = pickCell(bin, ticks),
         NEW U, U = {i \in 1 .. n : ds[i].spot = s /\ ds[i].network \in ticks}
  PROVE  Picked(cell, ds, s, U)
<1>1. PICK parts, there : parts = BinParts(ds, s) /\ there = DOMAIN parts \cap ticks
  OBVIOUS
<1>2. PICK kept : kept = [w \in there |-> parts[w]]
  OBVIOUS
<1>3. PICK c : c = [w \in there |-> parts[w].n]
  OBVIOUS
<1>4. /\ cell.spot = s /\ cell.hole = (there = {}) /\ cell.n = SumFunction(c)
      /\ cell.mean = IF there = {} THEN Absent ELSE combine(kept)
  BY <1>1, <1>2, <1>3 DEF pickCell
<1>5. \A w : w \in there <=> w \in Networks /\ w \in ticks /\ StandAt(ds, s, w) # {}
  BY <1>1 DEF BinParts
<1>6. \A w \in there : parts[w] = [n |-> Cardinality(StandAt(ds, s, w)), v |-> Mean(ds, StandAt(ds, s, w))]
  BY <1>1, <1>5 DEF BinParts
<1>7. PICK B : B = [w \in there |-> StandAt(ds, s, w)]
  OBVIOUS
<1>8. DOMAIN ds = 1 .. n
  BY DEF DevicesOf
<1>9. \A w \in there : B[w] = {i \in 1 .. n : ds[i].spot = s /\ ds[i].network = w} /\ B[w] # {}
  BY <1>5, <1>7, <1>8 DEF StandAt
<1>10. \A i \in U : ds[i].network \in there /\ i \in B[ds[i].network]
  <2> SUFFICES ASSUME NEW i \in U PROVE ds[i].network \in there /\ i \in B[ds[i].network]
    OBVIOUS
  <2>1. ds[i].network \in Networks /\ i \in StandAt(ds, s, ds[i].network) /\ ds[i].network \in ticks
    BY <1>8, DeviceIs DEF StandAt
  <2> QED  BY <1>5, <1>7, <2>1
<1>11. IsFiniteSet(U) /\ IsFiniteSet(there)
  <2>1. IsFiniteSet(Networks) /\ there \in SUBSET Networks
    BY <1>5, CellsAssumption
  <2>2. IsFiniteSet(there)
    BY <2>1, FS_Subset
  <2>3. PICK D : D = 1 .. n
    OBVIOUS
  <2>4. IsFiniteSet(D) /\ U \in SUBSET D
    BY <2>3, TickedAre
  <2>5. IsFiniteSet(U)
    BY <2>4, FS_Subset
  <2> QED  BY <2>2, <2>5
<1>12. Blocks(there, B, U)
  <2>1. \A w \in there : B[w] \subseteq U
    BY <1>5, <1>9
  <2>2. \A g, h \in there : g # h => B[g] \cap B[h] = {}
    BY <1>9
  <2> QED  BY <1>10, <1>11, <2>1, <2>2 DEF Blocks
<1>13. DOMAIN c = there /\ \A w \in there : c[w] = Cardinality(B[w])
  <2>1. \A w \in there : parts[w].n = Cardinality(B[w])
    <3> SUFFICES ASSUME NEW w \in there PROVE parts[w].n = Cardinality(B[w])
      OBVIOUS
    <3>1. PICK S : S = StandAt(ds, s, w)
      OBVIOUS
    <3>2. parts[w] = [n |-> Cardinality(S), v |-> Mean(ds, S)] /\ B[w] = S
      BY <1>6, <1>7, <3>1
    <3> QED  BY <3>2
  <2> QED  BY <1>3, <2>1
<1>14. cell.n = Cardinality(U)
  BY <1>4, <1>12, <1>13, BlocksCount
<1>15. there = {} <=> U = {}
  BY <1>9, <1>10, <1>12 DEF Blocks
<1>16. ASSUME U # {} PROVE MeanOf(cell.mean, ds, U)
  <2>1. DOMAIN kept = there
    BY <1>2
  <2>2. ASSUME NEW w \in there
        PROVE  kept[w].v = Mean(ds, B[w]) /\ MeanOf(kept[w].v, ds, B[w]) /\ PartOf(kept[w])
    <3>2. PICK S : S = B[w]
      OBVIOUS
    <3>1. kept[w].n = Cardinality(B[w]) /\ kept[w].v = Mean(ds, B[w])
      <4>1. parts[w] = [n |-> Cardinality(S), v |-> Mean(ds, S)] /\ kept[w] = parts[w]
        BY <1>2, <1>6, <1>7, <3>2
      <4> QED  BY <3>2, <4>1
    <3>3. S \subseteq 1 .. n /\ S # {} /\ S \in SUBSET U
      BY <1>9, <1>12, <3>2 DEF Blocks
    <3>4. MeanOf(Mean(ds, S), ds, S)
      BY <3>3, MeanIs
    <3>5. Cardinality(S) \in Nat /\ (Cardinality(S) = 0 <=> S = {})
      BY <1>11, <3>3, FS_Subset, FS_CardinalityType, FS_EmptySet
    <3>6. Cardinality(S) > 0
      <4>1. Cardinality(S) # 0
        BY <3>3, <3>5
      <4> QED  BY ONLY <3>5, <4>1
    <3>7. Mean(ds, S) # Absent => Pair(Mean(ds, S))
      BY <3>4 DEF MeanOf
    <3> QED  BY <3>1, <3>2, <3>4, <3>5, <3>6, <3>7 DEF PartOf
  <2>3. BlendOf(combine(kept), kept)
    BY <1>11, <2>1, <2>2, CombineIs
  <2>4. PICK m : m = combine(kept)
    OBVIOUS
  <2>5. cell.mean = m
    BY <1>4, <1>15, <1>16, <2>4
  <2>6. ASSUME NEW w \in there
        PROVE  kept[w].v = Absent <=> \A i \in B[w] : ds[i].v = Absent
    <3>1. MeanOf(kept[w].v, ds, B[w])
      BY <2>2
    <3>2. ~Pair(Absent)
      BY CellsAssumption DEF Pair
    <3> QED  BY <3>1, <3>2 DEF MeanOf
  <2>7. (\A w \in there : kept[w].v = Absent) <=> (\A i \in U : ds[i].v = Absent)
    BY <1>10, <1>12, <2>6 DEF Blocks
  <2>8. CASE \A i \in U : ds[i].v = Absent
    BY <2>1, <2>3, <2>4, <2>5, <2>7, <2>8 DEF BlendOf, MeanOf
  <2>9. CASE ~\A i \in U : ds[i].v = Absent
    <3>1. Pair(m) /\ \A lo, hi \in Int :
            (\A w \in there : kept[w].v # Absent => Lies(kept[w].v, lo, hi)) => Lies(m, lo, hi)
      BY <2>1, <2>3, <2>4, <2>7, <2>9 DEF BlendOf
    <3>2. ASSUME NEW lo \in Int, NEW hi \in Int, ReadBetween(ds, U, lo, hi) PROVE Lies(m, lo, hi)
      <4>1. ASSUME NEW w \in there, kept[w].v # Absent PROVE Lies(kept[w].v, lo, hi)
        <5>1. ReadBetween(ds, B[w], lo, hi)
          BY <1>12, <3>2 DEF Blocks, ReadBetween
        <5>2. MeanOf(kept[w].v, ds, B[w])
          BY <2>2
        <5> QED  BY <4>1, <5>1, <5>2 DEF MeanOf
      <4> QED  BY <3>1, <4>1
    <3> QED  BY <2>5, <2>9, <3>1, <3>2 DEF MeanOf
  <2> QED  BY <2>8, <2>9
<1> QED  BY <1>4, <1>14, <1>15, <1>16 DEF Picked

\* The aggregate tiers.
LEMMA BinsTell ==
  ASSUME NEW ds, NEW n, DevicesOf(ds, n), NEW ticks, NEW fs, fs = hexFeatures(ds, FALSE, ticks)
  PROVE  TellsDevices(fs, ds, ticks, FALSE)
<1>1. PICK D, W, key : D = 1 .. n /\ W = Ticked(ds, ticks) /\ key = [i \in D |-> ds[i].spot]
  OBVIOUS
<1>2. W \subseteq D /\ IsFiniteSet(W) /\ IsFiniteSet(D) /\ DOMAIN ds = D /\ n \in Nat /\ D \subseteq Nat
  BY <1>1, TickedAre
<1>3. PICK heads : heads = FirstOf(D, key)
  OBVIOUS
<1>4. PICK H : Heads(D, key, H, heads)
  BY <1>2, <1>3, FirstOfIs
<1>5. PICK m \in Nat : m = Cardinality(H) /\ DOMAIN heads = 1 .. m
  BY <1>4 DEF Heads, GoesThrough
<1>6. PICK bins : bins = Bins(ds)
  OBVIOUS
<1>7. bins = [k \in 1 .. m |-> [spot |-> ds[heads[k]].spot, parts |-> BinParts(ds, ds[heads[k]].spot)]]
  BY <1>1, <1>2, <1>3, <1>5, <1>6 DEF Bins, BinParts
<1>8. PICK picked : picked = [k \in 1 .. m |-> pickCell(bins[k], ticks)]
  OBVIOUS
<1>9. PICK drawn : drawn = {k \in 1 .. m : ~picked[k].hole}
  OBVIOUS
<1>10. fs = Ordered(picked, drawn)
  <2>1. DOMAIN bins = 1 .. m /\ DOMAIN picked = 1 .. m
    BY <1>7, <1>8
  <2>2. hexFeatures(ds, FALSE, ticks) =
          LET c == [k \in DOMAIN bins |-> pickCell(bins[k], ticks)] IN Ordered(c, {k \in DOMAIN c : ~c[k].hole})
    BY <1>6 DEF hexFeatures
  <2>3. picked = [k \in DOMAIN bins |-> pickCell(bins[k], ticks)] /\ drawn = {k \in DOMAIN picked : ~picked[k].hole}
    BY ONLY <1>8, <1>9, <2>1
  <2> QED  BY ONLY <2>2, <2>3, fs = hexFeatures(ds, FALSE, ticks)
<1>11. IsFiniteSet(drawn) /\ drawn \subseteq Int /\ drawn \subseteq 1 .. m
  <2>1. IsFiniteSet(1 .. m)
    BY <1>5, FS_Interval
  <2>2. PICK M : M = 1 .. m
    OBVIOUS
  <2>3. drawn \in SUBSET M /\ IsFiniteSet(M)
    BY <1>9, <2>1, <2>2
  <2>4. IsFiniteSet(drawn)
    BY ONLY <2>3, FS_Subset
  <2> QED  BY <1>9, <2>4
<1>12. PICK N, order : DrawnInTurn(fs, N, order, picked, drawn)
  BY <1>10, <1>11, OrderedIs
<1>13. PICK p : p = [k \in 1 .. N |-> heads[order[k]]]
  OBVIOUS
<1>14. KeysApart(p, N, D, key) /\ HeadsReached(D, key, m, heads, drawn, N, p)
  <2>1. GoesThrough(drawn, N, order) /\ drawn \subseteq 1 .. Cardinality(H)
    BY <1>5, <1>11, <1>12 DEF DrawnInTurn
  <2>2. KeysApart(p, N, D, key) /\ HeadsReached(D, key, Cardinality(H), heads, drawn, N, p)
    BY ONLY <1>4, <1>13, <2>1, DrawnHeads
  <2> QED  BY ONLY <1>5, <2>2
<1> DEFINE U(s) == {i \in D : ds[i].spot = s /\ ds[i].network \in ticks}
<1>15. \A j \in 1 .. m : /\ picked[j].spot = ds[heads[j]].spot
                         /\ picked[j].n = Cardinality(U(ds[heads[j]].spot))
                         /\ picked[j].hole <=> U(ds[heads[j]].spot) = {}
                         /\ U(ds[heads[j]].spot) # {} => MeanOf(picked[j].mean, ds, U(ds[heads[j]].spot))
  <2> SUFFICES ASSUME NEW j \in 1 .. m
               PROVE  /\ picked[j].spot = ds[heads[j]].spot
                      /\ picked[j].n = Cardinality(U(ds[heads[j]].spot))
                      /\ picked[j].hole <=> U(ds[heads[j]].spot) = {}
                      /\ U(ds[heads[j]].spot) # {} => MeanOf(picked[j].mean, ds, U(ds[heads[j]].spot))
    OBVIOUS
  <2>1. PICK s, bin, cell, S : s = ds[heads[j]].spot /\ bin = bins[j] /\ cell = picked[j] /\ S = U(s)
    OBVIOUS
  <2>2. bin = [spot |-> s, parts |-> BinParts(ds, s)] /\ cell = pickCell(bin, ticks)
    BY <1>7, <1>8, <2>1
  <2>3. S = {i \in 1 .. n : ds[i].spot = s /\ ds[i].network \in ticks}
    BY <1>1, <2>1
  <2>4. Picked(cell, ds, s, S)
    BY ONLY DevicesOf(ds, n), <2>2, <2>3, PickIs
  <2> QED  BY <2>1, <2>4 DEF Picked
<1>16. PICK B : B = [k \in 1 .. N |-> U(ds[p[k]].spot)]
  OBVIOUS
<1>17. W = {i \in D : ds[i].network \in ticks}
  BY <1>1, <1>2 DEF Ticked
<1>18. Blocks(1 .. N, B, W)
  <2>1. \A x \in W : \E k \in 1 .. N : key[p[k]] = key[x]
    <3> SUFFICES ASSUME NEW x \in W PROVE \E k \in 1 .. N : key[p[k]] = key[x]
      OBVIOUS
    <3>1. PICK j \in 1 .. m : /\ key[heads[j]] = key[x] /\ heads[j] \in D
                              /\ j \in drawn => \E k \in 1 .. N : p[k] = heads[j]
      BY <1>2, <1>14 DEF HeadsReached
    <3>2. ds[heads[j]].spot = ds[x].spot /\ x \in U(ds[x].spot)
      BY <1>1, <1>17, <3>1
    <3>3. ~picked[j].hole
      BY <1>15, <3>2
    <3> QED  BY <1>9, <3>1, <3>3
  <2>2. \A k \in 1 .. N : B[k] = {x \in W : key[x] = key[p[k]]}
    <3> SUFFICES ASSUME NEW k \in 1 .. N PROVE U(ds[p[k]].spot) = {x \in W : key[x] = key[p[k]]}
      BY <1>16
    <3>1. p[k] \in D
      BY <1>14 DEF KeysApart
    <3> QED  BY <1>1, <1>17, <3>1
  <2>3. UnderHeads(B, p, N, W, key)
    BY ONLY <2>1, <2>2 DEF UnderHeads
  <2> QED  BY ONLY <1>2, <1>14, <2>3, HeadBlocks
<1>19. DOMAIN fs = 1 .. N /\ \A i, j \in 1 .. N : i < j /\ fs[j].mean = Absent => fs[i].mean = Absent
  BY <1>12 DEF DrawnInTurn
<1> HIDE DEF U
<1>20. \A k \in 1 .. N : /\ fs[k].spot = ds[p[k]].spot /\ fs[k].n = Cardinality(B[k])
                         /\ MeanOf(fs[k].mean, ds, B[k])
  <2> SUFFICES ASSUME NEW k \in 1 .. N
               PROVE  fs[k].spot = ds[p[k]].spot /\ fs[k].n = Cardinality(B[k]) /\ MeanOf(fs[k].mean, ds, B[k])
    OBVIOUS
  <2>1. PICK j \in 1 .. m : j = order[k] /\ fs[k] = picked[j] /\ p[k] = heads[j] /\ j \in drawn
    BY <1>11, <1>12, <1>13 DEF DrawnInTurn, GoesThrough
  <2>2. PICK S : S = U(ds[heads[j]].spot)
    OBVIOUS
  <2>3. B[k] = S
    BY <1>16, <2>1, <2>2
  <2>4. S # {} /\ picked[j].spot = ds[heads[j]].spot /\ picked[j].n = Cardinality(S) /\ MeanOf(picked[j].mean, ds, S)
    BY <1>9, <1>15, <2>1, <2>2
  <2> QED  BY ONLY <2>1, <2>3, <2>4
<1>21. PICK w : w = [k \in DOMAIN fs |-> fs[k].n]
  OBVIOUS
<1>22. DOMAIN w = 1 .. N /\ \A k \in 1 .. N : w[k] = Cardinality(B[k])
  BY <1>19, <1>20, <1>21
<1>23. SumFunction(w) = Cardinality(W)
  <2>1. PICK M : M = 1 .. N
    OBVIOUS
  <2>2. Blocks(M, B, W) /\ DOMAIN w = M /\ \A k \in M : w[k] = Cardinality(B[k])
    BY <1>18, <1>22, <2>1
  <2> QED  BY ONLY <2>2, BlocksCount
<1>24. ASSUME NEW k \in 1 .. N PROVE MeanOf(fs[k].mean, ds, UnderOf(ds, ticks, FALSE, fs[k]))
  <2>1. B[k] = UnderOf(ds, ticks, FALSE, fs[k])
    BY <1>2, <1>16, <1>20 DEF U, UnderOf
  <2> QED  BY <1>20, <2>1
<1> QED  BY <1>1, <1>19, <1>21, <1>23, <1>24 DEF TellsDevices

\* In either tier the property of the cells holds.
LEMMA HexesTell ==
  ASSUME NEW ds, NEW n, DevicesOf(ds, n), NEW ticks, NEW points \in BOOLEAN,
         NEW fs, fs = hexFeatures(ds, points, ticks)
  PROVE  TellsDevices(fs, ds, ticks, points)
<1>1. points = TRUE \/ points = FALSE
  OBVIOUS
<1> QED  BY <1>1, PointsTell, BinsTell

\* A mean lies between two of the readings under it.
LEMMA MeanBetween ==
  ASSUME NEW ds, NEW n, DevicesOf(ds, n), NEW T, T \subseteq 1 .. n, NEW m, MeanOf(m, ds, T),
         NEW said, said = {ds[i].v : i \in T} \ {Absent}
  PROVE  IF m = Absent THEN said = {} ELSE \E lo, hi \in said : m[1] \in lo * m[2] .. hi * m[2]
<1>1. ~Pair(Absent)
  BY CellsAssumption DEF Pair
<1>2. CASE \A i \in T : ds[i].v = Absent
  BY <1>2 DEF MeanOf
<1>3. CASE ~\A i \in T : ds[i].v = Absent
  <2>1. Pair(m) /\ m # Absent /\ \A lo, hi \in Int : ReadBetween(ds, T, lo, hi) => Lies(m, lo, hi)
    BY <1>1, <1>3 DEF MeanOf
  <2>2. PICK R : R = {i \in T : ds[i].v # Absent}
    OBVIOUS
  <2>3. PICK f : f = [i \in R |-> ds[i].v]
    OBVIOUS
  <2>4. said = {f[i] : i \in R} /\ DOMAIN f = R
    BY <2>2, <2>3
  <2>5. IsFiniteSet(R)
    <3>1. n \in Nat
      BY DEF DevicesOf
    <3>2. IsFiniteSet(1 .. n)
      BY ONLY <3>1, FS_Interval
    <3>3. PICK D : D = 1 .. n
      OBVIOUS
    <3>4. R \in SUBSET D /\ IsFiniteSet(D)
      BY <2>2, <3>2, <3>3
    <3> QED  BY ONLY <3>4, FS_Subset
  <2>6. IsFiniteSet(said)
    BY ONLY <2>4, <2>5, ImageFinite
  <2>7. said \subseteq Int /\ said # {}
    BY ZenonT(60), <1>3, DeviceIs
  <2>8. PICK lo, hi : Spanned(said, lo, hi)
    BY ONLY <2>6, <2>7, EndsExist
  <2>9. lo \in said /\ hi \in said /\ (\A y \in said : lo <= y /\ y <= hi) /\ lo \in Int /\ hi \in Int
    BY <2>7, <2>8 DEF Spanned
  <2>10. ReadBetween(ds, T, lo, hi)
    BY <2>9 DEF ReadBetween
  <2>11. Lies(m, lo, hi)
    BY <2>1, <2>9, <2>10
  <2>12. m[1] \in Int /\ m[2] \in Int
    BY <2>1 DEF Pair
  <2>13. lo * m[2] \in Int /\ hi * m[2] \in Int /\ lo * m[2] <= m[1] /\ m[1] <= hi * m[2]
    BY ONLY <2>9, <2>11, <2>12 DEF Lies
  <2>14. m[1] \in lo * m[2] .. hi * m[2]
    BY ONLY <2>12, <2>13
  <2> QED  BY <2>1, <2>9, <2>14
<1> QED  BY <1>2, <1>3

-----------------------------------------------------------------------------
(***************************************************************************)
(* What is drawn is what was read.                                         *)
(***************************************************************************)
LEMMA SampleOf ==
  ASSUME sample \in Samples
  PROVE  /\ sample.kind = "hexes" =>
              DevicesOf(sample.ds, SampleSize) /\ sample.points \in BOOLEAN
         /\ sample.kind = "ramp" =>
              /\ sample.bands \in [uppers : Tables, ceiling : Ceilings]
              /\ sample.v \in Int /\ sample.floor \in Int
         /\ sample.kind = "frames" =>
              Frames(sample.body, SampleSize) /\ sample.order \in [1 .. SampleSize -> 1 .. SampleSize]
         /\ sample.kind = "box" => sample.lo \in Int /\ sample.hi \in Int
<1>1. SampleSize \in Nat /\ SampleSize # 0 /\ Extent \in Nat
  BY CellsAssumption
<1>2. CASE sample \in [kind : {"hexes"}, ds : [1 .. SampleSize -> Devices], points : BOOLEAN, ticks : SUBSET Networks]
  BY <1>1, <1>2 DEF DevicesOf
<1>3. CASE sample \in [kind : {"ramp"}, bands : [uppers : Tables, ceiling : Ceilings],
                       v : -Extent .. Extent, floor : Floors]
  <2>1. Floors \subseteq Int
    BY CellsAssumption
  <2>2. /\ sample.kind = "ramp" /\ sample.bands \in [uppers : Tables, ceiling : Ceilings]
        /\ sample.v \in -Extent .. Extent /\ sample.floor \in Floors
    BY <1>3
  <2>3. sample.v \in Int
    BY ONLY <1>1, <2>2
  <2> QED  BY <2>1, <2>2, <2>3
<1>4. CASE sample \in [kind : {"frames"}, body : [1 .. SampleSize -> [Spots -> Readings \cup {Absent}]],
                       order : [1 .. SampleSize -> 1 .. SampleSize], reducedMotion : BOOLEAN]
  BY <1>1, <1>4 DEF Frames
<1>5. CASE sample \in [kind : {"box"}, lo : -Extent .. Extent, hi : -Extent .. Extent]
  BY <1>1, <1>5
<1>6. CASE sample \in [kind : {"live"}]
  BY <1>6
<1> QED  BY <1>2, <1>3, <1>4, <1>5, <1>6 DEF Samples

LEMMA HexesHold == sample \in Samples => HexesTellTheDevices
<1> SUFFICES ASSUME sample \in Samples, sample.kind = "hexes" PROVE HexesTellTheDevices
  BY DEF HexesTellTheDevices
<1>1. PICK ds, n, ticks, points : ds = sample.ds /\ n = SampleSize /\ ticks = sample.ticks /\ points = sample.points
  OBVIOUS
<1>2. DevicesOf(ds, n) /\ points \in BOOLEAN
  BY <1>1, SampleOf
<1>3. PICK fs : fs = hexFeatures(ds, points, ticks)
  OBVIOUS
<1>4. TellsDevices(fs, ds, ticks, points)
  BY ONLY <1>2, <1>3, HexesTell
<1>5. ASSUME NEW k \in DOMAIN fs, NEW under, under = UnderOf(ds, ticks, points, fs[k]), NEW m, m = fs[k].mean,
             NEW said, said = {ds[i].v : i \in under} \ {Absent}
      PROVE  \/ ~points /\ fs[k].blend
             \/ IF m = Absent THEN said = {}
                ELSE \E lo, hi \in said : m[1] \in lo * m[2] .. hi * m[2]
  <2>1. CASE points \/ ~fs[k].blend
    <3>1. MeanOf(m, ds, under)
      BY <1>4, <1>5, <2>1 DEF TellsDevices
    <3>2. under \subseteq 1 .. n
      BY <1>2, <1>5 DEF UnderOf, DevicesOf
    <3> QED  BY SMTT(60), <1>2, <1>5, <3>1, <3>2, MeanBetween
  <2>2. CASE ~points /\ fs[k].blend
    BY <2>2
  <2> QED  BY <2>1, <2>2
<1>6. \A k \in DOMAIN fs :
        LET under == UnderOf(ds, ticks, points, fs[k])
            said == {ds[i].v : i \in under} \ {Absent}
        IN IF ~points /\ fs[k].blend THEN TRUE
           ELSE IF fs[k].mean = Absent THEN said = {}
           ELSE \E lo, hi \in said : fs[k].mean[1] \in lo * fs[k].mean[2] .. hi * fs[k].mean[2]
  <2> HIDE DEF UnderOf
  <2> QED  BY <1>5
<1>7. /\ SumFunction([k \in DOMAIN fs |-> fs[k].n]) = Cardinality({i \in DOMAIN ds : ds[i].network \in ticks})
      /\ \A i, j \in DOMAIN fs : i < j /\ fs[j].mean = Absent => fs[i].mean = Absent
  BY <1>4 DEF TellsDevices, Ticked
<1>8. LET gs == hexFeatures(sample.ds, sample.points, sample.ticks)
          under(f) == UnderOf(sample.ds, sample.ticks, sample.points, f)
          said(f) == {sample.ds[i].v : i \in under(f)} \ {Absent}
      IN /\ SumFunction([k \in DOMAIN gs |-> gs[k].n])
              = Cardinality({i \in DOMAIN sample.ds : sample.ds[i].network \in sample.ticks})
         /\ \A i, j \in DOMAIN gs : i < j /\ gs[j].mean = Absent => gs[i].mean = Absent
         /\ \A i \in DOMAIN gs :
              IF ~sample.points /\ gs[i].blend THEN TRUE
              ELSE IF gs[i].mean = Absent THEN said(gs[i]) = {}
              ELSE \E lo, hi \in said(gs[i]) : gs[i].mean[1] \in lo * gs[i].mean[2] .. hi * gs[i].mean[2]
  <2>1. fs = hexFeatures(sample.ds, sample.points, sample.ticks)
    BY ONLY <1>1, <1>3
  <2>2. \A k \in DOMAIN fs :
          LET under == UnderOf(sample.ds, sample.ticks, sample.points, fs[k])
              said == {sample.ds[i].v : i \in under} \ {Absent}
          IN IF ~sample.points /\ fs[k].blend THEN TRUE
             ELSE IF fs[k].mean = Absent THEN said = {}
             ELSE \E lo, hi \in said : fs[k].mean[1] \in lo * fs[k].mean[2] .. hi * fs[k].mean[2]
    BY ONLY <1>1, <1>6
  <2>3. SumFunction([k \in DOMAIN fs |-> fs[k].n])
          = Cardinality({i \in DOMAIN sample.ds : sample.ds[i].network \in sample.ticks})
    BY ONLY <1>1, <1>7
  <2>4. \A i, j \in DOMAIN fs : i < j /\ fs[j].mean = Absent => fs[i].mean = Absent
    BY ONLY <1>7
  <2> QED  BY ONLY <2>1, <2>2, <2>3, <2>4, Zenon
<1> QED  BY <1>8, Zenon DEF HexesTellTheDevices, UnderOf

LEMMA RampHolds == sample \in Samples => MarkersBlendAsCells
<1> SUFFICES ASSUME sample \in Samples, sample.kind = "ramp" PROVE MarkersBlendAsCells
  BY DEF MarkersBlendAsCells
<1>1. PICK bands, v : bands = sample.bands /\ v = sample.v
  OBVIOUS
<1>2. bands.uppers \in Tables /\ bands.ceiling \in Ceilings /\ v \in Int
  BY <1>1, SampleOf
<1>3. PICK stops, cell : stops = rampValueStops(bands) /\ cell = rampColour(v, bands)
  OBVIOUS
<1>4. ASSUME NEW i \in 1 .. Len(stops) - 1, v \in stops[i] .. stops[i + 1], NEW m, m = markerPaint(v, i, bands)
      PROVE  (cell[1] * m.from[2] - m.from[1] * cell[2]) * m.share[2] * m.to[2]
               = (m.to[1] * m.from[2] - m.from[1] * m.to[2]) * m.share[1] * cell[2]
  <2>1. stops[i] <= v /\ v <= stops[i + 1]
    BY <1>2, <1>4
  <2>2. Between1(v, cell, stops[i], rampColour(stops[i], bands), stops[i + 1], rampColour(stops[i + 1], bands))
    BY ONLY <1>2, <1>3, <2>1, i \in 1 .. Len(stops) - 1, MarkersMatch
  <2>3. /\ m.from = rampColour(stops[i], bands) /\ m.to = rampColour(stops[i + 1], bands)
        /\ m.share[1] = v - stops[i] /\ m.share[2] = stops[i + 1] - stops[i]
    BY <1>3, <1>4 DEF markerPaint
  <2> QED  BY <2>2, <2>3, Zenon DEF Between1
<1> QED  BY <1>1, <1>3, <1>4 DEF MarkersBlendAsCells

LEMMA GaugesHold == sample \in Samples => GaugesNameTheBand
<1> SUFFICES ASSUME sample \in Samples, sample.kind = "ramp" PROVE GaugesNameTheBand
  BY DEF GaugesNameTheBand
<1>1. PICK bands, v, floor, n, b : /\ bands = sample.bands /\ v = sample.v /\ floor = sample.floor
                                   /\ n = Len(bands.uppers) /\ b = bandColour(v, bands)
  OBVIOUS
<1>2. bands \in [uppers : Tables, ceiling : Ceilings] /\ v \in Int /\ floor \in Int
  BY <1>1, SampleOf
<1>3. PICK bare : bare = [bands EXCEPT !.ceiling = Absent]
  OBVIOUS
<1>4. /\ bands.uppers \in Tables /\ bands.ceiling \in Ceilings \cup {Absent}
      /\ bare.uppers = bands.uppers /\ bare.ceiling \in Ceilings \cup {Absent}
  BY <1>2, <1>3
<1>5. PICK range, arc : range = gaugeRange(floor, bands) /\ arc = gaugeModel(v, floor, bands)
  OBVIOUS
<1>6. /\ arc.needle = Along(v, range) /\ arc.colour = rampColour(v, bare)
      /\ \A i \in DOMAIN bands.uppers :
           arc.stops[i] = Along(IF bands.uppers[i] = Absent THEN range.max ELSE bands.uppers[i], range)
  BY <1>3, <1>5 DEF gaugeModel
<1>7. ASSUME b # 0
      PROVE  /\ range.min < range.max =>
                  arc.needle \in (IF b = 1 THEN 0 ELSE arc.stops[b - 1]) .. arc.stops[b]
             /\ (2 * b - 3) * arc.colour[2] <= 2 * arc.colour[1]
             /\ 2 * arc.colour[1] <= (2 * b - 1) * arc.colour[2]
             /\ n >= 3 /\ b < n => arc.colour = rampColour(v, bands)
  <2>1. CardBand(v, bands, n, b) /\ CardBand(v, bare, n, b)
    <3>1. CardBand(v, bands, n, b)
      BY <1>1, <1>2, <1>4, <1>7, CardBandIs
    <3> QED  BY <1>4, <3>1 DEF CardBand
  <2>2. /\ b \in 1 .. n /\ n \in Nat /\ DOMAIN bands.uppers = 1 .. n
        /\ \A i \in 1 .. n : bands.uppers[i] # Absent => bands.uppers[i] \in Int
    BY <1>1, <1>4, <2>1, TableIs DEF CardBand
  <2>3. /\ Banded(rampSpans(bare), n) /\ rampPosition(v, bare) = Within(v, rampSpans(bare)[b], b)
        /\ rampPosition(v, bands) = Within(v, rampSpans(bands)[b], b)
    BY <1>1, <1>2, <1>4, <2>1, CardBandOnRamp
  <2>4. arc.colour = Mixed(Within(v, rampSpans(bare)[b], b), n)
    BY <1>1, <1>4, <1>6, <2>3 DEF rampColour
  <2>5. NearBand(arc.colour, b)
    BY <1>2, <2>2, <2>3, <2>4, HalfABand
  <2>6. n >= 3 /\ b < n => arc.colour = rampColour(v, bands)
    <3> SUFFICES ASSUME n >= 3, b < n PROVE arc.colour = rampColour(v, bands)
      OBVIOUS
    <3>1. rampSpans(bare)[b] = rampSpans(bands)[b]
      BY <1>1, <1>4, <2>2, LowerSpansAlike
    <3> QED  BY <1>1, <2>3, <2>4, <3>1 DEF rampColour
  <2>7. ASSUME range.min < range.max
        PROVE  arc.needle \in (IF b = 1 THEN 0 ELSE arc.stops[b - 1]) .. arc.stops[b]
    <3>1. range.min \in Int /\ range.max \in Int
      BY <1>2, <1>4, <1>5, ArcIs
    <3>2. arc.needle \in Int /\ 0 <= arc.needle /\ arc.needle <= range.max - range.min
      BY <1>2, <1>6, <2>7, <3>1, AlongClimbs
    <3>3. arc.stops[b] \in Int /\ arc.needle <= arc.stops[b]
      <4>1. CASE bands.uppers[b] = Absent
        <5>1. arc.stops[b] = Along(range.max, range)
          BY <1>6, <2>2, <4>1
        <5>2. arc.stops[b] = range.max - range.min
          BY <1>2, <2>7, <3>1, <5>1, AlongClimbs
        <5> QED  BY <3>1, <3>2, <5>2
      <4>2. CASE bands.uppers[b] # Absent
        <5>1. arc.stops[b] = Along(bands.uppers[b], range) /\ bands.uppers[b] \in Int
          BY <1>6, <2>2, <4>2
        <5>2. v <= bands.uppers[b]
          BY <2>1, <4>2 DEF CardBand
        <5>3. Along(bands.uppers[b], range) \in 0 .. range.max - range.min
              /\ Along(v, range) <= Along(bands.uppers[b], range)
          BY <1>2, <2>7, <3>1, <5>1, <5>2, AlongClimbs
        <5> QED  BY <1>6, <3>1, <5>1, <5>3
      <4> QED  BY <4>1, <4>2
    <3>4. CASE b = 1
      BY <3>2, <3>3, <3>4
    <3>5. CASE b # 1
      <4>1. b - 1 \in 1 .. n /\ b - 1 \in 1 .. b - 1
        BY <2>2, <3>5
      <4>2. bands.uppers[b - 1] \in Int /\ v > bands.uppers[b - 1] /\ bands.uppers[b - 1] # Absent
        BY <2>1, <4>1, CellsAssumption DEF CardBand
      <4>3. arc.stops[b - 1] = Along(bands.uppers[b - 1], range)
        BY <1>6, <2>2, <4>1, <4>2
      <4>4. bands.uppers[b - 1] <= v
        BY <1>2, <4>2
      <4>5. Along(bands.uppers[b - 1], range) \in 0 .. range.max - range.min
            /\ Along(bands.uppers[b - 1], range) <= Along(v, range)
        BY <1>2, <2>7, <3>1, <4>2, <4>4, AlongClimbs
      <4> QED  BY <1>6, <3>1, <3>2, <3>3, <3>5, <4>3, <4>5
    <3> QED  BY <3>4, <3>5
  <2> QED  BY <2>5, <2>6, <2>7 DEF NearBand
<1> QED  BY <1>1, <1>5, <1>7, Zenon DEF GaugesNameTheBand

LEMMA KeyHolds == sample \in Samples => KeyIsTheRamp
<1> SUFFICES ASSUME sample \in Samples, sample.kind = "ramp" PROVE KeyIsTheRamp
  BY DEF KeyIsTheRamp
<1>1. PICK bands, v, n, edges : /\ bands = sample.bands /\ v = sample.v /\ edges = legendRows(bands)
                                /\ n = Len(bands.uppers)
  OBVIOUS
<1>2. bands.uppers \in Tables /\ bands.ceiling \in Ceilings /\ v \in Int
  BY <1>1, SampleOf
<1>3. /\ n \in Nat \ {0} /\ DOMAIN bands.uppers = 1 .. n
      /\ \A i \in 1 .. n : bands.uppers[i] # Absent => bands.uppers[i] \in Int
      /\ \A i \in 1 .. n : i # n => bands.uppers[i] # Absent
  BY <1>1, <1>2, TableIs
<1>4. /\ DOMAIN edges = 1 .. n
      /\ \A i \in 1 .. n : edges[i] = IF bands.uppers[i] # Absent THEN bands.uppers[i] ELSE bands.ceiling
  BY <1>1, <1>3 DEF legendRows
<1>5. Len(edges) = n
  <2>1. PICK S : S = {edges[i] : i \in 1 .. n}
    OBVIOUS
  <2>2. edges = [i \in 1 .. n |-> edges[i]]
    BY <1>1, <1>3 DEF legendRows
  <2>3. edges \in [1 .. n -> S]
    BY <2>1, <2>2
  <2>4. edges \in Seq(S)
    BY ONLY <1>3, <2>3
  <2> QED  BY ONLY <1>3, <1>4, <2>4
<1>6. bands.ceiling = Absent \/ (bands.ceiling \in Int /\ bands.ceiling > 0)
  BY <1>2, CellsAssumption
<1>7. PICK spans : spans = rampSpans(bands)
  OBVIOUS
<1>8. Banded(spans, n)
  BY <1>1, <1>2, <1>7, SpansBanded
<1>9. ASSUME NEW i \in 1 .. n, edges[i] # Absent, i = 1 \/ edges[i] > edges[i - 1],
             NEW place, place = rampPosition(edges[i], bands)
      PROVE  /\ place[1] = i * place[2]
             /\ i = n /\ bands.uppers[n] = Absent =>
                  (gaugeFor(v, bands) = 100 <=> 200 * v >= 199 * edges[n])
  <2>1. spans[i].upper = edges[i]
    <3>1. CASE bands.uppers[i] # Absent
      BY <1>1, <1>2, <1>4, <1>7, <3>1, SpanEnds
    <3>2. CASE bands.uppers[i] = Absent
      <4>1. i = n /\ edges[n] = bands.ceiling /\ bands.ceiling # Absent
        BY <1>3, <1>4, <1>9, <3>2
      <4>2. n = 1 \/ bands.ceiling > bands.uppers[n - 1]
        <5>1. n = 1 \/ (n - 1 \in 1 .. n /\ n - 1 # n)
          BY <1>3
        <5> QED  BY <1>3, <1>4, <1>9, <4>1, <5>1
      <4> QED  BY <1>1, <1>2, <1>7, <3>2, <4>1, <4>2, SpanEnds
    <3> QED  BY <3>1, <3>2
  <2>2. PICK L, U \in Int : L = spans[i].lower /\ U = spans[i].upper /\ L < U
    BY <1>8 DEF Banded
  <2>3. BandOf(U, spans) = i
    <3>1. ASSUME NEW j \in 1 .. i - 1 PROVE U > spans[j].upper
      <4>1. j \in 1 .. n /\ j < i
        BY <1>3
      <4>2. spans[j].upper < spans[i].upper /\ spans[j].upper \in Int
        BY <1>8, <4>1 DEF Banded
      <4> QED  BY <2>2, <4>2
    <3>2. U <= spans[i].upper
      BY <2>2
    <3> QED  BY <1>8, <3>1, <3>2, BandOfIs
  <2>4. PICK w \in Int : w = U - L /\ w > 0
    BY <2>2
  <2>5. place = <<(i - 1) * w + w, w>>
    <3>1. place = Within(U, spans[i], i)
      BY <1>7, <1>9, <2>1, <2>2, <2>3 DEF rampPosition, Placed
    <3> QED  BY <2>2, <2>4, <3>1 DEF Within
  <2>6. (i - 1) * w + w = i * w
    BY <2>4
  <2>7. ASSUME i = n, bands.uppers[n] = Absent
        PROVE  gaugeFor(v, bands) = 100 <=> 200 * v >= 199 * edges[n]
    <3>1. PICK C \in Int : C = bands.ceiling /\ C > 0 /\ edges[n] = C
      BY <1>4, <1>6, <1>9, <2>7
    <3>2. PICK x, d \in Int : x = 200 * v + C /\ d = 2 * C /\ d > 0
      BY <1>2, <3>1
    <3>3. PICK q \in Int : q = x \div d /\ d * q <= x /\ x < d * q + d
      BY ONLY <3>2, x \in Int, d \in Int, QuotientBounds
    <3>4. gaugeFor(v, bands) = IF q < 0 THEN 0 ELSE IF q > 100 THEN 100 ELSE q
      BY <3>1, <3>2, <3>3 DEF gaugeFor
    <3>5. gaugeFor(v, bands) = 100 <=> 100 <= q
      BY <3>4
    <3>6. 100 <= q <=> 100 * d <= x
      <4>1. ASSUME 100 <= q PROVE 100 * d <= x
        <5>1. 100 * d <= q * d
          BY ONLY <3>2, <4>1, d \in Int, q \in Int, StepsOf
        <5> QED  BY ONLY <3>3, <5>1, d \in Int, q \in Int, x \in Int
      <4>2. ASSUME q < 100 PROVE x < 100 * d
        <5>1. q * d + d <= 100 * d
          BY ONLY <3>2, <4>2, d \in Int, q \in Int, StepsOf
        <5> QED  BY ONLY <3>3, <5>1, d \in Int, q \in Int, x \in Int
      <4> QED  BY ONLY <4>1, <4>2, q \in Int, x \in Int, d \in Int
    <3> QED  BY <1>2, <3>1, <3>2, <3>5, <3>6
  <2> QED  BY <2>5, <2>6, <2>7
<1>10. ASSUME NEW i \in 1 .. n, edges[i] # Absent /\ (i = 1 \/ edges[i] > edges[i - 1])
       PROVE  /\ rampPosition(edges[i], bands)[1] = i * rampPosition(edges[i], bands)[2]
              /\ i = n /\ bands.uppers[n] = Absent =>
                   (gaugeFor(v, bands) = 100 <=> 200 * v >= 199 * edges[n])
  <2>1. PICK place : place = rampPosition(edges[i], bands)
    OBVIOUS
  <2> QED  BY <1>9, <1>10, <2>1
<1>11. /\ legendRows(sample.bands) = edges /\ Len(legendRows(sample.bands)) = n
       /\ sample.bands = bands /\ sample.v = v
  BY <1>1, <1>5
<1> QED  BY <1>10, <1>11 DEF KeyIsTheRamp

LEMMA ReplayHolds == sample \in Samples => FramesTellTheHours
<1> SUFFICES ASSUME sample \in Samples, sample.kind = "frames" PROVE FramesTellTheHours
  BY DEF FramesTellTheHours
<1>1. PICK body, n, order, still : body = sample.body /\ n = SampleSize /\ order = sample.order /\ still = sample.reducedMotion
  OBVIOUS
<1>2. Frames(body, n) /\ order \in [1 .. n -> 1 .. n] /\ n \in Nat
  BY <1>1, SampleOf, CellsAssumption
<1>3. PICK at : at = Painted(body, order, still)
  OBVIOUS
<1>4. /\ \A i \in DOMAIN body, c \in Spots : HourSays(body, i, c)
      /\ thinFrames(body) # {} => hasHistory(body)
      /\ \A k \in DOMAIN order : \A c \in at[k][1].arrived \cup at[k][1].settling :
           k > 1 /\ FadesIn(at[k - 1], at[k][1], body, order[k], still, c)
  BY ONLY <1>2, <1>3, FramesHold
<1> QED  BY ZenonT(60), <1>1, <1>3, <1>4 DEF FramesTellTheHours, HourSays, FadesIn

LEMMA BoxHolds == sample \in Samples => BoxCoversView
<1> SUFFICES ASSUME sample \in Samples, sample.kind = "box", sample.lo < sample.hi PROVE BoxCoversView
  BY DEF BoxCoversView
<1>1. PICK lo, hi : lo = sample.lo /\ hi = sample.hi
  OBVIOUS
<1>2. lo \in Int /\ hi \in Int /\ lo < hi
  BY <1>1, SampleOf
<1>3. PICK box, there : box = bboxParam(lo, hi) /\ there = {x \in lo .. hi : x \in -Limit .. Limit}
  OBVIOUS
<1>4. IF box = <<>> THEN Cardinality(there) <= 1 ELSE there \subseteq box[1] .. box[2]
  BY ONLY <1>2, <1>3, BoxCovers
<1> QED  BY <1>1, <1>3, <1>4 DEF BoxCoversView

LEMMA CellsInvPrinted == CellsInv => ReadingPrintedOnce
BY LabelZooms DEF CellsInv, ReadingPrintedOnce, MarkerTiers

\* Whatever devices report, whichever networks are ticked, whatever table colours them
\* and whatever hours are replayed, the cells account for the devices under them and
\* print a number between their readings (hexes.js), the markers mix the cells' colours in
\* the cells' proportions (ramp.js), arc and card gauge one band (gauge.js, areacards.js),
\* the key's numbers stand where the ramp has them (legend.js), a frame shows the last number measured (timelapse.js), the box
\* covers the view, a reading is printed once (mappaint.js) and the columns are the
\* cells (hexrise.js).
THEOREM MarksAlwaysTell == CellsSpec => []DrawnFromReadings
<1> DEFINE Sampled == sample \in Samples
<1>1. CellsInit => Sampled
  BY DEF CellsInit
<1>2. Sampled /\ [CellsNext]_cellVars => Sampled'
  BY DEF CellsNext, cellVars, SetCellValues, AddLayers, ApplyRise, applyMarkerZoomRange, Tilt, CellsPainted
<1>3. Sampled /\ CellsInv => DrawnFromReadings
  BY HexesHold, RampHolds, GaugesHold, KeyHolds, ReplayHolds, BoxHolds, CellsInvPrinted DEF DrawnFromReadings, CellsInv
<1> HIDE DEF Sampled
<1> QED
  BY <1>1, <1>2, <1>3, CellsInitInv, CellsNextInv, PTL DEF CellsSpec
=============================================================================
