------------------------------ MODULE Stations ------------------------------
(***************************************************************************)
(* One address, several boxes: how the columnar body of an area's sensors  *)
(* becomes stations (web/src/lib/stations.js), and the four readers of it  *)
(* that must tell one story: the markers (mapfeatures.js), the count line  *)
(* (sensorcount.js), the panel (sensors.svelte.js, sensorview.js) and the  *)
(* cards of the readout strip (areastats.js, areacards.js).  nearest.js    *)
(* finds a place in the same body.  How a reading is coloured and gauged   *)
(* is Cells'.                                                              *)
(*                                                                         *)
(* A body is a sequence of rows in the server's order, ascending by sensor *)
(* id, and a row's position stands for its id.  One metric is asked about: *)
(* the other columns are read the same way.  Sites are points of a line.   *)
(***************************************************************************)
EXTENDS Integers, Sequences, FiniteSets, Sorting

CONSTANTS Sites,        \* integers a device can stand at
          NetworkAt,    \* a site -> the network of the devices there
          Values,       \* usable readings, zero among them
          NoValue,
          Flag,         \* a flag that makes a reading unusable
          SeenAt,       \* a row's position -> [first, last], in our data
          MaxDevices,   \* bound: rows of a body
          AreaSites     \* the areas' centroids, in the list's order

ASSUME StationsAssumption ==
  /\ Sites \subseteq Int /\ Values \subseteq Nat /\ NoValue \notin Values
  /\ MaxDevices \in Nat /\ \A i \in 1 .. MaxDevices : SeenAt[i].first \in Int /\ SeenAt[i].last \in Int
  /\ AreaSites \in Seq(Int) /\ AreaSites # <<>>

VARIABLES
  rowsHeld,     \* the body last published
  shownStatus,  \* the status control
  faultyShown,  \* the checkbox of faulty stations
  openedId        \* the open panel's sensor id, 0 for none

stationVars == <<rowsHeld, shownStatus, faultyShown, openedId>>

\* A device measures the metric or has no hardware for it; a value it measures is
\* usable, or missing, or missing because it was flagged.
DeviceRows ==
  [site : Sites, measures : {TRUE}, v : Values \cup {NoValue}, flag : {""}]
  \cup [site : Sites, measures : {TRUE}, v : {NoValue}, flag : {Flag}]
  \cup [site : Sites, measures : {FALSE}, v : {NoValue}, flag : {""}]

Lowest(S) == CHOOSE x \in S : \A y \in S : x <= y
Highest(S) == CHOOSE x \in S : \A y \in S : y <= x

-----------------------------------------------------------------------------
(* Stations.                                                               *)

\* A station is the set of the rows at its site; its id is the lowest member's.
stationsOf(body) == {{i \in DOMAIN body : body[i].site = s} : s \in {body[i].site : i \in DOMAIN body}}
stationMembers(body, id) == {i \in DOMAIN body : body[i].site = body[id].site}
measuredAt(body, ids) == \E i \in ids : body[i].measures

\* Mutant of readingAt: only the first box is asked.
readingAt_First(body, ids) == [value |-> body[Lowest(ids)].v, sensorId |-> Lowest(ids)]
readingAt(body, ids) ==
  LET has == {i \in ids : body[i].v # NoValue}
  IN IF has = {} THEN [value |-> NoValue, sensorId |-> Lowest(ids)]
     ELSE [value |-> body[Lowest(has)].v, sensorId |-> Lowest(has)]

flagsAt(body, ids) ==
  LET flagged == {i \in ids : body[i].flag # ""}
  IN IF flagged = {} THEN "" ELSE body[Lowest(flagged)].flag
\* Mutant of isFaultyAt: a flagged box condemns its address.
isFaultyAt_AnyBox(body, ids) == flagsAt(body, ids) # ""
isFaultyAt(body, ids) ==
  readingAt(body, ids).value = NoValue /\ flagsAt(body, ids) # ""

-----------------------------------------------------------------------------
(* The markers and the line that counts them.                              *)

sensorFeatures(body) ==
  {[id |-> Lowest(ids), at |-> body[Lowest(ids)].site, value |-> readingAt(body, ids).value,
    faulty |-> isFaultyAt(body, ids), network |-> NetworkAt[body[Lowest(ids)].site]] :
   ids \in stationsOf(body)}

\* Faulty stations follow their checkbox alone, the others the status.
Markers(body, status, showFaulty) ==
  {f \in sensorFeatures(body) :
     IF f.faulty THEN showFaulty
     ELSE /\ status = "active" => f.value # NoValue
          /\ status = "inactive" => f.value = NoValue}

countSensors(body, showFaulty) ==
  LET counted == {ids \in stationsOf(body) : showFaulty \/ ~isFaultyAt(body, ids)}
      active == {ids \in counted : readingAt(body, ids).value # NoValue}
  IN [total |-> Cardinality(counted), active |-> Cardinality(active),
      silent |-> Cardinality(counted) - Cardinality(active),
      faulty |-> Cardinality({ids \in counted \ active : isFaultyAt(body, ids)})]

\* Mutant of sensorCountLine: the drawn rings of faulty stations are left out.
sensorCountLine_NoRings(counts, status) ==
  CASE status = "active" -> counts.active
    [] status = "inactive" -> counts.silent
    [] OTHER -> counts.total
sensorCountLine(counts, status) ==
  CASE status = "active" -> counts.active + counts.faulty
    [] status = "inactive" -> counts.silent
    [] OTHER -> counts.total

-----------------------------------------------------------------------------
(* The panel of one station, opened by any of its boxes' ids.              *)

normaliseSensor(body, id) ==
  LET ids == stationMembers(body, id)
  IN [id |-> Lowest(ids), at |-> body[Lowest(ids)].site,
      measured |-> measuredAt(body, ids), reading |-> readingAt(body, ids),
      flag |-> flagsAt(body, ids), devices |-> ids,
      network |-> NetworkAt[body[Lowest(ids)].site]]

\* No row for what nothing here measures; "no reading" for what has none now.
panelRows(sensor) ==
  IF ~sensor.measured THEN {}
  ELSE {[value |-> sensor.reading.value, missing |-> sensor.reading.value = NoValue]}

\* Reporting since its oldest box, as fresh as its newest.
detailRows(sensor) ==
  [since |-> Lowest({SeenAt[i].first : i \in sensor.devices}),
   updated |-> Highest({SeenAt[i].last : i \in sensor.devices})]

-----------------------------------------------------------------------------
(* The readout strip: what the open station means among its neighbours.    *)

\* The first usable value met at each station, in the rows' order.
stationValues(body) ==
  {i \in DOMAIN body :
     /\ body[i].v # NoValue
     /\ \A j \in 1 .. i - 1 : body[j].v # NoValue => body[j].site # body[i].site}

\* The middle of the values, doubled; an even count averages the middle two.
median(body, rows) ==
  LET order == Sorted(rows, {p \in rows \X rows :
                   \/ body[p[1]].v < body[p[2]].v
                   \/ body[p[1]].v = body[p[2]].v /\ p[1] < p[2]})
      nth(k) == body[order[k + 1]].v
      mid == Cardinality(rows) \div 2
  IN IF Cardinality(rows) % 2 = 0 THEN nth(mid - 1) + nth(mid) ELSE 2 * nth(mid)

NoStats == [total |-> 0]
areaStats(body, id) ==
  LET rows == stationValues(body)
      values == {body[i].v : i \in rows}
      mine == {i \in rows : body[i].site = body[id].site}
      value == IF mine = {} THEN NoValue ELSE body[Lowest(mine)].v
  IN IF Cardinality(rows) < 2 THEN NoStats
     ELSE [total |-> Cardinality(rows), high |-> Highest(values), low |-> Lowest(values),
           median |-> median(body, rows), value |-> value,
           rank |-> IF mine = {} THEN 0
                    ELSE Cardinality({i \in rows : body[i].v < value}) + 1]

\* A breakdown only where two networks stand, silent ones included.
areaSourceStats(body) ==
  LET there == {NetworkAt[body[i].site] : i \in DOMAIN body}
      of(w) == {i \in stationValues(body) : NetworkAt[body[i].site] = w}
  IN IF Cardinality(there) < 2 THEN {}
     ELSE {[source |-> w, n |-> Cardinality(of(w)), median |-> median(body, of(w))] :
           w \in {w \in there : of(w) # {}}}

\* A gauge per figure; the fourth card, only of a station that reports, is its rank.
areaCards(stats) ==
  IF stats = NoStats THEN <<>>
  ELSE <<2 * stats.high, 2 * stats.low, stats.median>>
       \o (IF stats.rank = 0 THEN <<>>
           ELSE <<IF 2 * stats.value > stats.median THEN "above"
                  ELSE IF 2 * stats.value < stats.median THEN "below" ELSE "at">>)
cards(body, id) == IF id = 0 THEN <<>> ELSE areaCards(areaStats(body, id))

-----------------------------------------------------------------------------
(* Nearest, in the browser: the first of the closest wins.                 *)

Away(x, y) == IF x < y THEN y - x ELSE x - y
nearestArea(at) ==
  Lowest({i \in DOMAIN AreaSites : \A j \in DOMAIN AreaSites : Away(at, AreaSites[i]) <= Away(at, AreaSites[j])})
nearestSensor(at, body) ==
  IF body = <<>> THEN 0
  ELSE Lowest({i \in DOMAIN body : \A j \in DOMAIN body : Away(at, body[i].site) <= Away(at, body[j].site)})

-----------------------------------------------------------------------------
(* The reader.                                                             *)

StationsInit ==
  /\ \E n \in 0 .. MaxDevices : rowsHeld \in [1 .. n -> DeviceRows]
  /\ shownStatus = "active"
  /\ faultyShown = FALSE
  /\ openedId = 0

ChooseStatus ==
  /\ \E s \in {"all", "active", "inactive"} \ {shownStatus} : shownStatus' = s
  /\ UNCHANGED <<rowsHeld, faultyShown, openedId>>
TickFaulty ==
  /\ faultyShown' = ~faultyShown
  /\ UNCHANGED <<rowsHeld, shownStatus, openedId>>
\* A marker is clicked: the id is its feature's.
ClickMarker ==
  /\ \E f \in Markers(rowsHeld, shownStatus, faultyShown) : openedId' = f.id
  /\ UNCHANGED <<rowsHeld, shownStatus, faultyShown>>
\* A link names any box, drawn or not.
FollowLink ==
  /\ openedId' \in DOMAIN rowsHeld
  /\ UNCHANGED <<rowsHeld, shownStatus, faultyShown>>
ClosePanel ==
  /\ openedId # 0 /\ openedId' = 0
  /\ UNCHANGED <<rowsHeld, shownStatus, faultyShown>>

StationsNext == ChooseStatus \/ TickFaulty \/ ClickMarker \/ FollowLink \/ ClosePanel
StationsSpec == StationsInit /\ [][StationsNext]_stationVars

-----------------------------------------------------------------------------
(* What the readers of one body may not contradict each other about.       *)

\* With every network ticked the line counts the markers, whatever the controls say.
CountsWhatIsDrawn ==
  LET counts == countSensors(rowsHeld, faultyShown)
  IN /\ Cardinality(Markers(rowsHeld, shownStatus, faultyShown)) = sensorCountLine(counts, shownStatus)
     /\ counts.total = Cardinality(Markers(rowsHeld, "all", faultyShown))

\* Whichever box a link names, the panel is its marker's: the same id, reading and
\* failure; and the chart below asks the box the reading came from.
PanelIsItsMarker ==
  \A i \in DOMAIN rowsHeld :
    LET s == normaliseSensor(rowsHeld, i)
        mark == CHOOSE f \in sensorFeatures(rowsHeld) : f.at = rowsHeld[i].site
    IN /\ s.id = mark.id /\ s.network = mark.network
       /\ s.reading.value = mark.value
       /\ mark.value # NoValue => panelRows(s) = {[value |-> mark.value, missing |-> FALSE]}
       /\ mark.faulty => s.flag # "" /\ \A r \in panelRows(s) : r.missing
       /\ s.reading.value # NoValue => rowsHeld[s.reading.sensorId].v = s.reading.value
       /\ detailRows(s).since <= SeenAt[i].first /\ SeenAt[i].last <= detailRows(s).updated

\* The strip ranks the open station's own marker among the markers that report.
StripRanksTheMarkers ==
  LET reporting == {f \in sensorFeatures(rowsHeld) : f.value # NoValue}
      stats == areaStats(rowsHeld, openedId)
      parts == areaSourceStats(rowsHeld)
      mark == CHOOSE f \in sensorFeatures(rowsHeld) : f.at = rowsHeld[openedId].site
  IN openedId # 0 =>
     /\ (stats = NoStats) = (Cardinality(reporting) < 2)
     /\ stats # NoStats =>
          /\ stats.total = Cardinality(reporting)
          /\ 2 * stats.low <= stats.median /\ stats.median <= 2 * stats.high
          /\ stats.value = mark.value
          /\ (Len(cards(rowsHeld, openedId)) = 4) = (mark.value # NoValue)
          /\ stats.rank # 0 => /\ stats.rank \in 1 .. stats.total
                               /\ stats.rank = 1 <=> stats.value = stats.low
     /\ stats # NoStats =>
          \A p \in parts : /\ p.n = Cardinality({f \in reporting : f.network = p.source})
                           /\ 2 * stats.low <= p.median /\ p.median <= 2 * stats.high

\* The sensor "near me" opens is in the body and none of its markers is nearer.
NearestIsOpenable ==
  \A at \in Sites :
    /\ nearestArea(at) \in DOMAIN AreaSites
    /\ rowsHeld # <<>> =>
         \A f \in sensorFeatures(rowsHeld) :
           Away(at, normaliseSensor(rowsHeld, nearestSensor(at, rowsHeld)).at) <= Away(at, f.at)

\* Markers, count line, panel, strip and "near me" describe the same stations
\* (sensorcount.js:9 "the two agree by construction", areastats.js:10, stations.js:103).
StationsAgree ==
  /\ CountsWhatIsDrawn
  /\ PanelIsItsMarker
  /\ StripRanksTheMarkers
  /\ NearestIsOpenable
=============================================================================
