-------------------------------- MODULE Cells --------------------------------
(***************************************************************************)
(* How readings become the marks of the map: the hex cells of              *)
(* web/src/lib/hexes.js, the colour ramp of ramp.js with the gauges and    *)
(* the key drawn from its tables (gauge.js, areacards.js, legend.js) and   *)
(* the replay's frames of timelapse.js over bounded inputs, the zooms at   *)
(* which markers and cells hand the printed number over (mappaint.js, with *)
(* the layers of mapload.js), and the columns a tilted map raises over the *)
(* cells (hexrise.js).                                                     *)
(*                                                                         *)
(* A mean is kept as the pair <<total, weight>>; lengths are metres and    *)
(* zooms are half levels.  Geometry beyond which lattice cell a position   *)
(* falls in is left out.  A colour is told by what is mixed, in which      *)
(* share and in which space; its bytes are left out.                       *)
(***************************************************************************)
EXTENDS Integers, Sequences, FiniteSets, SequencesExt, Sorting

CONSTANTS Networks,    \* sourcefilter's SOURCES
          Spots,       \* lattice cells a position can fall in
          Readings,    \* values a device can report
          Absent,      \* null or a missing key
          Tables,      \* band tables: upper bounds, the last one possibly Absent
          Ceilings,    \* a scale's stated ceiling, or Absent
          Floors,      \* where a gauge's arc begins, doubled (FLOORS, or zero)
          Extent,      \* bound: readings on a ramp and box edges reach this far
          SampleSize,  \* bound: devices of a body, frames of a replay and their paintings
          MaxTilts     \* bound: what the reader does with the tilt

\* A band table as internal/api/scales.go publishes them (values are doubled): only the
\* last band may be open, and no band is empty, so the filter of rampValueStops, which
\* drops a stop that repeats the one before, has nothing to drop.
BandTable(uppers) ==
  /\ Len(uppers) \in Nat \ {0} /\ DOMAIN uppers = 1 .. Len(uppers)
  /\ \A i \in DOMAIN uppers : \/ (uppers[i] \in Int /\ uppers[i] % 2 = 0)
                               \/ (uppers[i] = Absent /\ i = Len(uppers))
  /\ \A i, j \in DOMAIN uppers : i < j /\ uppers[j] # Absent => uppers[i] < uppers[j]
  /\ Len(uppers) = 1 /\ uppers[1] # Absent => uppers[1] > 0
ASSUME CellsAssumption ==
  /\ Absent \notin Int /\ Absent \notin Int \X Int /\ Readings \subseteq Int
  /\ IsFiniteSet(Spots) /\ IsFiniteSet(Networks)
  /\ \A t \in Tables : BandTable(t)
  /\ \A c \in Ceilings : c = Absent \/ (c \in Int /\ c > 0 /\ c % 2 = 0)
  /\ Floors \subseteq Int /\ Extent \in Nat /\ SampleSize \in Nat \ {0} /\ MaxTilts \in Nat

VARIABLES
  sample,       \* the inputs the pure part is asked about
  cellValuesOn, \* the reader's toggle for printed cell values
  drawnTier,    \* lastTier: what the markers are, "unset" before the first refresh
  layersAdded,  \* the label layers exist
  labelMax,     \* maxzoom of the markers' label layer
  cellLabelMin, \* minzoom of the cells' label layer
  pitched,      \* the camera's pitch: 0 flat
  rise,         \* hexrise's [cells, factor, queued]
  columns,      \* the column source: the cells it holds and each one's rise
  tilts

sampleVars == <<sample>>
handoverVars == <<cellValuesOn, drawnTier, layersAdded, labelMax, cellLabelMin>>
riseVars == <<pitched, rise, columns, tilts>>
cellVars == <<sample, handoverVars, riseVars>>

-----------------------------------------------------------------------------
(* The hex features.                                                       *)

\* A body of devices: each [spot, network, v], in the order they were served.
Devices == [spot : Spots, network : Networks, v : Readings \cup {Absent}]
StandAt(ds, s, w) == {i \in DOMAIN ds : ds[i].spot = s /\ ds[i].network = w}

Mean(ds, T) ==
  LET valued == {i \in T : ds[i].v # Absent}
  IN IF valued = {} THEN Absent
     ELSE <<SumFunction([i \in valued |-> ds[i].v]), Cardinality(valued)>>

\* A Map's keys stand in the order they were first set: those of T with no one
\* before them under the same key.
FirstOf(T, key) == Ascending({i \in T : \A j \in T : j < i => key[j] # key[i]})

\* The point tier: the devices of one network on one lattice cell merge.
\* Mutant of snapToLattice: the cell's key leaves the network out.
snapToLattice_Blind(ds, T) ==
  LET heads == FirstOf(T, [i \in T |-> ds[i].spot])
      on(h) == {i \in T : ds[i].spot = ds[h].spot}
  IN [k \in DOMAIN heads |->
        [spot |-> ds[heads[k]].spot, network |-> ds[heads[k]].network,
         n |-> Cardinality(on(heads[k])), mean |-> Mean(ds, on(heads[k]))]]
snapToLattice(ds, T) ==
  LET heads == FirstOf(T, [i \in T |-> <<ds[i].spot, ds[i].network>>])
      on(h) == T \cap StandAt(ds, ds[h].spot, ds[h].network)
  IN [k \in DOMAIN heads |->
        [spot |-> ds[heads[k]].spot, network |-> ds[heads[k]].network,
         n |-> Cardinality(on(heads[k])), mean |-> Mean(ds, on(heads[k]))]]

\* An aggregate tier, as the server bins it: one cell per spot, by_source its parts.
\* The blend the payload leads with is the server's own number; that it is there, and
\* not what it is, is read off the parts.
Bins(ds) ==
  LET heads == FirstOf(DOMAIN ds, [i \in DOMAIN ds |-> ds[i].spot])
  IN [k \in DOMAIN heads |->
        LET s == ds[heads[k]].spot
        IN [spot |-> s,
            parts |-> [w \in {w \in Networks : StandAt(ds, s, w) # {}} |->
                         [n |-> Cardinality(StandAt(ds, s, w)), v |-> Mean(ds, StandAt(ds, s, w))]]]]

\* Part means, weighed by their counts.  The total is kept over the product of the
\* parts' own weights.
Weighed(s, part) ==
  IF part.v = Absent THEN s
  ELSE [total |-> s.total * part.v[2] + part.v[1] * part.n * s.over,
        over |-> s.over * part.v[2], weight |-> s.weight + part.n]
combine(parts) ==
  LET ws == SetToSeq(DOMAIN parts)
      sums[k \in 0 .. Len(ws)] ==
        IF k = 0 THEN [total |-> 0, over |-> 1, weight |-> 0]
        ELSE Weighed(sums[k - 1], parts[ws[k]])
      sum == sums[Len(ws)]
  IN IF Len(ws) = 1 THEN parts[ws[1]].v
     ELSE IF sum.weight = 0 THEN Absent ELSE <<sum.total, sum.over * sum.weight>>

\* pickCell: a hole when no ticked network stands in the cell, the payload's blend when
\* all of them are ticked, else the ticked parts.
pickCell(bin, ticks) ==
  LET there == DOMAIN bin.parts \cap ticks
      kept == [w \in there |-> bin.parts[w]]
  IN [spot |-> bin.spot, hole |-> there = {}, blend |-> there = DOMAIN bin.parts,
      n |-> SumFunction([w \in there |-> bin.parts[w].n]),
      mean |-> IF there = {} THEN Absent ELSE combine(kept)]

\* hexFeatures: devices of unticked networks and holes go first; the cells without a
\* reading are listed, and so painted, before the others.
Ordered(cells, drawn) ==
  LET silent == {k \in drawn : cells[k].mean = Absent}
      order == Ascending(silent) \o Ascending(drawn \ silent)
  IN [k \in DOMAIN order |-> cells[order[k]]]
hexFeatures(ds, points, ticks) ==
  IF points
  THEN LET cells == snapToLattice(ds, {i \in DOMAIN ds : ds[i].network \in ticks})
       IN Ordered(cells, DOMAIN cells)
  ELSE LET picked == [k \in DOMAIN Bins(ds) |-> pickCell(Bins(ds)[k], ticks)]
       IN Ordered(picked, {k \in DOMAIN picked : ~picked[k].hole})

-----------------------------------------------------------------------------
(* The ramp.  Values are doubled, so that a band's middle is an integer.   *)

\* Each band's range; the open ends are given a width.
rampSpans(bands) ==
  LET uppers == bands.uppers
      n == Len(uppers)
      below == uppers[n - 1]
      borrowed == below + (IF n >= 3 THEN below - uppers[n - 2]
                           ELSE IF below = 0 THEN 2 ELSE IF below < 0 THEN -below ELSE below)
      top == IF uppers[n] # Absent THEN uppers[n]
             ELSE IF bands.ceiling # Absent /\ bands.ceiling > below THEN bands.ceiling ELSE borrowed
      Upper(i) == IF i = n THEN top ELSE uppers[i]
  IN IF n = 1
     THEN <<[lower |-> 0, upper |-> IF uppers[1] # Absent THEN uppers[1]
                                    ELSE IF bands.ceiling # Absent THEN bands.ceiling ELSE 2]>>
     ELSE [i \in 1 .. n |-> [lower |-> IF i = 1 THEN 2 * uppers[1] - Upper(2) ELSE uppers[i - 1],
                             upper |-> Upper(i)]]

\* The position in bands, as <<numerator, denominator>>: band i holds i - 1 .. i.
BandOf(v, spans) ==
  CHOOSE k \in DOMAIN spans :
    /\ k = Len(spans) \/ v <= spans[k].upper
    /\ \A j \in 1 .. k - 1 : v > spans[j].upper
Within(v, span, i) ==
  LET width == span.upper - span.lower
      into == IF v < span.lower THEN 0 ELSE IF v > span.upper THEN width ELSE v - span.lower
  IN IF width = 0 THEN <<i - 1, 1>> ELSE <<(i - 1) * width + into, width>>
Placed(v, spans) == LET i == BandOf(v, spans) IN Within(v, spans[i], i)
rampPosition(v, bands) == Placed(v, rampSpans(bands))

\* rampColour: a place on the line that joins the bands' colours in OKLab, as
\* <<numerator, denominator>>: i - 1 is band i's own colour, and a place between two is
\* their mix in OKLab.  The own colour stands at the band's middle; below the first
\* middle and above the last it is theirs.
Mixed(p, n) ==
  LET twice == 2 * p[1] - p[2]
      last == 2 * (n - 1) * p[2]
  IN <<IF twice < 0 THEN 0 ELSE IF twice > last THEN last ELSE twice, 2 * p[2]>>
rampColour(v, bands) == Mixed(rampPosition(v, bands), Len(bands.uppers))

\* Mutant of rampValueStops: the boundaries without the middles.
rampValueStops_NoMiddles(bands) ==
  LET spans == rampSpans(bands)
  IN <<spans[1].lower>> \o [i \in DOMAIN spans |-> spans[i].upper]
\* The stops MapLibre interpolates between to paint the markers.
rampValueStops(bands) ==
  LET spans == rampSpans(bands)
  IN <<spans[1].lower>> \o
       [k \in 1 .. 2 * Len(spans) |->
          LET s == spans[(k + 1) \div 2]
          IN IF k % 2 = 1 THEN (s.lower + s.upper) \div 2 ELSE s.upper]

\* markerPaint, between the i-th stop and the next: the renderer mixes the two stops'
\* colours in RGB by the reading's share of the way, not in OKLab as the stops are mixed.
markerPaint(v, i, bands) ==
  LET stops == rampValueStops(bands)
  IN [from |-> rampColour(stops[i], bands), to |-> rampColour(stops[i + 1], bands),
      share |-> <<v - stops[i], stops[i + 1] - stops[i]>>]

-----------------------------------------------------------------------------
(* What else is drawn from a band table: the readout's cards, the panel's  *)
(* arcs and the key.                                                       *)

\* The band whose colour a card takes: bounds are inclusive; 0 past the last one.
bandColour(v, bands) ==
  LET fits == {i \in DOMAIN bands.uppers : bands.uppers[i] = Absent \/ v <= bands.uppers[i]}
  IN IF fits = {} THEN 0 ELSE Min(fits)
\* The card's ring, of a scale that states its ceiling: a whole percentage of it;
\* Math.round halves upwards.
gaugeFor(v, bands) ==
  LET percent == (200 * v + bands.ceiling) \div (2 * bands.ceiling)
  IN IF percent < 0 THEN 0 ELSE IF percent > 100 THEN 100 ELSE percent

\* The panel's arc: from its floor to one width past the last stated bound, but no
\* further than the ceiling.  With no bound it is the ceiling, a missing one being 0.
gaugeRange(floor, bands) ==
  LET n == Len(bands.uppers)
      m == IF bands.uppers[n] = Absent THEN n - 1 ELSE n
      past == IF m = 0 THEN IF bands.ceiling = Absent THEN 0 ELSE bands.ceiling
              ELSE IF m = 1 THEN 2 * bands.uppers[1]
              ELSE 2 * bands.uppers[m] - bands.uppers[m - 1]
  IN [min |-> floor,
      max |-> IF bands.ceiling # Absent /\ bands.ceiling > floor /\ bands.ceiling < past
              THEN bands.ceiling ELSE past]
\* How far along the arc a value stands, of range.max - range.min.
Along(x, range) ==
  IF x < range.min THEN 0 ELSE IF x > range.max THEN range.max - range.min ELSE x - range.min
\* The needle, its colour and the ends of the arc's coloured segments.  The table comes
\* without the ceiling that bandsFor puts on the map's, so the colour's open band ends
\* elsewhere.
gaugeModel(v, floor, bands) ==
  LET range == gaugeRange(floor, bands)
  IN [needle |-> Along(v, range), colour |-> rampColour(v, [bands EXCEPT !.ceiling = Absent]),
      stops |-> [i \in DOMAIN bands.uppers |->
                   Along(IF bands.uppers[i] = Absent THEN range.max ELSE bands.uppers[i], range)]]

\* The number on the upper edge of each row of the key; the open one's is the ceiling.
legendRows(bands) ==
  [i \in DOMAIN bands.uppers |-> IF bands.uppers[i] # Absent THEN bands.uppers[i] ELSE bands.ceiling]

-----------------------------------------------------------------------------
(* The frames of a replay (timelapse.js, and markArrivals of               *)
(* timelapse-island.js).  A body is a sequence of measured frames.         *)

Earlier(body, i, c) == {j \in 1 .. i : body[j][c] # Absent}
\* Mutant of fillForward: a silent hour before the first reading takes the first.
fillForward_Back(body, i, c) ==
  LET known == {j \in DOMAIN body : body[j][c] # Absent}
      j == IF Earlier(body, i, c) # {} THEN Max(Earlier(body, i, c)) ELSE Min(known)
  IN [v |-> IF known = {} THEN Absent ELSE body[j][c], carried |-> body[i][c] = Absent /\ known # {}]
\* Each cell is held at its last reading; a held number says so.
fillForward(body, i, c) ==
  [v |-> IF Earlier(body, i, c) = {} THEN Absent ELSE body[Max(Earlier(body, i, c))][c],
   carried |-> body[i][c] = Absent /\ Earlier(body, i, c) # {}]

\* Coverage is counted on the measured body; thin is under a quarter of the best.
frameCoverage(body, i) == Cardinality({c \in Spots : body[i][c] # Absent})
thinFrames(body) ==
  {i \in DOMAIN body : 4 * frameCoverage(body, i) < Max({frameCoverage(body, j) : j \in DOMAIN body})}
hasHistory(body) == \E i \in DOMAIN body : frameCoverage(body, i) > 0

\* One painting: the cells with a number, those of them that just appeared, and the
\* step of each cell that is fading in.  Nothing fades in the first painting, nor
\* under reduced motion.
markArrivals(before, body, i, reducedMotion) ==
  LET f == [c \in Spots |-> fillForward(body, i, c)]
      valued == {c \in Spots : f[c].v # Absent}
      ramp == before # <<>> /\ ~reducedMotion
      fresh == {c \in valued : ramp /\ ~f[c].carried}
      arrived == {c \in fresh : c \notin before[1].valued}
  IN <<[valued |-> valued, arrived |-> arrived,
        settling |-> {c \in fresh \ arrived : c \in before[1].arrived}]>>
Painted(body, order, reducedMotion) ==
  LET at[k \in 0 .. Len(order)] ==
        IF k = 0 THEN <<>> ELSE markArrivals(at[k - 1], body, order[k], reducedMotion)
  IN at

-----------------------------------------------------------------------------
(* The box of a request, along one axis: snapped outward and clamped.      *)

Quantum == 2
Snap(x, up) == (IF up THEN (x + Quantum - 1) \div Quantum ELSE x \div Quantum) * Quantum
Limit == Extent - 1
bboxParam(lo, hi) ==
  LET w == IF Snap(lo, FALSE) < -Limit THEN -Limit ELSE Snap(lo, FALSE)
      e == IF Snap(hi, TRUE) > Limit THEN Limit ELSE Snap(hi, TRUE)
  IN IF w < e THEN <<w, e>> ELSE <<>>

-----------------------------------------------------------------------------
(* Zooms.                                                                  *)

TARGET_HEX_PX == 32
MIN_HEX_PX == 8
M_PER_PX_Z0 == 114824      \* at the reference latitude
FINEST_TIER_M == 250
COARSEST_TIER_M == 100000
ZoomLevels == 0 .. 24
resolutionForZoom(z) == (TARGET_HEX_PX * M_PER_PX_Z0) \div 2 ^ z
First(P(_)) == CHOOSE z \in ZoomLevels : P(z) /\ \A y \in 0 .. z - 1 : ~P(y)
POINT_TIER_MIN_ZOOM == First(LAMBDA z : resolutionForZoom(z) < FINEST_TIER_M)
GRID_MIN_ZOOM ==
  First(LAMBDA z : TARGET_HEX_PX * COARSEST_TIER_M >= MIN_HEX_PX * resolutionForZoom(z))
\* Layer ranges are fractional: the request rounds the zoom, so half a level earlier.
POINT_TIER_MIN_ZOOM_FRACTIONAL == 2 * POINT_TIER_MIN_ZOOM - 1
GRID_MIN_ZOOM_FRACTIONAL == 2 * GRID_MIN_ZOOM - 1

MarkerTiers == {"country", "city", "sensors"}
markerMaxZoom(t) == IF t = "sensors" THEN POINT_TIER_MIN_ZOOM_FRACTIONAL ELSE GRID_MIN_ZOOM_FRACTIONAL
\* Mutant of hexLabelMinZoom: the reader's floor alone.
hexLabelMinZoom_Floor(values, t) ==
  IF values THEN GRID_MIN_ZOOM_FRACTIONAL ELSE POINT_TIER_MIN_ZOOM_FRACTIONAL
hexLabelMinZoom(values, t) ==
  LET floor == IF values THEN GRID_MIN_ZOOM_FRACTIONAL ELSE POINT_TIER_MIN_ZOOM_FRACTIONAL
  IN IF floor < markerMaxZoom(t) THEN markerMaxZoom(t) ELSE floor

\* The toggle, from the mount on: before the layers exist it is only remembered.
SetCellValues ==
  /\ cellValuesOn' = ~cellValuesOn
  /\ cellLabelMin' = IF layersAdded THEN hexLabelMinZoom(cellValuesOn', drawnTier) ELSE cellLabelMin
  /\ UNCHANGED <<sample, drawnTier, layersAdded, labelMax, riseVars>>

\* The map's load event adds every layer at its opening range.
AddLayers ==
  /\ ~layersAdded /\ layersAdded' = TRUE
  /\ labelMax' = markerMaxZoom("country") /\ cellLabelMin' = POINT_TIER_MIN_ZOOM_FRACTIONAL
  /\ UNCHANGED <<sample, cellValuesOn, drawnTier, riseVars>>

\* refresh learned what the markers are.
applyMarkerZoomRange(t) ==
  /\ layersAdded
  /\ drawnTier' = t /\ labelMax' = markerMaxZoom(t)
  /\ cellLabelMin' = hexLabelMinZoom(cellValuesOn, t)
  /\ UNCHANGED <<sample, cellValuesOn, layersAdded, riseVars>>

-----------------------------------------------------------------------------
(* Columns.                                                                *)

Tilt(p) ==
  /\ tilts < MaxTilts /\ tilts' = tilts + 1
  /\ pitched # p /\ pitched' = p
  /\ rise' = [rise EXCEPT !.queued = TRUE]
  /\ UNCHANGED <<sample, handoverVars, columns>>

\* At most once per animation frame: the cells are loaded when they begin to rise,
\* and dropped when they are flat again.
ApplyRise ==
  /\ rise.queued
  /\ rise' = [rise EXCEPT !.queued = FALSE, !.factor = pitched]
  /\ columns' = IF pitched = rise.factor THEN columns
                ELSE [c \in (IF pitched = 0 THEN {} ELSE rise.cells) |-> pitched]
  /\ UNCHANGED <<sample, handoverVars, pitched, tilts>>

\* airbg:paint: the cells were painted anew; raised columns follow.
CellsPainted(cs) ==
  /\ tilts < MaxTilts /\ tilts' = tilts + 1
  /\ rise' = [rise EXCEPT !.cells = cs]
  /\ columns' = IF rise.factor = 0 THEN columns ELSE [c \in cs |-> rise.factor]
  /\ UNCHANGED <<sample, handoverVars, pitched>>

-----------------------------------------------------------------------------
Samples ==
  [kind : {"hexes"}, ds : [1 .. SampleSize -> Devices], points : BOOLEAN, ticks : SUBSET Networks]
    \cup [kind : {"ramp"}, bands : [uppers : Tables, ceiling : Ceilings], v : -Extent .. Extent, floor : Floors]
    \cup [kind : {"frames"}, body : [1 .. SampleSize -> [Spots -> Readings \cup {Absent}]],
         order : [1 .. SampleSize -> 1 .. SampleSize], reducedMotion : BOOLEAN]
    \cup [kind : {"box"}, lo : -Extent .. Extent, hi : -Extent .. Extent]
    \cup [kind : {"live"}]     \* nothing pure: the toggles and the tilt move

CellsInit ==
  /\ sample \in Samples
  /\ cellValuesOn \in (IF sample.kind = "live" THEN BOOLEAN ELSE {FALSE}) /\ drawnTier = "unset" /\ layersAdded = FALSE
  /\ labelMax = 0 /\ cellLabelMin = 0
  /\ pitched = 0 /\ rise = [cells |-> {}, factor |-> 0, queued |-> FALSE]
  /\ columns = [c \in {} |-> 0] /\ tilts = 0

CellsNext ==
  /\ sample.kind = "live"
  /\ \/ SetCellValues \/ AddLayers \/ ApplyRise
     \/ \E t \in MarkerTiers : applyMarkerZoomRange(t)
     \/ \E p \in 0 .. 2 : Tilt(p)
     \/ \E cs \in SUBSET Spots : CellsPainted(cs)

CellsSpec == CellsInit /\ [][CellsNext]_cellVars

-----------------------------------------------------------------------------
(* Properties.                                                             *)

\* The shape of the module's state.
CellsTypeOK ==
  /\ drawnTier \in MarkerTiers \cup {"unset"} /\ {cellValuesOn, layersAdded} \subseteq BOOLEAN
  /\ labelMax \in Nat /\ cellLabelMin \in Nat /\ pitched \in 0 .. 2
  /\ rise.cells \subseteq Spots /\ DOMAIN columns \subseteq Spots

\* Whichever tier they come in, the cells the map draws account for every device of
\* a ticked network once and for no other, blend networks only in the server's own
\* number, and print a number inside the range of the readings under it; a cell
\* with no reading never covers one that has it.
HexesTellTheDevices ==
  sample.kind = "hexes" =>
    LET fs == hexFeatures(sample.ds, sample.points, sample.ticks)
        under(f) == {i \in DOMAIN sample.ds :
                       /\ sample.ds[i].spot = f.spot /\ sample.ds[i].network \in sample.ticks
                       /\ sample.points => sample.ds[i].network = f.network}
        said(f) == {sample.ds[i].v : i \in under(f)} \ {Absent}
    IN /\ SumFunction([k \in DOMAIN fs |-> fs[k].n])
            = Cardinality({i \in DOMAIN sample.ds : sample.ds[i].network \in sample.ticks})
       /\ \A i, j \in DOMAIN fs : i < j /\ fs[j].mean = Absent => fs[i].mean = Absent
       /\ \A i \in DOMAIN fs :
            IF ~sample.points /\ fs[i].blend THEN TRUE
            ELSE IF fs[i].mean = Absent THEN said(fs[i]) = {}
            ELSE \E lo, hi \in said(fs[i]) :
                   fs[i].mean[1] \in lo * fs[i].mean[2] .. hi * fs[i].mean[2]

\* A marker is the cells' colour at every stop and mixes the same two colours between
\* two stops, in the same proportion: the cell stands on the OKLab line exactly the
\* marker's share of the way.  (The proportion is all that is the same there: the marker
\* is mixed in RGB.  ramp.js:154 "reproduces it" holds at the stops only.)
MarkersBlendAsCells ==
  sample.kind = "ramp" =>
    LET stops == rampValueStops(sample.bands)
        cell == rampColour(sample.v, sample.bands)
    IN \A i \in 1 .. Len(stops) - 1 :
         sample.v \in stops[i] .. stops[i + 1] =>
           LET m == markerPaint(sample.v, i, sample.bands)
           IN (cell[1] * m.from[2] - m.from[1] * cell[2]) * m.share[2] * m.to[2]
                = (m.to[1] * m.from[2] - m.from[1] * m.to[2]) * m.share[1] * cell[2]

\* One reading is in one band wherever it is gauged: the needle stands in the segment
\* of the band whose colour the card takes, and the arc's blended colour is no further
\* than half a band from that colour.  It is the cell's below the last band, which the
\* arc ends without the ceiling (with two bands the first one's width is the last's).
GaugesNameTheBand ==
  sample.kind = "ramp" =>
    LET band == bandColour(sample.v, sample.bands)
        n == Len(sample.bands.uppers)
        range == gaugeRange(sample.floor, sample.bands)
        arc == gaugeModel(sample.v, sample.floor, sample.bands)
    IN band # 0 =>
         /\ range.min < range.max =>
              arc.needle \in (IF band = 1 THEN 0 ELSE arc.stops[band - 1]) .. arc.stops[band]
         /\ (2 * band - 3) * arc.colour[2] <= 2 * arc.colour[1]
         /\ 2 * arc.colour[1] <= (2 * band - 1) * arc.colour[2]
         /\ n >= 3 /\ band < n => arc.colour = rampColour(sample.v, sample.bands)

\* The key's numbers stand on the seams of its equal rows, and each is the reading the
\* ramp places there, the open band's included when its ceiling is above its bound; and
\* that is where the card's ring is full, to the rounding (areacards.js:9 "the same top
\* the map ramp and the legend stop at").
KeyIsTheRamp ==
  sample.kind = "ramp" =>
    LET edges == legendRows(sample.bands)
        n == Len(edges)
    IN \A i \in 1 .. n : edges[i] # Absent /\ (i = 1 \/ edges[i] > edges[i - 1]) =>
         LET place == rampPosition(edges[i], sample.bands)
         IN /\ place[1] = i * place[2]
            /\ i = n /\ sample.bands.uppers[n] = Absent =>
                 (gaugeFor(sample.v, sample.bands) = 100 <=> 200 * sample.v >= 199 * edges[n])

\* A replayed frame shows a number exactly where one was measured by then, the last
\* one, muted when it is held over; a caption of thin coverage is never given to a
\* body without history; and in any order of painting a number fades in over the two
\* paintings after the one it was missing from, and only if it is measured then.
FramesTellTheHours ==
  sample.kind = "frames" =>
    LET body == sample.body
        at == Painted(body, sample.order, sample.reducedMotion)
    IN /\ \A i \in DOMAIN body, c \in Spots :
            LET f == fillForward(body, i, c)
            IN /\ body[i][c] # Absent => f = [v |-> body[i][c], carried |-> FALSE]
               /\ i = 1 /\ body[i][c] = Absent => f = [v |-> Absent, carried |-> FALSE]
               /\ i > 1 /\ body[i][c] = Absent =>
                    f.v = fillForward(body, i - 1, c).v /\ f.carried = (f.v # Absent)
       /\ thinFrames(body) # {} => hasHistory(body)
       /\ \A k \in DOMAIN sample.order : \A c \in at[k][1].arrived \cup at[k][1].settling :
            /\ ~sample.reducedMotion /\ k > 1 /\ body[sample.order[k]][c] # Absent
            /\ c \in at[k][1].settling => c \in at[k - 1][1].arrived
            /\ c \in at[k][1].arrived => c \notin at[k - 1][1].valued

\* The box a request names covers what is on screen of the world.
BoxCoversView ==
  sample.kind = "box" /\ sample.lo < sample.hi =>
    LET box == bboxParam(sample.lo, sample.hi)
        there == {x \in sample.lo .. sample.hi : x \in -Limit .. Limit}
    IN IF box = <<>> THEN Cardinality(there) <= 1
                     ELSE there \subseteq box[1] .. box[2]

\* One reading is never printed twice, and while the cells print their values it is
\* never absent either: the markers' labels stop where the cells' begin, in every
\* order of the toggle, the layers' arrival and the tiers.
ReadingPrintedOnce ==
  layersAdded /\ drawnTier # "unset" =>
    /\ labelMax <= cellLabelMin
    /\ cellValuesOn => labelMax = cellLabelMin

\* Raised columns are the cells painted last, each at the height of the last frame,
\* and a tilt that is not drawn yet has its frame on the way.
ColumnsFollowCells ==
  /\ columns = [c \in (IF rise.factor = 0 THEN {} ELSE rise.cells) |-> rise.factor]
  /\ rise.factor # pitched => rise.queued

\* What is drawn is what was read.
DrawnFromReadings ==
  /\ HexesTellTheDevices /\ FramesTellTheHours /\ BoxCoversView
  /\ MarkersBlendAsCells /\ GaugesNameTheBand /\ KeyIsTheRamp
  /\ ReadingPrintedOnce /\ ColumnsFollowCells
=============================================================================
