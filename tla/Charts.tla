-------------------------------- MODULE Charts --------------------------------
(***************************************************************************)
(* The line charts: the sensor panel's, with its copy in the side dock     *)
(* (components/SensorChart.svelte), and the area page's                    *)
(* (components/ChartPanel.svelte), over the plot that both mount           *)
(* (components/Chart.svelte); the pickers that steer them, their pop-up    *)
(* menus, and the notice of a copied link.                                 *)
(*                                                                         *)
(* A series body is the set of instants it has readings at.  A Svelte      *)
(* effect runs with the change that calls for it; its answers come later.  *)
(***************************************************************************)
EXTENDS Integers, Sequences, FiniteSets

CONSTANTS ChartMetrics,  \* the metrics the page switches between
          Measured,      \* those this station or area measures, in the menu's order
          UnitOf,        \* metric -> unit
          MapMetric,     \* the metric the page opened on
          NearbyKeys,    \* the lines of the surroundings that can be asked for
          Periods,       \* the server's windows
          OpeningPeriod,
          Instants,      \* what a custom range can be set to
          NoInstant,
          Bodies,        \* the instants a series body can hold
          MaxChartActs   \* bound: gestures in a behaviour

ASSUME ChartsAssumption ==
  /\ Measured # <<>> /\ {Measured[i] : i \in DOMAIN Measured} \subseteq ChartMetrics
  /\ OpeningPeriod \in Periods /\ Instants \subseteq Nat /\ NoInstant \notin Instants
  /\ MaxChartActs \in Nat

VARIABLES
  kind,      \* "sensor", "area", or the part that moves alone: "menus", "notice"
  sel,       \* link.metrics, nearby, period, from, to
  areaKnown, \* getSensorArea() answers
  offered,   \* the nearby menu is open
  docked,    \* panelDock.on
  covered,   \* the area page has a sensor's card up
  charts,    \* what each mounted Chart shows
  runs,      \* effects whose bodies are still awaited
  gestures,
  opens, subView, keyed,    \* the pop-up menus
  copies, notice, timers, said

selVars == <<sel, areaKnown, offered, docked, covered, charts, runs, gestures>>
menuVars == <<opens, subView, keyed>>
noticeVars == <<copies, notice, timers, said>>
chartVars == <<kind, selVars, menuVars, noticeVars>>

CUSTOM == "custom"
Offered == {Measured[i] : i \in DOMAIN Measured}
seedMetric == IF MapMetric \in Offered THEN MapMetric ELSE Measured[1]

\* customRangeValid, and null for a range that is not one.
periodQuery(s) ==
  IF s.period # CUSTOM THEN <<s.period>>
  ELSE IF s.from \in Instants /\ s.to \in Instants /\ s.from < s.to THEN <<CUSTOM, s.from, s.to>>
  ELSE <<>>

\* One y scale per unit, numbered as the metrics name them.
\* Mutant of scaleNames: every metric its own scale.
scaleNames_Each(list) == [i \in DOMAIN list |-> i]
scaleNames(list) ==
  LET First(i) == CHOOSE j \in 1 .. i : /\ UnitOf[list[j]] = UnitOf[list[i]]
                                        /\ \A k \in 1 .. j - 1 : UnitOf[list[k]] # UnitOf[list[i]]
  IN [i \in DOMAIN list |-> Cardinality({First(j) : j \in 1 .. First(i)})]

Bandable(s, known) == Len(s.metrics) = 1 /\ known

\* chartSources of the sensor panel; the area's single url.  No query, no lines; and
\* none for a metric the area does not measure, nor under a sensor's card.
Lines(s, known, hidden) ==
  LET q == periodQuery(s)
      scales == scaleNames(s.metrics)
      own == {[metric |-> s.metrics[i], scale |-> scales[i], column |-> "own", query |-> q]
                : i \in DOMAIN s.metrics}
      nearbySources == {[metric |-> s.metrics[1], scale |-> scales[1], column |-> k, query |-> q]
                          : k \in s.nearby}
  IN IF q = <<>> THEN {}
     ELSE IF kind = "area" THEN (IF s.metrics[1] \in Offered /\ ~hidden THEN own ELSE {})
     ELSE own \cup (IF Bandable(s, known) THEN nearbySources ELSE {})

Nothing == [status |-> "none", run |-> -1, of |-> {}, xs |-> {}]
Loading(n) == [status |-> "loading", run |-> n, of |-> {}, xs |-> {}]
Mounted(c, dock) == c = "panel" \/ dock

\* The templates and the effect: a chart with no lines is taken down; a fresh list of
\* lines destroys the plot and asks anew; Reset remounts.
Show(lines, dock, again) ==
  LET up(c) == lines # {} /\ Mounted(c, dock)
      anew == {c \in DOMAIN charts : up(c) /\ (again \/ charts[c] = Nothing)}
  IN /\ charts' = [c \in DOMAIN charts |-> IF c \in anew THEN Loading(gestures')
                                           ELSE IF up(c) THEN charts[c] ELSE Nothing]
     /\ runs' = runs \cup {[chart |-> c, run |-> gestures', lines |-> lines,
                            left |-> Cardinality(lines), xs |-> {}] : c \in anew}

Gesture == gestures < MaxChartActs /\ gestures' = gestures + 1

\* A gesture that leaves `next` selected.  A metric list is always a fresh array; a
\* period or an area is compared by its value.
Selected(next, again) ==
  /\ kind \in {"sensor", "area"} /\ Gesture
  /\ sel' = next
  /\ Show(Lines(next, areaKnown, covered), docked,
          again \/ Lines(next, areaKnown, covered) # Lines(sel, areaKnown, covered))
  /\ UNCHANGED <<kind, areaKnown, offered, docked, covered, menuVars, noticeVars>>

\* selected.filter((m) => m !== metric), as a fold the proofs can unfold.
Without(list, m) ==
  LET kept[i \in 0 .. Len(list)] ==
        IF i = 0 THEN <<>> ELSE IF list[i] = m THEN kept[i - 1] ELSE Append(kept[i - 1], list[i])
  IN kept[Len(list)]

\* MetricPicker: the last metric cannot be unticked.
PickMetric(m) ==
  LET ms == sel.metrics
      without == Without(ms, m)
      next == IF without # ms THEN without ELSE Append(ms, m)
  IN /\ kind = "sensor" /\ m \in Offered /\ next # <<>>
     /\ Selected([sel EXCEPT !.metrics = next], TRUE)

\* A gauge of the panel asks for its metric alone.
TapGauge(m) == kind = "sensor" /\ m \in Offered /\ Selected([sel EXCEPT !.metrics = <<m>>], TRUE)

\* The area chart's metric is the page's, and may be one the area does not measure.
PageMetric(m) == kind = "area" /\ sel.metrics # <<m>> /\ Selected([sel EXCEPT !.metrics = <<m>>], FALSE)

\* NearbyPicker: its button is dead while it cannot band, a menu already open is not.
OfferNearby ==
  /\ kind = "sensor" /\ offered' = ~offered
  /\ ~offered => Bandable(sel, areaKnown)
  /\ UNCHANGED <<kind, sel, areaKnown, docked, covered, charts, runs, gestures, menuVars, noticeVars>>
PickNearby(k) ==
  /\ offered
  /\ Selected([sel EXCEPT !.nearby = IF k \in sel.nearby THEN sel.nearby \ {k} ELSE sel.nearby \cup {k}],
              Bandable(sel, areaKnown))

\* The segmented buttons drop a range; the select and the custom entry keep it.
Segment(p) ==
  kind = "sensor" /\ Selected([sel EXCEPT !.period = p, !.from = NoInstant, !.to = NoInstant], FALSE)
SelectPeriod(p) == p # sel.period /\ Selected([sel EXCEPT !.period = p], FALSE)
SetFrom(t) == sel.period = CUSTOM /\ Selected([sel EXCEPT !.from = t], FALSE)
SetTo(t) == sel.period = CUSTOM /\ Selected([sel EXCEPT !.to = t], FALSE)

\* Reset undoes this chart's own controls; the area's metric is the page's and stays.
ResetChart ==
  Selected([metrics |-> IF kind = "area" THEN sel.metrics ELSE <<seedMetric>>, nearby |-> {},
            period |-> OpeningPeriod, from |-> NoInstant, to |-> NoInstant], TRUE)

\* The map loads other sensors, which know the area or do not.
AreaLearned ==
  /\ kind = "sensor" /\ Gesture /\ areaKnown' = ~areaKnown
  /\ Show(Lines(sel, ~areaKnown, covered), docked, Len(sel.metrics) = 1)
  /\ UNCHANGED <<kind, sel, offered, docked, covered, menuVars, noticeVars>>
\* The side dock opens over the map, or closes.
DockMoves ==
  /\ kind = "sensor" /\ Gesture /\ docked' = ~docked
  /\ Show(Lines(sel, areaKnown, covered), docked', FALSE)
  /\ UNCHANGED <<kind, sel, areaKnown, offered, covered, menuVars, noticeVars>>
\* A sensor's card opens over the area's chart, or closes.
CardMoves ==
  /\ kind = "area" /\ Gesture /\ covered' = ~covered
  /\ Show(Lines(sel, areaKnown, covered'), docked, FALSE)
  /\ UNCHANGED <<kind, sel, areaKnown, offered, docked, menuVars, noticeVars>>

\* One more body of a run arrives; the last one draws, unless the effect was cleaned up.
BodyArrives(r, xs) ==
  LET all == r.xs \cup xs
      live == charts[r.chart].run = r.run
  IN /\ runs' = (runs \ {r}) \cup (IF r.left = 1 THEN {} ELSE {[r EXCEPT !.left = @ - 1, !.xs = all]})
     /\ charts' = IF r.left > 1 \/ ~live THEN charts
                  ELSE [charts EXCEPT ![r.chart] =
                          [@ EXCEPT !.status = IF Cardinality(all) < 2 THEN "empty" ELSE "ok",
                                    !.of = r.lines, !.xs = all]]
     /\ UNCHANGED <<kind, sel, areaKnown, offered, docked, covered, gestures, menuVars, noticeVars>>

\* Mutant of BodyFails: the failure of a superseded run is told too.
BodyFails_Late(r) ==
  /\ runs' = runs \ {r}
  /\ charts' = [charts EXCEPT ![r.chart] = [@ EXCEPT !.status = "unavailable", !.of = r.lines]]
  /\ UNCHANGED <<kind, sel, areaKnown, offered, docked, covered, gestures, menuVars, noticeVars>>
\* One failure fails the plot.
BodyFails(r) ==
  /\ runs' = runs \ {r}
  /\ charts' = IF charts[r.chart].run # r.run THEN charts
               ELSE [charts EXCEPT ![r.chart] = [@ EXCEPT !.status = "unavailable", !.of = r.lines]]
  /\ UNCHANGED <<kind, sel, areaKnown, offered, docked, covered, gestures, menuVars, noticeVars>>

-----------------------------------------------------------------------------
(* The pop-up menus: two pickers and the "more" menu with its sub view.    *)

Menus == {"metrics", "nearby", "more"}
MenuStep == kind = "menus" /\ UNCHANGED <<kind, selVars, noticeVars>>

\* A press outside a menu closes it; so a click on one button shuts the others first.
PointAt(m) ==
  /\ MenuStep /\ opens' = IF m \in opens THEN {} ELSE {m}
  /\ subView' = IF m = "more" THEN FALSE ELSE subView
  /\ UNCHANGED keyed
PressOutside == MenuStep /\ opens # {} /\ opens' = {} /\ UNCHANGED <<subView, keyed>>
\* Enter on a button is a click without a press.
KeyOn(m) ==
  /\ MenuStep /\ keyed' = TRUE
  /\ opens' = IF m \in opens THEN opens \ {m} ELSE opens \cup {m}
  /\ subView' = IF m = "more" THEN FALSE ELSE subView
\* Escape within the "more" menu ends there; anywhere else it closes the pickers.
EscapeMenu(inMore) ==
  /\ MenuStep /\ (inMore => "more" \in opens)
  /\ opens' = IF inMore THEN opens \ {"more"} ELSE opens \cap {"more"}
  /\ subView' = (subView /\ ~inMore)
  /\ UNCHANGED keyed
OpenSub == MenuStep /\ "more" \in opens /\ subView' = TRUE /\ UNCHANGED <<opens, keyed>>
Choose == MenuStep /\ "more" \in opens /\ ~subView /\ opens' = opens \ {"more"} /\ UNCHANGED <<subView, keyed>>

-----------------------------------------------------------------------------
(* The notice of a copied or shared link.                                  *)

NoticeStep == kind = "notice" /\ UNCHANGED <<kind, selVars, menuVars>>
MaxCopies == 3
Copy == NoticeStep /\ copies + said < MaxCopies /\ copies' = copies + 1 /\ UNCHANGED <<notice, timers, said>>
\* Mutant of Say: the earlier notice's timer is left running.
Say_Keep(text) ==
  /\ NoticeStep /\ copies > 0 /\ copies' = copies - 1
  /\ notice' = text /\ said' = said + 1 /\ timers' = timers \cup {said'}
Say(text) ==
  /\ NoticeStep /\ copies > 0 /\ copies' = copies - 1
  /\ notice' = text /\ said' = said + 1 /\ timers' = {said'}
NoticeEnds(t) ==
  NoticeStep /\ t \in timers /\ timers' = timers \ {t} /\ notice' = "" /\ UNCHANGED <<copies, said>>

-----------------------------------------------------------------------------
ChartsInit ==
  /\ kind \in {"sensor", "area", "menus", "notice"}
  /\ sel = [metrics |-> <<IF kind = "area" THEN MapMetric ELSE seedMetric>>, nearby |-> {},
            period |-> OpeningPeriod, from |-> NoInstant, to |-> NoInstant]
  /\ areaKnown \in (IF kind = "sensor" THEN BOOLEAN ELSE {FALSE})
  /\ offered = FALSE /\ docked = FALSE /\ covered = FALSE /\ gestures = 0
  /\ LET lines == Lines(sel, areaKnown, FALSE)
         up == lines # {} /\ kind \in {"sensor", "area"}
     IN /\ charts = [c \in {"panel", "dock"} |-> IF up /\ c = "panel" THEN Loading(0) ELSE Nothing]
        /\ runs = IF up THEN {[chart |-> "panel", run |-> 0, lines |-> lines,
                               left |-> Cardinality(lines), xs |-> {}]} ELSE {}
  /\ opens = {} /\ subView = FALSE /\ keyed = FALSE
  /\ copies = 0 /\ notice = "" /\ timers = {} /\ said = 0

ChartsNext ==
  \/ \E m \in ChartMetrics : PickMetric(m) \/ TapGauge(m) \/ PageMetric(m)
  \/ OfferNearby \/ \E k \in NearbyKeys : PickNearby(k)
  \/ \E p \in Periods : Segment(p)
  \/ \E p \in Periods \cup {CUSTOM} : SelectPeriod(p)
  \/ \E t \in Instants : SetFrom(t) \/ SetTo(t)
  \/ ResetChart \/ AreaLearned \/ DockMoves \/ CardMoves
  \/ \E r \in runs : BodyFails(r) \/ \E xs \in Bodies : BodyArrives(r, xs)
  \/ \E m \in Menus : PointAt(m) \/ KeyOn(m)
  \/ PressOutside \/ OpenSub \/ Choose \/ \E inMore \in BOOLEAN : EscapeMenu(inMore)
  \/ Copy \/ \E text \in {"done", "failed"} : Say(text)
  \/ \E t \in timers : NoticeEnds(t)

ChartsSpec == ChartsInit /\ [][ChartsNext]_chartVars

-----------------------------------------------------------------------------
\* The shape of the module's state.
ChartsTypeOK ==
  /\ sel.nearby \subseteq NearbyKeys /\ sel.period \in Periods \cup {CUSTOM}
  /\ {areaKnown, offered, docked, covered, subView, keyed} \subseteq BOOLEAN
  /\ \A c \in DOMAIN charts : charts[c].status \in {"none", "loading", "ok", "empty", "unavailable"}
  /\ opens \subseteq Menus /\ notice \in {"", "done", "failed"} /\ copies \in 0 .. MaxCopies

\* What a chart says is about the selection in force: a plot is of its lines and of no
\* earlier ones, an "empty" or "unavailable" is a verdict on them, and while neither
\* stands their answer is on its way; the docked copy agrees with the panel's.
ChartTellsSelection ==
  kind \in {"sensor", "area"} =>
    LET want == Lines(sel, areaKnown, covered)
    IN \A c \in DOMAIN charts :
         /\ (charts[c] = Nothing) = (want = {} \/ ~Mounted(c, docked))
         /\ charts[c].status = "loading" =>
              \E r \in runs : r.chart = c /\ r.run = charts[c].run /\ r.lines = want
         /\ charts[c].status \in {"ok", "empty", "unavailable"} => charts[c].of = want

\* No plot is misread: the station's chart always names a metric it measures, two
\* metrics share a scale exactly when they share a unit, and the surroundings are
\* drawn beside one metric only.
LinesReadTrue ==
  LET want == Lines(sel, areaKnown, covered)
      shown == {sel.metrics[i] : i \in DOMAIN sel.metrics}
  IN /\ kind = "sensor" => shown # {} /\ shown \subseteq Offered /\ Cardinality(shown) = Len(sel.metrics)
     /\ \A a, b \in want : (a.scale = b.scale) = (UnitOf[a.metric] = UnitOf[b.metric])
     /\ (\E l \in want : l.column # "own") => Cardinality(shown) = 1 /\ areaKnown

\* With the pointer alone one menu is open at a time; a notice stands exactly while
\* its own timer runs.
PopupsBehave == (~keyed => Cardinality(opens) <= 1) /\ ((notice # "") = (timers # {}))

\* The charts and their controls say what is selected.
ChartsTellTheTruth == ChartTellsSelection /\ LinesReadTrue /\ PopupsBehave
=============================================================================
