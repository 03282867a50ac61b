------------------------------ MODULE KitRefresh ------------------------------
(***************************************************************************)
(* The one fetch of the design kit's prototype                             *)
(* (design-kit/ui_kits/app/airbg-data.js): the bundled snapshot first,     *)
(* then the API with the snapshot behind it, on a press, on the timer and  *)
(* on the return to the tab, several of them possibly under way; what is   *)
(* published, the readouts made of it and the line that says which of the  *)
(* two sources the reader looks at.                                        *)
(***************************************************************************)
EXTENDS Integers, Sequences, FiniteSets

CONSTANTS Issues,        \* what the API may answer: each [p2, p10, subs], values by province
          Bundled,       \* the snapshot: the same, with a scale and each sub-area's parent
          NoFigure,      \* a province that does not report, and no readouts yet
          MaxLoadings,   \* bound: loads begun
          MaxKitActs     \* bound: gestures and environment's turns

ASSUME KitRefreshAssumption ==
  /\ Issues # <<>> /\ MaxLoadings \in Nat /\ MaxKitActs \in Nat /\ NoFigure \notin Int
  /\ \A source \in {Bundled} \cup {Issues[i] : i \in DOMAIN Issues} :
       {source.p2, source.p10} \subseteq Seq(Int \cup {NoFigure})

VARIABLES
  dataShown,     \* AIRBG_DATA: [live, issue, subs, scale], <<>> before there is any
  parentKnown,   \* the slugs of PARENT
  scaleHeld,     \* scale, kept from whichever source
  statusLine,    \* <<>> as served, <<"busy">>, or what paintStamp composed
  readouts,      \* the home cards: [top, median, silent, covered], and of what
  kitMetric,
  refreshOff,    \* the refresh buttons are disabled
  kitLoads,       \* the loads under way: [by, step]; the opening one only takes the snapshot
  autoTimer,     \* the timer is set
  autoOn, held, awayOrReading,
  kitStarted,    \* the opening chain has set the timer
  gaveUp,        \* a load of the timer's, or any load, rejected: nothing came after it
  loadsBegun, kitActs

shownVars == <<dataShown, parentKnown, scaleHeld, statusLine, readouts>>
gateVars == <<autoOn, held, awayOrReading>>
kitVars == <<shownVars, kitMetric, refreshOff, kitLoads, autoTimer, gateVars, kitStarted,
             gaveUp, loadsBegun, kitActs>>

-----------------------------------------------------------------------------
fromApi(i) == [live |-> TRUE, issue |-> i, subs |-> Issues[i].subs \cap parentKnown, scale |-> FALSE]
fromSnapshot == [live |-> FALSE, issue |-> 0, subs |-> Bundled.subs, scale |-> TRUE]
Body(d) == IF d.live THEN Issues[d.issue] ELSE Bundled

\* paintReadouts: with no value of the metric anywhere the cards are left as they are.
figuresIn(d, m) == {i \in DOMAIN Body(d)[m] : Body(d)[m][i] # NoFigure}
cardsOf(d, m) ==
  LET value == Body(d)[m]
      data == figuresIn(d, m)
      n == Cardinality(data)
      rank(i) == Cardinality({k \in data : value[k] < value[i] \/ (value[k] = value[i] /\ k <= i)})
      nth(r) == value[CHOOSE i \in data : rank(i) = r]
      half == n \div 2
  IN [of |-> <<d, m>>, top |-> nth(n), silent |-> Len(value) - n, covered |-> n,
      median2 |-> IF n % 2 = 1 THEN 2 * nth(half + 1) ELSE nth(half) + nth(half + 1)]
paintReadouts(d, m) == IF figuresIn(d, m) = {} THEN readouts ELSE cardsOf(d, m)
paintStamp(d, auto) == <<IF d.live THEN "live" ELSE "local", d.issue, auto>>

\* publish: the parents are learnt, and what the source does not bring is inherited.
\* Mutant of publish: an answer without sub-areas is shown without them.
publish_Bare(d) ==
  LET scale == scaleHeld \/ d.scale
      full == [d EXCEPT !.scale = scale]
  IN /\ parentKnown' = parentKnown \cup d.subs
     /\ scaleHeld' = scale /\ dataShown' = full
     /\ readouts' = paintReadouts(full, kitMetric) /\ statusLine' = paintStamp(full, autoOn)
publish(d) ==
  LET inherits == d.subs = {} /\ dataShown # <<>>
      scale == scaleHeld \/ d.scale
      full == [d EXCEPT !.subs = IF inherits THEN dataShown.subs ELSE @, !.scale = scale]
  IN /\ parentKnown' = parentKnown \cup d.subs
     /\ scaleHeld' = scale
     /\ dataShown' = full
     /\ readouts' = paintReadouts(full, kitMetric)
     /\ statusLine' = paintStamp(full, autoOn)

\* load: the buttons, the line, and two requests.
Begin(by, others) ==
  /\ loadsBegun < MaxLoadings /\ loadsBegun' = loadsBegun + 1
  /\ kitLoads' = others \cup {[by |-> by, step |-> "api", nr |-> loadsBegun']}

autoAllowed == autoOn /\ ~held /\ ~awayOrReading
KitTurn == kitActs < MaxKitActs /\ kitActs' = kitActs + 1

KitRefreshInit ==
  /\ dataShown = <<>> /\ parentKnown = {} /\ scaleHeld = FALSE /\ statusLine = <<>>
  /\ readouts = NoFigure /\ kitMetric = "p2" /\ refreshOff = FALSE
  /\ kitLoads = {[by |-> "opening", step |-> "snapshot", nr |-> 0]}
  /\ autoTimer = FALSE /\ autoOn = TRUE /\ held = FALSE /\ awayOrReading \in BOOLEAN
  /\ kitStarted = FALSE /\ gaveUp = FALSE /\ loadsBegun = 0 /\ kitActs = 0

\* The snapshot, or its refusal, then the first load and the timer at once.
SnapshotFirst(l) ==
  /\ l.by = "opening"
  /\ \/ publish(fromSnapshot)
     \/ UNCHANGED <<dataShown, parentKnown, scaleHeld, readouts, statusLine>>
  /\ Begin("start", kitLoads \ {l})
  /\ refreshOff' = TRUE
  /\ kitStarted' = TRUE /\ autoTimer' = TRUE
  /\ UNCHANGED <<kitMetric, gateVars, gaveUp, kitActs>>
KitOpens == \E l \in kitLoads : SnapshotFirst(l)

\* What follows a load that settled well: the buttons, and the timer's own next tick.
Settles(l) ==
  /\ kitLoads' = kitLoads \ {l}
  /\ refreshOff' = FALSE
  /\ autoTimer' = (autoTimer \/ l.by = "timer")
  /\ UNCHANGED <<kitMetric, gateVars, kitStarted, gaveUp, loadsBegun, kitActs>>
ApiAnswers ==
  \E l \in kitLoads : /\ l.step = "api"
                     /\ \E i \in DOMAIN Issues : publish(fromApi(i))
                     /\ Settles(l)
ApiFails ==
  /\ \E l \in kitLoads :
       /\ l.step = "api"
       /\ kitLoads' = (kitLoads \ {l}) \cup {[l EXCEPT !.step = "snapshot"]}
  /\ UNCHANGED <<shownVars, kitMetric, refreshOff, autoTimer, gateVars, kitStarted, gaveUp, loadsBegun, kitActs>>
SnapshotServes ==
  \E l \in kitLoads : l.step = "snapshot" /\ l.by # "opening" /\ publish(fromSnapshot) /\ Settles(l)
\* Neither source: the chain rejects, and nothing in it runs any more.
SnapshotFails ==
  /\ \E l \in kitLoads : l.step = "snapshot" /\ l.by # "opening" /\ kitLoads' = kitLoads \ {l}
  /\ gaveUp' = TRUE
  /\ UNCHANGED <<shownVars, kitMetric, refreshOff, autoTimer, gateVars, kitStarted, loadsBegun, kitActs>>

Starts(by) == Begin(by, kitLoads) /\ refreshOff' = TRUE /\ statusLine' = <<"busy">>
PressRefresh ==
  /\ ~refreshOff /\ KitTurn /\ Starts("press")
  /\ UNCHANGED <<dataShown, parentKnown, scaleHeld, readouts, kitMetric, autoTimer, gateVars, kitStarted, gaveUp>>
\* A blocked tick sets the timer again: no step.
Tick ==
  /\ autoTimer /\ autoAllowed
  /\ autoTimer' = FALSE /\ Starts("timer")
  /\ UNCHANGED <<dataShown, parentKnown, scaleHeld, readouts, kitMetric, gateVars, kitStarted, gaveUp, kitActs>>
\* The tab comes back: a load if the gates allow it, and the timer anew.
Returns ==
  /\ awayOrReading /\ autoOn /\ KitTurn
  /\ \E reading \in BOOLEAN : awayOrReading' = reading
  /\ IF held \/ awayOrReading' THEN UNCHANGED <<kitLoads, loadsBegun, refreshOff, statusLine>> ELSE Starts("return")
  /\ autoTimer' = TRUE
  /\ UNCHANGED <<dataShown, parentKnown, scaleHeld, readouts, kitMetric, autoOn, held, kitStarted, gaveUp>>
\* A menu opened or closed, text selected, the tab left, or back with the switch off.
ReaderTurns ==
  /\ KitTurn
  /\ \/ awayOrReading' = ~awayOrReading /\ UNCHANGED held
     \/ held' = ~held /\ UNCHANGED awayOrReading
  /\ UNCHANGED <<shownVars, kitMetric, refreshOff, kitLoads, autoTimer, autoOn, kitStarted, gaveUp, loadsBegun>>
SwitchAuto ==
  /\ KitTurn
  /\ autoOn' = ~autoOn /\ autoTimer' = autoOn'
  /\ statusLine' = IF dataShown = <<>> THEN statusLine ELSE paintStamp(dataShown, autoOn')
  /\ UNCHANGED <<dataShown, parentKnown, scaleHeld, readouts, kitMetric, refreshOff, kitLoads, held,
                 awayOrReading, kitStarted, gaveUp, loadsBegun>>
SwitchMetric ==
  /\ KitTurn
  /\ kitMetric' = IF kitMetric = "p2" THEN "p10" ELSE "p2"
  /\ readouts' = IF dataShown = <<>> THEN readouts ELSE paintReadouts(dataShown, kitMetric')
  /\ UNCHANGED <<dataShown, parentKnown, scaleHeld, statusLine, refreshOff, kitLoads, autoTimer, gateVars,
                 kitStarted, gaveUp, loadsBegun>>

KitRefreshNext ==
  \/ KitOpens \/ ApiAnswers \/ ApiFails \/ SnapshotServes \/ SnapshotFails
  \/ PressRefresh \/ Tick \/ Returns \/ ReaderTurns \/ SwitchAuto \/ SwitchMetric
KitRefreshSpec == KitRefreshInit /\ [][KitRefreshNext]_kitVars

-----------------------------------------------------------------------------
\* airbg-data.js:12-14, :53, :99-107, :274: the line names the source, the stamp and the
\* switch of the data on screen, or says that some are being fetched; the cards speak of
\* that data and of the metric in hand, and the median halves them; what one source does
\* not bring is kept from the other; and with the switch on, a next refresh is coming.
\* A load that got neither source is where all of this ends (gaveUp).
LineNamesSource ==
  /\ statusLine \in {<<>>, <<"busy">>} \cup (IF dataShown = <<>> THEN {} ELSE {paintStamp(dataShown, autoOn)})
  /\ statusLine = <<"busy">> => kitLoads # {} \/ gaveUp
  /\ refreshOff => kitLoads # {} \/ gaveUp
SourcesInherit ==
  dataShown # <<>> => /\ dataShown.subs \subseteq parentKnown
                      /\ parentKnown # {} => dataShown.subs # {}
                      /\ scaleHeld = dataShown.scale
Reporting == figuresIn(dataShown, kitMetric)
CardsAreOfShown ==
  dataShown # <<>> /\ Reporting # {} => readouts.of = <<dataShown, kitMetric>>
CardsAreRight ==
  dataShown # <<>> /\ Reporting # {} =>
    LET value == Body(dataShown)[kitMetric] IN
    /\ \A i \in Reporting : value[i] <= readouts.top
    /\ 2 * Cardinality({i \in Reporting : 2 * value[i] < readouts.median2}) <= Cardinality(Reporting)
    /\ 2 * Cardinality({i \in Reporting : 2 * value[i] > readouts.median2}) <= Cardinality(Reporting)
    /\ readouts.covered + readouts.silent = Len(value)
NextIsComing ==
  kitStarted /\ autoOn /\ ~gaveUp => autoTimer \/ \E l \in kitLoads : l.by = "timer"

SourceIsNamed == LineNamesSource /\ SourcesInherit /\ CardsAreOfShown /\ CardsAreRight /\ NextIsComing

=============================================================================
