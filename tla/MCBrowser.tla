------------------------------ MODULE MCBrowser ------------------------------
(***************************************************************************)
(* The parts of the browser's page, and of the design kit's page, checked  *)
(* in one run.  No two of them share a variable: what one takes from       *)
(* another (the paint, the metric, the camera) is an input of its own      *)
(* module.  Each behaviour moves one part, chosen at its start, with the   *)
(* others at one of their first states, so the run has the sum of the      *)
(* parts' states and not their product.                                    *)
(***************************************************************************)
EXTENDS Replay, MapData, Overlays, Chrome, Sheets, ViewState, Remembered,
        Cells, Charts, Lists, Stations, Boot,
        OblastTable, KitRefresh, KitCamera, KitHands, TLC

VARIABLE subject    \* the part that moves in this behaviour

Parts == {"replay", "data", "overlays", "chrome", "sheets", "view", "remembered",
          "cells", "charts", "lists", "stations", "boot",
          "oblasts", "refresh", "camera", "hands"}

-----------------------------------------------------------------------------
(* Values of the constants. *)

McFrameCount == [pm |-> 3, temp |-> 1]
McTierOf == [far |-> "city", near |-> "sensors"]

McTables == {<<4>>, <<Absent>>, <<4, 8>>, <<0, Absent>>, <<-8, Absent>>,
             <<4, 12, Absent>>, <<2, 10, 12, Absent>>, <<-8, 0, 12, 16>>}
McCeilings == {Absent, 6, 20}
McFloors == {-40, 0, 8}

McMeasured == <<"pm10", "pm25", "temp">>
McUnitOf == [pm10 |-> "ug", pm25 |-> "ug", temp |-> "c", hum |-> "pct"]

\* Ten rows: ties, gaps and an order of the names that is not the server's.
McRows == LET values == <<9, NoReading, 5, 5, 7, 2, NoReading, 5, 1, 3>>
              names  == <<4, 1, 3, 10, 2, 8, 6, 5, 9, 7>>
          IN [i \in 1 .. 10 |-> [name |-> names[i], value |-> values[i], sensors |-> i % 3]]
McTextOf == [n \in 1 .. 10 |-> IF n = 1 THEN "a" ELSE IF n = 2 THEN "ab" ELSE ToString(n)]
McFoundIn == [t \in {"", "n"} \cup {McTextOf[n] : n \in 1 .. 10} |->
                IF t = "" THEN 1 .. 10
                ELSE IF t = "n" THEN 3 .. 10
                ELSE {n \in 1 .. 10 : McTextOf[n] = t \/ (t = "a" /\ n = 2)}]

McNetworkAt == [s \in {0, 3, 7} |-> IF s = 3 THEN "eea" ELSE "sc"]
McSeenAt == <<[first |-> 2, last |-> 9], [first |-> 1, last |-> 9], [first |-> 4, last |-> 8]>>
McAreaSites == <<1, 6>>

\* Eight provinces, two sets of readings; only "B" occurs in more than one name.
McFeeds == LET row(v) == [value |-> v, pm10 |-> IF v = NoDatum THEN NoDatum ELSE 9 - v, sensors |-> 3]
           IN << [i \in 1 .. 8 |-> row(IF i \in {3, 8} THEN NoDatum ELSE i % 4)],
                 [i \in 1 .. 8 |-> row(IF i \in {1, 3, 4, 8} THEN NoDatum ELSE 8 - i)] >>
McNameOf == [bg |-> <<"B1", "B2", "B3", "B4", "B5", "A6", "A7", "A8">>,
             en |-> <<"E8", "E7", "E6", "E5", "E4", "E3", "E2", "E1">>]
McRankOf == [bg |-> <<4, 5, 6, 7, 8, 1, 2, 3>>, en |-> <<8, 7, 6, 5, 4, 3, 2, 1>>]
McNames == {McNameOf[l][i] : l \in {"bg", "en"}, i \in 1 .. 8}
McOccurs == [t \in McNames \cup {"B", "1", "zz"} |->
               CASE t = "B" -> {"B1", "B2", "B3", "B4", "B5"}
                 [] t = "1" -> {"B1", "E1"}
                 [] t = "zz" -> {}
                 [] OTHER -> {t}]
McBegins == [t \in McNames \cup {"B", "1", "zz"} |->
               IF t = "B" THEN McOccurs["B"] ELSE IF t \in McNames THEN {t} ELSE {}]

McBundled == [p2 |-> <<3, NoFigure, 8>>, p10 |-> <<4, 6, 9>>, subs |-> {"a", "b"}]
McIssues == << [p2 |-> <<5, 9, 2>>, p10 |-> <<NoFigure, NoFigure, NoFigure>>, subs |-> {"b", "new"}],
               [p2 |-> <<7, 1, 4>>, p10 |-> <<6, 6, NoFigure>>, subs |-> {"new"}] >>

McFitOf == [p |-> 2500, q |-> 6600]
McCentreOf == [p |-> 250, q |-> 870]
McPans == {-120, 40}
McPointers == {-200, 300}

-----------------------------------------------------------------------------
\* A part that is not the subject starts in one state, not in all of its own; the
\* two parts with the most first states come last.
BrowserInit ==
    /\ subject \in Parts
    /\ subject # "replay" => asked = "pm" /\ tier = 1
    /\ ReplayInit
    /\ subject # "data" => page = NoSlug /\ camera = "far" /\ anyTicked = FALSE
    /\ MapInit
    /\ subject # "overlays" => keptBoxes = {} /\ reduced = FALSE
    /\ OverlaysInit
    /\ subject # "chrome" => viewport = "portrait" /\ keptFold = FALSE
    /\ ChromeInit
    /\ subject # "chrome" => ~fresh.auto
    /\ subject # "sheets" => wide = TRUE /\ embed = FALSE /\ openId = NoSensor /\ folded = FALSE
    /\ SheetsInit
    /\ subject # "view" => entries = <<[metric |-> Null, sensor |-> Null, layers |-> {Null}]>>
    /\ ViewStateInit
    /\ subject # "remembered" => storage = "open" /\ explicit = FALSE
    /\ RememberedInit
    /\ subject # "remembered" => chosen["view"] = Unset
    /\ subject # "charts" => kind = "notice"
    /\ ChartsInit
    /\ subject # "lists" => widget = "finder"
    /\ ListsInit
    /\ subject # "boot" => reportsPaint = TRUE /\ tabHidden = FALSE /\ broken = {}
    /\ BootInit
    /\ subject # "oblasts" => columnsOff = {}
    /\ OblastTableInit
    /\ subject # "refresh" => awayOrReading = FALSE
    /\ KitRefreshInit
    /\ subject # "camera" => frameId = "map" /\ about = Unshaped
    /\ KitCameraInit
    /\ KitHandsInit
    /\ subject # "cells" => sample = [kind |-> "live"] /\ cellValuesOn = FALSE
    /\ CellsInit
    /\ subject # "stations" => rowsHeld = <<>>
    /\ StationsInit

Others(part) ==
    /\ part # "replay"     => UNCHANGED replayVars
    /\ part # "data"       => UNCHANGED mapVars
    /\ part # "overlays"   => UNCHANGED overlayVars
    /\ part # "chrome"     => UNCHANGED chromeVars
    /\ part # "sheets"     => UNCHANGED sheetVars
    /\ part # "view"       => UNCHANGED viewStateVars
    /\ part # "remembered" => UNCHANGED rememberedVars
    /\ part # "cells"      => UNCHANGED cellVars
    /\ part # "charts"     => UNCHANGED chartVars
    /\ part # "lists"      => UNCHANGED listVars
    /\ part # "stations"   => UNCHANGED stationVars
    /\ part # "boot"       => UNCHANGED bootVars
    /\ part # "oblasts"    => UNCHANGED tableVars
    /\ part # "refresh"    => UNCHANGED kitVars
    /\ part # "camera"     => UNCHANGED cameraVars
    /\ part # "hands"      => UNCHANGED handVars

BrowserNext ==
    /\ UNCHANGED subject
    /\ \/ subject = "replay" /\ ReplayNext
       \/ subject = "data" /\ MapNext
       \/ subject = "overlays" /\ OverlaysNext
       \/ subject = "chrome" /\ ChromeNext
       \/ subject = "sheets" /\ SheetsNext
       \/ subject = "view" /\ ViewStateNext
       \/ subject = "remembered" /\ RememberedNext
       \/ subject = "cells" /\ CellsNext
       \/ subject = "charts" /\ ChartsNext
       \/ subject = "lists" /\ ListsNext
       \/ subject = "stations" /\ StationsNext
       \/ subject = "boot" /\ BootNext
       \/ subject = "oblasts" /\ OblastTableNext
       \/ subject = "refresh" /\ KitRefreshNext
       \/ subject = "camera" /\ KitCameraNext
       \/ subject = "hands" /\ KitHandsNext
    /\ Others(subject)

browserVars ==
    <<subject, replayVars, mapVars, overlayVars, chromeVars, sheetVars,
      viewStateVars, rememberedVars, cellVars, chartVars, listVars,
      stationVars, bootVars, tableVars, kitVars, cameraVars, handVars>>

BrowserSpec == BrowserInit /\ [][BrowserNext]_browserVars

-----------------------------------------------------------------------------
(* Properties.  A costly one is evaluated only where its part moves.       *)

\* The shape of every part's state.
BrowserTypeOK ==
    /\ subject = "replay" => ReplayTypeOK
    /\ subject = "data" => MapTypeOK
    /\ subject = "overlays" => OverlaysTypeOK
    /\ subject = "chrome" => ChromeTypeOK
    /\ subject = "sheets" => SheetsTypeOK
    /\ subject = "view" => ViewStateTypeOK
    /\ subject = "remembered" => RememberedTypeOK
    /\ subject = "cells" => CellsTypeOK
    /\ subject = "charts" => ChartsTypeOK
    /\ subject = "lists" => ListsTypeOK

\* What the page shows is what was read: the cells the map draws; a chart, its caption
\* and its notice; the rows, the finder's answers; the counts, panel, strip and markers.
PagesTellTheTruth ==
    /\ subject = "cells" => DrawnFromReadings
    /\ subject = "charts" => ChartsTellTheTruth
    /\ subject = "lists" => ListsAnswer
    /\ subject = "stations" => StationsAgree

\* One grid request at a time, and the banner is the hint that applies.
MapDataHolds == OneGridFetch /\ HintIsTrue

\* The address and the storage bring back the view and the choices.
ChoicesComeBack == HashTellsTheView /\ ReadsLastChoice

\* The design kit's page: the table keeps the reader's rules, what is on screen
\* names the source it came from, the camera moves by as many units of the
\* drawing as it is given pixels, and a drag is not taken for a click.
KitPagesHold ==
    /\ subject = "oblasts" => TableKeepsItsRules
    /\ subject = "refresh" => SourceIsNamed
    /\ subject = "camera" => CameraKeepsPlace
    /\ subject = "hands" => DragsAreNotClicks

=============================================================================
