---------------------------- MODULE BrowserProofs ----------------------------
(***************************************************************************)
(* Proofs about parts of the browser's page that MCBrowser checks in one   *)
(* run: the map's data (MapData), the view in the address (ViewState),     *)
(* what is remembered between visits (Remembered), the hands on the kit's  *)
(* map (KitHands), the kit's refresh (KitRefresh) and the charts (Charts). *)
(* Each theorem is about a part's own specification; at the end, a         *)
(* behaviour of BrowserSpec is shown to be one of every part's, so that    *)
(* the theorems hold of the parts together.                                *)
(***************************************************************************)
EXTENDS MCBrowser, PageProofs, MarksProofs

-----------------------------------------------------------------------------
(***************************************************************************)
(* One grid request, and a banner that is true.                            *)
(*                                                                         *)
(* Two facts make the banner's claim inductive: the sticky error is only   *)
(* ever set with its text, and no pass of the opening is in flight before  *)
(* the opening has called refresh, so the opening cannot end without it.   *)
(***************************************************************************)
PassRecords == [by : {"none", "first", "move", "forced", "click", "link"},
                m : {"none", "asked"}, key : MarkerKeys \cup {NoKey},
                h : {"none", "later", "asked"}, url : GridURLs \cup {NoKey}]
PassTables == [PassIds -> PassRecords]

ViewTyped == /\ camera \in Cameras /\ slug \in Slugs \cup {NoSlug} /\ window \in Windows
             /\ anyTicked \in BOOLEAN

\* Every grid request of the table ps, but for pass p's, is the one abort ends.
OneAskedBut(ps, p, abort) == \A q \in PassIds : q # p /\ ps[q].h = "asked" => q = abort
NoFirst(ps) == \A q \in PassIds : ps[q].by # "first"

MapInv ==
  /\ ViewTyped
  /\ passes \in PassTables
  /\ OneGridFetch
  /\ sticky \in BOOLEAN /\ fellBack \in BOOLEAN
  /\ sticky => hint = "unavailable"
  /\ opening \in {"scales", "placing"} => NoFirst(passes)
  /\ HintIsTrue

LEMMA NoPassTyped == NoPass \in PassRecords
BY DEF NoPass, PassRecords

LEMMA MapInitInv == MapInit => MapInv
<1> SUFFICES ASSUME MapInit PROVE MapInv
  OBVIOUS
<1>1. ViewTyped
  BY MapDataAssumption DEF MapInit, ViewTyped
<1>2. passes \in PassTables /\ OneGridFetch /\ NoFirst(passes)
  BY NoPassTyped DEF MapInit, PassTables, OneGridFetch, NoFirst, NoPass
<1> QED
  BY <1>1, <1>2 DEF MapInit, MapInv, HintIsTrue

\* Keep frees finished slots and touches nothing else.
LEMMA KeepKeeps ==
  ASSUME NEW ps \in PassTables, NEW a
  PROVE  /\ Keep(ps) \in PassTables
         /\ (\A q \in PassIds : ps[q].h = "asked" => q = a)
               => (\A q \in PassIds : Keep(ps)[q].h = "asked" => q = a)
         /\ NoFirst(ps) => NoFirst(Keep(ps))
<1>1. \A q \in PassIds : Keep(ps)[q] \in {ps[q], NoPass}
  BY DEF Keep
<1>2. Keep(ps) \in PassTables
  BY NoPassTyped DEF Keep, PassTables
<1> QED
  BY <1>1, <1>2 DEF NoPass, NoFirst

\* Typed keys of the view a handler leaves.
LEMMA KeysTyped ==
  ASSUME ViewTyped'
  PROVE  MarkerKey \in MarkerKeys /\ GridURL \in GridURLs
<1>1. Tier \in {"country", "city", "sensors"}
  BY MapDataAssumption DEF Tier, ViewTyped
<1>2. Effective \in {"country", "city", "sensors"}
  BY <1>1 DEF Effective
<1> QED
  BY <1>2 DEF MarkerKey, MarkerKeys, GridURL, GridURLs, ViewTyped

\* refreshHexes leaves one request, the one its controller ends.
LEMMA HexCallKeeps ==
  ASSUME NEW ps \in PassTables, NEW p \in PassIds, ViewTyped', OneAskedBut(ps, p, hexAbort)
  PROVE  LET call == HexCall(ps, p)
         IN /\ call.passes \in PassTables
            /\ \A q \in PassIds : call.passes[q].h = "asked" => q = call.abort
            /\ NoFirst(ps) => NoFirst(call.passes)
<1> DEFINE call == HexCall(ps, p)
<1>1. CASE GridURL = hexUrl
  <2>1. call = [passes |-> [ps EXCEPT ![p].h = "none"], abort |-> hexAbort]
    BY <1>1 DEF HexCall
  <2>2. call.passes = [ps EXCEPT ![p].h = "none"] /\ call.abort = hexAbort
    BY <2>1
  <2>3. call.passes \in PassTables
    BY <2>2 DEF PassTables, PassRecords
  <2> QED
    BY <2>2, <2>3 DEF OneAskedBut, NoFirst, PassTables, PassRecords
<1>2. CASE GridURL # hexUrl
  <2> DEFINE after == [q \in PassIds |->
                      CASE q = p -> [ps[q] EXCEPT !.h = "asked", !.url = GridURL]
                        [] q = hexAbort /\ q # p /\ ps[q].h = "asked" -> [ps[q] EXCEPT !.h = "none"]
                        [] OTHER -> ps[q]]
  <2>1. call = [passes |-> after, abort |-> p]
    BY <1>2 DEF HexCall
  <2> HIDE DEF call, after
  <2>2. call.passes = after /\ call.abort = p
    BY <2>1
  <2> USE DEF after
  <2>3. \A q \in PassIds : after[q] \in PassRecords
    BY KeysTyped DEF PassTables, PassRecords
  <2>4. after \in PassTables
    BY <2>3 DEF PassTables
  <2>5. \A q \in PassIds : after[q].h = "asked" => q = p
    BY DEF OneAskedBut, PassTables, PassRecords
  <2>6. \A q \in PassIds : after[q].by = ps[q].by
    BY DEF PassTables, PassRecords
  <2> QED
    BY ZenonT(60), <2>2, <2>4, <2>5, <2>6 DEF NoFirst, call
<1> QED
  BY <1>1, <1>2

\* What a handler's calls leave: a table in order, and the hint of the new view.
LEMMA PassKeeps ==
  ASSUME MapInv, ViewTyped', NEW by \in {"first", "move", "forced", "click", "link"},
         NEW force \in BOOLEAN, NEW hexes \in {"now", "later", "none"},
         Pass(by, force, hexes)
  PROVE  /\ passes' \in PassTables /\ OneGridFetch'
         /\ sticky' \in BOOLEAN /\ fellBack' \in BOOLEAN
         /\ sticky' => hint' = "unavailable"
         /\ HintIsTrue'
         /\ NoFirst(passes) /\ by # "first" => NoFirst(passes')
<1>1. PICK p \in PassIds :
        LET chosenPass == [by |-> by, m |-> IF force \/ MarkerKey # tierKey THEN "asked" ELSE "none",
                    key |-> MarkerKey, h |-> IF hexes = "later" THEN "later" ELSE "none", url |-> NoKey]
            call == HexCall([passes EXCEPT ![p] = chosenPass], p)
        IN /\ fellBack' = (Effective # Tier)
           /\ ShowHint(mapHint(fellBack', anyTicked'))
           /\ IF hexes = "now"
              THEN passes' = Keep(call.passes) /\ hexAbort' = call.abort
              ELSE passes' = Keep([passes EXCEPT ![p] = chosenPass]) /\ UNCHANGED hexAbort
           /\ UNCHANGED sticky
  BY DEF Pass
<1> DEFINE chosenPass == [by |-> by, m |-> IF force \/ MarkerKey # tierKey THEN "asked" ELSE "none",
                   key |-> MarkerKey, h |-> IF hexes = "later" THEN "later" ELSE "none", url |-> NoKey]
           tried == [passes EXCEPT ![p] = chosenPass]
<1>2. chosenPass \in PassRecords
  BY KeysTyped DEF PassRecords
<1>3. tried \in PassTables
  BY <1>2 DEF MapInv, PassTables
<1>4. \A q \in PassIds : tried[q] = IF q = p THEN chosenPass ELSE passes[q]
  BY DEF MapInv, PassTables
<1>5. OneAskedBut(tried, p, hexAbort)
  BY <1>4 DEF MapInv, OneGridFetch, OneAskedBut
<1>6. NoFirst(passes) /\ by # "first" => NoFirst(tried)
  BY <1>4 DEF NoFirst
<1>7. \A q \in PassIds : tried[q].h = "asked" => q = hexAbort
  BY <1>4 DEF MapInv, OneGridFetch
<1>8. /\ passes' \in PassTables /\ OneGridFetch'
      /\ NoFirst(passes) /\ by # "first" => NoFirst(passes')
  <2>1. CASE hexes = "now"
    <3> DEFINE call == HexCall(tried, p)
    <3>1. passes' = Keep(call.passes) /\ hexAbort' = call.abort
      BY <1>1, <2>1
    <3>2. /\ call.passes \in PassTables
          /\ \A q \in PassIds : call.passes[q].h = "asked" => q = call.abort
          /\ NoFirst(tried) => NoFirst(call.passes)
      BY <1>3, <1>5, HexCallKeeps
    <3> HIDE DEF call, tried
    <3> QED
      BY <1>6, <3>1, <3>2, KeepKeeps DEF OneGridFetch
  <2>2. CASE hexes # "now"
    <3>1. passes' = Keep(tried) /\ hexAbort' = hexAbort
      BY <1>1, <2>2
    <3> HIDE DEF tried
    <3> QED
      BY <1>3, <1>6, <1>7, <3>1, KeepKeeps DEF OneGridFetch
  <2> QED
    BY <2>1, <2>2
<1>9. fellBack' \in BOOLEAN /\ sticky' \in BOOLEAN
  BY <1>1 DEF MapInv
<1>10. (sticky' => hint' = "unavailable") /\ HintIsTrue'
  BY <1>1, <1>9 DEF MapInv, ShowHint, mapHint, HintIsTrue, ViewTyped
<1> QED
  BY <1>8, <1>9, <1>10

\* The rest of a handler that awaited refresh.
LEMMA AfterMarkersKeeps ==
  ASSUME MapInv, ViewTyped', NEW ps \in PassTables, NEW p \in PassIds, AfterMarkers(ps, p),
         \A q \in PassIds : ps[q].h = passes[q].h /\ ps[q].by = passes[q].by
  PROVE  passes' \in PassTables /\ OneGridFetch' /\ (NoFirst(passes) => NoFirst(passes'))
<1>1. NoFirst(passes) => NoFirst(ps)
  BY DEF NoFirst
<1>2. \A q \in PassIds : ps[q].h = "asked" => q = hexAbort
  BY DEF MapInv, OneGridFetch
<1>3. CASE ps[p].h = "later"
  <2> DEFINE call == HexCall(ps, p)
  <2>1. passes' = Keep(call.passes) /\ hexAbort' = call.abort
    BY <1>3 DEF AfterMarkers
  <2>2. /\ call.passes \in PassTables
        /\ \A q \in PassIds : call.passes[q].h = "asked" => q = call.abort
        /\ NoFirst(ps) => NoFirst(call.passes)
    BY <1>2, HexCallKeeps DEF OneAskedBut
  <2> HIDE DEF call
  <2> QED
    BY <1>1, <2>1, <2>2, KeepKeeps DEF OneGridFetch
<1>4. CASE ps[p].h # "later"
  <2>1. passes' = Keep(ps) /\ hexAbort' = hexAbort
    BY <1>4 DEF AfterMarkers
  <2> QED
    BY <1>1, <1>2, <2>1, KeepKeeps DEF OneGridFetch
<1> QED
  BY <1>3, <1>4

\* Handlers that leave the passes, their controller and the hint alone.
LEMMA MapElsewhere ==
  ASSUME MapInv, ViewTyped', UNCHANGED <<passes, hexAbort, hint, sticky, fellBack, anyTicked, opening>>
  PROVE  MapInv'
BY DEF MapInv, OneGridFetch, NoFirst, HintIsTrue

LEMMA MapNextInv == MapInv /\ [MapNext]_mapVars => MapInv'
<1> SUFFICES ASSUME MapInv, [MapNext]_mapVars PROVE MapInv'
  OBVIOUS
<1> USE DEF Act, Ripe
<1>1. CASE UNCHANGED mapVars
  <2>1. ViewTyped'
    BY <1>1 DEF MapInv, ViewTyped, mapVars
  <2> QED
    BY <1>1, <2>1, MapElsewhere DEF mapVars
<1>2. ASSUME NEW ok \in BOOLEAN, ScalesSettle(ok) PROVE MapInv'
  <2>1. ViewTyped'
    BY <1>2 DEF MapInv, ViewTyped, ScalesSettle
  <2>2. passes' = passes /\ hexAbort' = hexAbort /\ fellBack' = fellBack /\ sticky' \in BOOLEAN
    BY <1>2 DEF ScalesSettle
  <2>3. NoFirst(passes)
    BY <1>2 DEF MapInv, ScalesSettle
  <2>4. opening' = "placing" /\ (sticky' => hint' = "unavailable")
    BY <1>2 DEF ScalesSettle
  <2> QED
    BY <2>1, <2>2, <2>3, <2>4 DEF MapInv, OneGridFetch, HintIsTrue
<1>3. ASSUME NEW c \in Cameras, NEW s \in Slugs \cup {NoSlug}, Place(c, s) PROVE MapInv'
  <2>1. ViewTyped' /\ opening' = "placed"
    BY <1>3 DEF MapInv, ViewTyped, Place
  <2> QED
    BY <1>3, <2>1, PassKeeps DEF Place, MapInv
<1>4. CASE PlaceNowhere
  <2>1. ViewTyped' /\ opening' = "unplaced"
    BY <1>4 DEF MapInv, ViewTyped, PlaceNowhere
  <2> QED
    BY <1>4, <2>1, PassKeeps DEF PlaceNowhere, MapInv
<1>5. CASE LateLocateFails
  <2>1. ViewTyped' /\ opening = "locating" /\ opening' = "done"
    BY <1>5 DEF MapInv, ViewTyped, LateLocateFails
  <2> QED
    BY <1>5, <2>1 DEF MapInv, LateLocateFails, OneGridFetch, HintIsTrue
<1>6. CASE LocateFails
  <2>1. ViewTyped'
    BY <1>6 DEF MapInv, ViewTyped, LocateFails
  <2>2. /\ UNCHANGED <<passes, hexAbort, sticky, fellBack, anyTicked, opening>>
        /\ hint' = IF sticky THEN hint ELSE "locate"
    BY <1>6 DEF LocateFails, ShowHint
  <2> QED
    BY <2>1, <2>2 DEF MapInv, OneGridFetch, NoFirst, HintIsTrue
\* A handler that makes a pass after the opening's, or beside it.
<1>7. ASSUME ViewTyped', opening' \in {opening, "done"},
             opening' = "done" => opening \notin {"scales", "placing"},
             NEW by \in {"move", "forced", "click", "link"},
             NEW force \in BOOLEAN, NEW hexes \in {"now", "later", "none"}, Pass(by, force, hexes)
      PROVE  MapInv'
  <2>1. opening' \in {"scales", "placing"} => NoFirst(passes)
    BY <1>7 DEF MapInv
  <2>2. by # "first"
    BY <1>7
  <2> QED
    BY <1>7, <2>1, <2>2, PassKeeps DEF MapInv
<1>8. ASSUME NEW c \in Cameras, NEW s \in Slugs, LateLocate(c, s) PROVE MapInv'
  <2>1. ViewTyped'
    BY <1>8 DEF MapInv, ViewTyped, LateLocate
  <2> QED
    BY <1>7, <1>8, <2>1 DEF LateLocate
<1>9. ASSUME NEW c \in Cameras, NEW s \in Slugs, ShowArea(c, s) PROVE MapInv'
  <2>1. ViewTyped'
    BY <1>9 DEF MapInv, ViewTyped, ShowArea
  <2> QED
    BY <1>7, <1>9, <2>1 DEF ShowArea
<1>10. ASSUME NEW c \in Cameras, NEW s \in Slugs, ReachSensor(c, s) PROVE MapInv'
  <2>1. ViewTyped'
    BY <1>10 DEF MapInv, ViewTyped, ReachSensor
  <2> QED
    BY <1>7, <1>10, <2>1 DEF ReachSensor
<1>11. ASSUME NEW c \in Cameras, Move(c) PROVE MapInv'
  <2>1. ViewTyped'
    BY <1>11 DEF MapInv, ViewTyped, Move
  <2> QED
    BY <1>11, <2>1, MapElsewhere DEF Move
<1>12. ASSUME NEW s \in Slugs, SelectArea(s) PROVE MapInv'
  <2>1. ViewTyped'
    BY <1>12 DEF MapInv, ViewTyped, SelectArea
  <2> QED
    BY <1>7, <1>12, <2>1 DEF SelectArea
<1>13. ASSUME NEW w \in Windows, PickWindow(w) PROVE MapInv'
  <2>1. ViewTyped'
    BY <1>13 DEF MapInv, ViewTyped, PickWindow
  <2> QED
    BY <1>7, <1>13, <2>1 DEF PickWindow
<1>14. CASE MoveEnd
  <2>1. ViewTyped'
    BY <1>14 DEF MapInv, ViewTyped, MoveEnd
  <2> QED
    BY <1>7, <1>14, <2>1 DEF MoveEnd
<1>15. CASE MetricChange
  <2>1. ViewTyped'
    BY <1>15 DEF MapInv, ViewTyped, MetricChange
  <2> QED
    BY <1>7, <1>15, <2>1 DEF MetricChange
<1>16. CASE ToggleSources
  <2>1. ViewTyped'
    BY <1>16 DEF MapInv, ViewTyped, ToggleSources
  <2>2. PICK p \in PassIds :
          LET call == HexCall([passes EXCEPT ![p] = [NoPass EXCEPT !.by = "click"]], p)
          IN passes' = Keep(call.passes) /\ hexAbort' = call.abort
    BY <1>16 DEF ToggleSources
  <2> DEFINE clicked_ == [passes EXCEPT ![p] = [NoPass EXCEPT !.by = "click"]]
             call == HexCall(clicked_, p)
  <2>3. [NoPass EXCEPT !.by = "click"] \in PassRecords /\ [NoPass EXCEPT !.by = "click"].by = "click"
    BY DEF NoPass, PassRecords
  <2>4. \A q \in PassIds : q # p => clicked_[q] = passes[q]
    BY DEF MapInv, PassTables
  <2>5. clicked_ \in PassTables /\ clicked_[p].by = "click"
    BY <2>3 DEF MapInv, PassTables
  <2>6. OneAskedBut(clicked_, p, hexAbort) /\ (NoFirst(passes) => NoFirst(clicked_))
    BY <2>4, <2>5 DEF MapInv, OneGridFetch, OneAskedBut, NoFirst
  <2> HIDE DEF clicked_
  <2>7. /\ call.passes \in PassTables
        /\ \A q \in PassIds : call.passes[q].h = "asked" => q = call.abort
        /\ NoFirst(clicked_) => NoFirst(call.passes)
    BY <2>1, <2>5, <2>6, HexCallKeeps
  <2>8. passes' = Keep(call.passes) /\ hexAbort' = call.abort
    BY <2>2 DEF clicked_
  <2> HIDE DEF call
  <2>9. passes' \in PassTables /\ OneGridFetch' /\ (NoFirst(passes) => NoFirst(passes'))
    BY <2>6, <2>7, <2>8, KeepKeeps DEF OneGridFetch
  <2>10. /\ UNCHANGED <<sticky, fellBack, opening>>
         /\ hint' = IF sticky THEN hint ELSE mapHint(fellBack, anyTicked')
    BY <1>16 DEF ToggleSources, ShowHint
  <2>11. (sticky' => hint' = "unavailable") /\ HintIsTrue'
    BY <2>1, <2>10 DEF MapInv, mapHint, HintIsTrue, ViewTyped
  <2> QED
    BY <2>1, <2>9, <2>10, <2>11 DEF MapInv
<1>17. ASSUME NEW p \in PassIds, MarkersAnswer(p) PROVE MapInv'
  <2> DEFINE ps == [passes EXCEPT ![p].m = "none"]
  <2>1. ViewTyped' /\ UNCHANGED <<anyTicked, opening, fellBack, hint, sticky>>
    BY <1>17 DEF MapInv, ViewTyped, MarkersAnswer, viewVars
  <2>2. ps \in PassTables /\ \A q \in PassIds : ps[q].h = passes[q].h /\ ps[q].by = passes[q].by
    BY DEF MapInv, PassTables, PassRecords
  <2>3. AfterMarkers(ps, p)
    BY <1>17 DEF MarkersAnswer
  <2> HIDE DEF ps
  <2>4. passes' \in PassTables /\ OneGridFetch' /\ (NoFirst(passes) => NoFirst(passes'))
    BY <2>1, <2>2, <2>3, AfterMarkersKeeps
  <2> QED
    BY <2>1, <2>4 DEF MapInv, HintIsTrue
<1>18. ASSUME NEW p \in PassIds, MarkersFail(p) PROVE MapInv'
  <2> DEFINE ps == [passes EXCEPT ![p].m = "none"]
  <2>1. /\ ViewTyped' /\ UNCHANGED <<anyTicked, opening, fellBack, sticky>>
        /\ hint' = IF sticky THEN hint ELSE "unavailable"
    BY <1>18 DEF MapInv, ViewTyped, MarkersFail, viewVars, ShowHint
  <2>2. ps \in PassTables /\ \A q \in PassIds : ps[q].h = passes[q].h /\ ps[q].by = passes[q].by
    BY DEF MapInv, PassTables, PassRecords
  <2>3. AfterMarkers(ps, p)
    BY <1>18 DEF MarkersFail
  <2> HIDE DEF ps
  <2>4. passes' \in PassTables /\ OneGridFetch' /\ (NoFirst(passes) => NoFirst(passes'))
    BY <2>1, <2>2, <2>3, AfterMarkersKeeps
  <2>5. hint' = "unavailable"
    BY <2>1 DEF MapInv
  <2> QED
    BY <2>1, <2>4, <2>5 DEF MapInv, HintIsTrue
<1>19. ASSUME NEW p \in PassIds, HexAnswer(p) \/ HexFail(p) PROVE MapInv'
  <2> DEFINE ps == [passes EXCEPT ![p].h = "none"]
  <2>1. /\ ViewTyped' /\ UNCHANGED <<anyTicked, opening, fellBack, hint, sticky, hexAbort>>
        /\ passes' = Keep(ps)
    BY <1>19 DEF MapInv, ViewTyped, HexAnswer, HexFail, viewVars
  <2>2. ps \in PassTables
    BY DEF MapInv, PassTables, PassRecords
  <2>3. \A q \in PassIds : (ps[q].h = "asked" => passes[q].h = "asked") /\ ps[q].by = passes[q].by
    BY DEF MapInv, PassTables, PassRecords
  <2>4. \A q \in PassIds : ps[q].h = "asked" => q = hexAbort
    BY <2>3 DEF MapInv, OneGridFetch
  <2>5. NoFirst(passes) => NoFirst(ps)
    BY <2>3 DEF NoFirst
  <2> HIDE DEF ps
  <2>6. passes' \in PassTables /\ OneGridFetch' /\ (NoFirst(passes) => NoFirst(passes'))
    BY <2>1, <2>2, <2>4, <2>5, KeepKeeps DEF OneGridFetch
  <2> QED
    BY <2>1, <2>6 DEF MapInv, HintIsTrue
<1>20. ASSUME NEW p \in PassIds, Settle(p) PROVE MapInv'
  <2>1. /\ ViewTyped' /\ UNCHANGED <<anyTicked, fellBack, hint, sticky, hexAbort>>
        /\ passes' = [passes EXCEPT ![p] = NoPass]
    BY <1>20 DEF MapInv, ViewTyped, Settle
  <2>2. passes' \in PassTables /\ \A q \in PassIds : passes'[q] \in {passes[q], NoPass}
    BY <2>1, NoPassTyped DEF MapInv, PassTables
  <2>3. OneGridFetch' /\ (NoFirst(passes) => NoFirst(passes'))
    BY <2>1, <2>2 DEF MapInv, OneGridFetch, NoFirst, NoPass
  <2>4. CASE passes[p].by = "first"
    <3>1. opening \notin {"scales", "placing"} /\ opening' \in {"locating", "done"}
      BY <1>20, <2>4 DEF MapInv, NoFirst, Settle
    <3> QED
      BY <2>1, <2>2, <2>3, <3>1 DEF MapInv, HintIsTrue
  <2>5. CASE passes[p].by # "first"
    <3>1. opening' = opening
      BY <1>20, <2>5 DEF Settle
    <3> QED
      BY <2>1, <2>2, <2>3, <3>1 DEF MapInv, HintIsTrue
  <2> QED
    BY <2>4, <2>5
<1>21. ASSUME NEW l \in ListIds, ListAnswer(l) \/ ListFail(l) PROVE MapInv'
  <2>1. ViewTyped'
    BY <1>21 DEF MapInv, ViewTyped, ListAnswer, ListFail, viewVars
  <2> QED
    BY <1>21, <2>1, MapElsewhere DEF ListAnswer, ListFail, viewVars
<1> QED
  BY <1>1, <1>2, <1>3, <1>4, <1>5, <1>6, <1>8, <1>9, <1>10, <1>11, <1>12, <1>13, <1>14, <1>15,
     <1>16, <1>17, <1>18, <1>19, <1>20, <1>21 DEF MapNext

\* mapdata.js's hexAbort and hintController: however many handlers run at once and
\* in whatever order their answers come, the grid request that is alive is the one
\* the next will abort, and the banner is the hint that applies or an error.
THEOREM MapDataAlwaysHolds == MapSpec => []MapDataHolds
<1>1. MapInv => MapDataHolds
  BY DEF MapInv, MapDataHolds
<1> QED
  BY <1>1, MapInitInv, MapNextInv, PTL DEF MapSpec

-----------------------------------------------------------------------------
(***************************************************************************)
(* The address tells the view.                                             *)
(*                                                                         *)
(* Reading undoes writing (HashRoundTrip) for every view there can be, the *)
(* empty selection of networks included, so a write that goes through      *)
(* leaves the address true whatever it said before; a move through the     *)
(* history that changes the hash leaves an event due, and the event makes  *)
(* the view what the address says.                                         *)
(***************************************************************************)
Views == [metric : Metrics, sensor : Ids \cup {Null}, sources : SUBSET SOURCES]

ViewInv ==
  /\ SharedView \in Views
  /\ entries \in Seq(Hashes) /\ at \in 1 .. Len(entries)
  /\ HashTellsTheView

LEMMA SharedViewTyped ==
  SharedView \in Views <=> /\ metric \in Metrics /\ sensorId \in Ids \cup {Null}
                           /\ sources \in SUBSET SOURCES
BY DEF SharedView, Views

LEMMA ParsedIsView ==
  ASSUME NEW hash \in Hashes
  PROVE  parseHash(hash) \in Views
<1>1. parseSources(hash.layers) \in SUBSET SOURCES
  BY DEF Hashes, parseSources
<1>2. parseSensorId(hash.sensor) \in Ids \cup {Null}
  BY DEF parseSensorId
<1> QED
  BY <1>1, <1>2, ViewStateAssumption DEF parseHash, Views

LEMMA HashRoundTrip ==
  ASSUME NEW chosenView \in Views
  PROVE  serialiseHash(chosenView) \in Hashes /\ parseHash(serialiseHash(chosenView)) = chosenView
<1> DEFINE hash == serialiseHash(chosenView)
<1>1. /\ hash.metric = IF chosenView.metric = DefaultMetric THEN Null ELSE chosenView.metric
      /\ hash.sensor = chosenView.sensor
      /\ hash.layers = IF chosenView.sources = SOURCES THEN {Null} ELSE chosenView.sources
  BY DEF serialiseHash, serialiseSources
<1>2. chosenView.metric \in Metrics /\ chosenView.sensor \in Ids \cup {Null} /\ chosenView.sources \in SUBSET SOURCES
  BY DEF Views
<1>3. hash \in Hashes
  BY <1>2 DEF serialiseHash, serialiseSources, Hashes
<1>4. (IF hash.metric \in Metrics THEN hash.metric ELSE DefaultMetric) = chosenView.metric
  BY <1>1, <1>2, ViewStateAssumption
<1>5. parseSensorId(hash.sensor) = chosenView.sensor
  BY <1>1, <1>2 DEF parseSensorId
<1>6. parseSources(hash.layers) = chosenView.sources
  <2>1. CASE chosenView.sources = SOURCES
    BY <1>1, <2>1 DEF parseSources
  <2>2. CASE chosenView.sources # SOURCES
    <3>1. hash.layers = chosenView.sources
      BY <1>1, <2>2
    <3>2. chosenView.sources # {Null}
      BY <1>2, ViewStateAssumption
    <3>3. chosenView.sources \cap SOURCES = chosenView.sources
      BY <1>2
    <3> QED
      BY <3>1, <3>2, <3>3 DEF parseSources
  <2> QED
    BY <2>1, <2>2
<1>7. chosenView = [metric |-> chosenView.metric, sensor |-> chosenView.sensor, sources |-> chosenView.sources]
  BY DEF Views
<1> HIDE DEF hash
<1>8. parseHash(hash) = chosenView
  BY <1>4, <1>5, <1>6, <1>7 DEF parseHash
<1> QED
  BY <1>3, <1>8 DEF hash

LEMMA ViewInitInv == ViewStateInit => ViewInv
<1> SUFFICES ASSUME ViewStateInit PROVE ViewInv
  OBVIOUS
<1>1. PICK hash \in Hashes :
        /\ entries = <<hash>>
        /\ metric = parseHash(hash).metric /\ sensorId = parseHash(hash).sensor
        /\ sources = parseHash(hash).sources
  BY DEF ViewStateInit
<1>2. parseHash(hash) \in Views
  BY ParsedIsView
<1>3. SharedView = parseHash(hash)
  BY <1>1, <1>2 DEF SharedView, Views
<1>4. at = 1 /\ entries \in Seq(Hashes) /\ Len(entries) = 1 /\ entries[1] = hash
  BY <1>1 DEF ViewStateInit
<1> QED
  BY <1>2, <1>3, <1>4 DEF ViewInv, HashTellsTheView

\* The entries after a new one is appended to those up to the one shown.
LEMMA PushedEntries ==
  ASSUME entries \in Seq(Hashes), at \in 1 .. Len(entries), NEW hash \in Hashes,
         entries' = Append(SubSeq(entries, 1, at), hash), at' = at + 1
  PROVE  entries' \in Seq(Hashes) /\ at' \in 1 .. Len(entries') /\ entries'[at'] = hash
<1> DEFINE kept == SubSeq(entries, 1, at)
<1>1. kept \in Seq(Hashes) /\ Len(kept) = at
  OBVIOUS
<1> HIDE DEF kept
<1>2. Append(kept, hash) \in Seq(Hashes) /\ Len(Append(kept, hash)) = at + 1
      /\ Append(kept, hash)[at + 1] = hash
  BY <1>1
<1> QED
  BY <1>2 DEF kept

LEMMA WriteKeeps ==
  ASSUME ViewInv, NEW push \in BOOLEAN, NEW chosenView \in Views, write(push, chosenView)
  PROVE  /\ entries' \in Seq(Hashes) /\ at' \in 1 .. Len(entries')
         /\ ~lag' => parseHash(entries'[at']) = chosenView
<1>1. serialiseHash(chosenView) \in Hashes /\ parseHash(serialiseHash(chosenView)) = chosenView
  BY HashRoundTrip
<1>2. CASE lag' = TRUE /\ UNCHANGED <<entries, at>>
  BY <1>2 DEF ViewInv
<1>3. CASE push /\ entries' = Append(SubSeq(entries, 1, at), serialiseHash(chosenView)) /\ at' = at + 1
  BY <1>1, <1>3, PushedEntries DEF ViewInv
<1>4. CASE entries' = [entries EXCEPT ![at] = serialiseHash(chosenView)] /\ at' = at
  <2>1. entries' \in Seq(Hashes) /\ Len(entries') = Len(entries) /\ entries'[at] = serialiseHash(chosenView)
    BY <1>1, <1>4 DEF ViewInv
  <2> QED
    BY <1>1, <1>4, <2>1 DEF ViewInv
<1> QED
  BY <1>2, <1>3, <1>4 DEF write

LEMMA ViewNextInv == ViewInv /\ [ViewStateNext]_viewStateVars => ViewInv'
<1> SUFFICES ASSUME ViewInv, [ViewStateNext]_viewStateVars PROVE ViewInv'
  OBVIOUS
<1> USE DEF Step, filterVars
<1>0. metric \in Metrics /\ sensorId \in Ids \cup {Null} /\ sources \in SUBSET SOURCES
  BY SharedViewTyped DEF ViewInv
\* A handler that writes the view it leaves.
<1>1. ASSUME SharedView' \in Views, NEW push \in BOOLEAN, write(push, SharedView') PROVE ViewInv'
  BY <1>1, WriteKeeps DEF ViewInv, HashTellsTheView
\* One that changes neither the view nor the address.
<1>2. ASSUME UNCHANGED <<metric, sensorId, sources, entries, at, echo, lag>> PROVE ViewInv'
  BY <1>2 DEF ViewInv, HashTellsTheView, SharedView
<1>3. ASSUME NEW m \in Metrics, SetMetric(m) PROVE ViewInv'
  <2>1. SharedView' = [SharedView EXCEPT !.metric = m] /\ SharedView' \in Views
    BY <1>0, <1>3 DEF SetMetric, SharedView, Views
  <2> QED
    BY <1>1, <1>3, <2>1 DEF SetMetric
<1>4. ASSUME NEW id \in Ids, OpenSensor(id) PROVE ViewInv'
  <2>1. SharedView' = [SharedView EXCEPT !.sensor = id] /\ SharedView' \in Views
    BY <1>0, <1>4 DEF OpenSensor, SharedView, Views
  <2> QED
    BY <1>1, <1>4, <2>1 DEF OpenSensor
<1>5. CASE CloseSensor
  <2>1. SharedView' = [SharedView EXCEPT !.sensor = Null] /\ SharedView' \in Views
    BY <1>0, <1>5 DEF CloseSensor, SharedView, Views
  <2> QED
    BY <1>1, <1>5, <2>1 DEF CloseSensor
<1>6. ASSUME NEW s \in SOURCES, ToggleSource(s) PROVE ViewInv'
  <2>1. sources' \in SUBSET SOURCES /\ UNCHANGED <<metric, sensorId, echo>>
    BY <1>0, <1>6 DEF ToggleSource
  <2>2. SharedView' = [SharedView EXCEPT !.sources = sources'] /\ SharedView' \in Views
    BY <1>0, <2>1 DEF SharedView, Views
  <2>3. CASE sources' # sources
    BY <1>1, <1>6, <2>2, <2>3 DEF ToggleSource
  <2>4. CASE sources' = sources
    BY <1>2, <1>6, <2>1, <2>4 DEF ToggleSource
  <2> QED
    BY <2>3, <2>4
<1>7. CASE BuildMenu
  BY <1>2, <1>7 DEF BuildMenu
<1>8. ASSUME NEW s \in STATUSES, SetStatus(s) PROVE ViewInv'
  BY <1>2, <1>8 DEF SetStatus
<1>9. CASE SetShowFaulty
  BY <1>2, <1>9 DEF SetShowFaulty
<1>10. ASSUME NEW i \in 1 .. MaxEntries, GoTo(i) PROVE ViewInv'
  <2>1. /\ UNCHANGED <<metric, sensorId, sources, entries>> /\ at' = i /\ i \in 1 .. Len(entries)
        /\ echo' = (echo \/ entries[i] # entries[at]) /\ lag' = (lag /\ entries[i] = entries[at])
    BY <1>10 DEF GoTo
  <2>2. ~echo' /\ ~lag' => ~echo /\ ~lag /\ entries'[at'] = entries[at]
    BY <2>1
  <2> QED
    BY <2>1, <2>2 DEF ViewInv, HashTellsTheView, SharedView
<1>11. ASSUME NEW hash \in Hashes, TypeHash(hash) PROVE ViewInv'
  <2>1. entries' \in Seq(Hashes) /\ at' \in 1 .. Len(entries')
    BY <1>11, PushedEntries DEF TypeHash, ViewInv
  <2>2. UNCHANGED <<metric, sensorId, sources>> /\ echo' = TRUE
    BY <1>11 DEF TypeHash
  <2> QED
    BY <2>1, <2>2 DEF ViewInv, HashTellsTheView, SharedView
<1>12. CASE onHashChange
  <2>1. parseHash(entries[at]) \in Views
    BY ParsedIsView DEF ViewInv
  <2>2. SharedView' = [metric |-> parseHash(entries[at]).metric, sensor |-> parseHash(entries[at]).sensor,
                       sources |-> parseHash(entries[at]).sources]
    BY <1>12 DEF onHashChange, SharedView
  <2>3. SharedView' = parseHash(entries[at])
    BY <2>1, <2>2 DEF Views
  <2> QED
    BY <1>12, <2>1, <2>3 DEF onHashChange, ViewInv, HashTellsTheView
<1>13. CASE UNCHANGED viewStateVars
  BY <1>2, <1>13 DEF viewStateVars
<1> QED
  BY <1>3, <1>4, <1>5, <1>6, <1>7, <1>8, <1>9, <1>10, <1>11, <1>12, <1>13 DEF ViewStateNext

-----------------------------------------------------------------------------
(***************************************************************************)
(* What is remembered reads as it was last given.                          *)
(***************************************************************************)
\* What a key holds, whichever of its two names it is under.
Held(key) == IF disk[key] # Unset THEN disk[key] ELSE legacy[key]

RememberedInv ==
  /\ DOMAIN disk = Keys /\ DOMAIN legacy = Keys /\ DOMAIN chosen = Keys
  /\ disk = [key \in Keys |-> disk[key]] /\ legacy = [key \in Keys |-> legacy[key]]
  /\ chosen = [key \in Keys |-> chosen[key]]
  /\ \A key \in Keys : Held(key) = chosen[key]

LEMMA RememberedInitInv == RememberedInit => RememberedInv
<1> SUFFICES ASSUME RememberedInit PROVE RememberedInv
  OBVIOUS
<1>1. PICK v \in Places \cup {Garbled, Unset} : \E old \in {"new", "old", "both"} :
        LET kept == [key \in Keys |-> IF key = "view" THEN v
                                      ELSE IF v = Unset THEN Unset
                                      ELSE CHOOSE a \in Accepted(key) : TRUE]
            none == [key \in Keys |-> Unset]
        IN /\ disk = IF old = "old" THEN none ELSE kept
           /\ legacy = IF old = "new" THEN none ELSE kept
           /\ chosen = kept
  BY DEF RememberedInit
<1> DEFINE kept == [key \in Keys |-> IF key = "view" THEN v
                                     ELSE IF v = Unset THEN Unset
                                     ELSE CHOOSE a \in Accepted(key) : TRUE]
           none == [key \in Keys |-> Unset]
<1>2. PICK old \in {"new", "old", "both"} : /\ disk = IF old = "old" THEN none ELSE kept
                                            /\ legacy = IF old = "new" THEN none ELSE kept
                                            /\ chosen = kept
  BY <1>1
<1>3. /\ DOMAIN none = Keys /\ none = [key \in Keys |-> none[key]] /\ \A key \in Keys : none[key] = Unset
      /\ DOMAIN kept = Keys /\ kept = [key \in Keys |-> kept[key]]
  OBVIOUS
<1> HIDE DEF kept, none
<1> QED
  BY <1>2, <1>3 DEF RememberedInv, Held

LEMMA DiskUnchanged ==
  ASSUME RememberedInv, UNCHANGED diskVars
  PROVE  RememberedInv'
BY DEF diskVars, RememberedInv, Held

LEMMA SetItemKeeps ==
  ASSUME RememberedInv, NEW key \in Keys, NEW value, setItem(key, value)
  PROVE  RememberedInv'
<1>1. CASE storage = "open"
  <2>1. /\ disk' = [disk EXCEPT ![key] = value]
        /\ legacy' = [legacy EXCEPT ![key] = Unset]
        /\ chosen' = [chosen EXCEPT ![key] = value]
    BY <1>1 DEF setItem
  <2>2. DOMAIN disk' = Keys /\ DOMAIN legacy' = Keys /\ DOMAIN chosen' = Keys
    BY <2>1 DEF RememberedInv
  <2>3. /\ disk' = [k \in Keys |-> disk'[k]] /\ legacy' = [k \in Keys |-> legacy'[k]]
        /\ chosen' = [k \in Keys |-> chosen'[k]]
    BY <2>1, <2>2 DEF RememberedInv
  <2>4. ASSUME NEW k \in Keys PROVE Held(k)' = chosen'[k]
    BY <2>1 DEF RememberedInv, Held
  <2> QED
    BY <2>2, <2>3, <2>4 DEF RememberedInv
<1>2. CASE storage # "open"
  BY <1>2, DiskUnchanged DEF setItem
<1> QED
  BY <1>1, <1>2

LEMMA RemoveItemsKeeps ==
  ASSUME RememberedInv, NEW keys, removeItems(keys)
  PROVE  RememberedInv'
<1>1. CASE storage # "blocked"
  BY <1>1 DEF removeItems, RememberedInv, Held
<1>2. CASE storage = "blocked"
  BY <1>2, DiskUnchanged DEF removeItems
<1> QED
  BY <1>1, <1>2

LEMMA RememberedNextInv == RememberedInv /\ [RememberedNext]_rememberedVars => RememberedInv'
<1> SUFFICES ASSUME RememberedInv, [RememberedNext]_rememberedVars PROVE RememberedInv'
  OBVIOUS
<1>0. {"favourite", "view", "theme", "hint"} \subseteq Keys
  BY DEF Keys
<1>1. CASE Arrive
  BY <1>0, <1>1, SetItemKeeps, DiskUnchanged DEF Arrive
<1>2. CASE Opening \/ CalloutEnds \/ LeavePage
  BY <1>2, DiskUnchanged DEF Opening, CalloutEnds, LeavePage
<1>3. CASE SaveView
  BY <1>0, <1>3, SetItemKeeps, DiskUnchanged DEF SaveView
<1>4. CASE ClearKeys
  BY <1>4, RemoveItemsKeeps DEF ClearKeys
<1>5. ASSUME NEW c, NEW button, ReaderMoves(c, button) PROVE RememberedInv'
  BY <1>5, DiskUnchanged DEF ReaderMoves
<1>6. ASSUME NEW c, PageMoves(c) PROVE RememberedInv'
  BY <1>6, DiskUnchanged DEF PageMoves
<1>7. ASSUME NEW id, ToggleStar(id) PROVE RememberedInv'
  BY <1>0, <1>7, SetItemKeeps, RemoveItemsKeeps DEF ToggleStar
<1>8. ASSUME NEW t, PickTheme(t) PROVE RememberedInv'
  BY <1>0, <1>8, SetItemKeeps, RemoveItemsKeeps DEF PickTheme
<1>9. CASE UNCHANGED rememberedVars
  BY <1>9, DiskUnchanged DEF rememberedVars, diskVars
<1> QED
  BY <1>1, <1>2, <1>3, <1>4, <1>5, <1>6, <1>7, <1>8, <1>9 DEF RememberedNext

\* viewstate.js's serialise and parse with viewstate.svelte.js's writes, and storage.js's
\* two names of a key: through refused writes, moves through the history, clears and
\* any number of visits, the address and the storage give back what was chosen last.
THEOREM ChoicesAlwaysComeBack == ViewStateSpec /\ RememberedSpec => []ChoicesComeBack
<1>1. ViewInv => HashTellsTheView
  BY DEF ViewInv
<1>2. RememberedInv => ReadsLastChoice
  BY DEF RememberedInv, ReadsLastChoice, getItem, Held
<1>3. HashTellsTheView /\ ReadsLastChoice => ChoicesComeBack
  BY DEF ChoicesComeBack
<1> QED
  BY <1>1, <1>2, <1>3, ViewInitInv, ViewNextInv, RememberedInitInv, RememberedNextInv, PTL
     DEF ViewStateSpec, RememberedSpec

-----------------------------------------------------------------------------
(***************************************************************************)
(* A drag is not a click, for any number of fingers.                       *)
(*                                                                         *)
(* The map's own pointers are the pressed ones, but for a mouse released   *)
(* where the canvas does not hear of it (missed, never forgotten).  A      *)
(* gesture of one hand (not together) holds one pointer and its position,  *)
(* so what travelled has been seen to move far when the release asks.      *)
(***************************************************************************)
OneHand ==
  /\ ~together => \A p, q \in pressed : p = q
  /\ ~together /\ ~missed /\ pressed # {} => lastSeen /\ (travelled => moved = "far")

HandsInv ==
  /\ NoHand \notin pointers /\ guardTimers \in Nat /\ fauxFull \in BOOLEAN
  /\ pressed \subseteq pointers
  /\ clicked # "none" => pressed = {}
  /\ OneHand
  /\ DragsAreNotClicks

LEMMA HandsInitInv == KitHandsInit => HandsInv
<1> SUFFICES ASSUME KitHandsInit PROVE HandsInv
  OBVIOUS
<1>1. saysFull = kitFull /\ bodyFull = fauxFull /\ fauxFull \in BOOLEAN
  BY DEF KitHandsInit, kitFull
<1>2. OneHand
  BY DEF KitHandsInit, OneHand
<1>3. DragsAreNotClicks
  BY <1>1 DEF KitHandsInit, DragsAreNotClicks
<1> QED
  BY <1>1, <1>2, <1>3 DEF KitHandsInit, HandsInv

\* The full-screen button reads the screen and nothing of the hands.
LEMMA FullKeeps ==
  ASSUME HandsInv, UNCHANGED dragVars, fauxFull' \in BOOLEAN,
         saysFull' = (nativeFull' \/ fauxFull'), bodyFull' = fauxFull'
  PROVE  HandsInv'
BY DEF HandsInv, OneHand, DragsAreNotClicks, kitFull, dragVars

\* A release in which the map is told.
LEMMA ReleaseKeeps ==
  ASSUME HandsInv, NEW p \in pressed, pressed' = pressed \ {p}, release(p),
         UNCHANGED <<travelled, together, missed, unheld, fullVars>>,
         \/ guardOn' = Armed /\ clicked' = clicked
         \/ ~together /\ guardOn' = FALSE /\ clicked' = IF Armed THEN "swallowed" ELSE "passed"
  PROVE  HandsInv'
<1>1. /\ pointers' = pointers \ {p} /\ NoHand \notin pointers' /\ pressed' \subseteq pointers'
      /\ clicked = "none"
  BY DEF HandsInv, release
<1>2. /\ guardTimers' \in Nat /\ guardTimers <= guardTimers'
      /\ pointers' = {} /\ moved = "far" => guardTimers' > 0
  BY DEF HandsInv, release
<1>3. Armed => guardTimers' > 0
  BY <1>2 DEF HandsInv, DragsAreNotClicks, Armed
<1>4. OneHand'
  <2>1. CASE pressed' = {}
    BY <2>1 DEF OneHand
  <2>2. CASE pressed' # {}
    <3>1. together
      BY <2>2 DEF HandsInv, OneHand
    <3> QED
      BY <3>1 DEF OneHand
  <2> QED
    BY <2>1, <2>2
<1>5. clicked' # "none" => pressed' = {}
  BY <1>1 DEF HandsInv, OneHand
<1>6. clicked' = "passed" => ~travelled' \/ missed'
  <2> SUFFICES ASSUME clicked' = "passed", travelled, ~missed PROVE FALSE
    OBVIOUS
  <2>1. ~together /\ ~Armed
    BY <1>1
  <2>2. moved = "far" /\ pointers = pressed /\ \A q \in pressed : q = p
    BY <2>1 DEF HandsInv, OneHand, DragsAreNotClicks
  <2>3. pointers' = {}
    BY <1>1, <2>2
  <2> QED
    BY <2>1, <2>2, <2>3 DEF Armed
<1>7. clicked' = "swallowed" => travelled' \/ missed' \/ guardTimers' > 0
  BY <1>1, <1>3
<1>8. guardOn' => guardTimers' > 0
  BY <1>3
<1>9. captured' # NoHand => pointers' # {}
  BY <1>1 DEF HandsInv, DragsAreNotClicks, release
<1>10. ~missed' => pointers' = pressed' /\ ~unheld'
  BY <1>1 DEF HandsInv, DragsAreNotClicks
<1>11. fauxFull' \in BOOLEAN /\ saysFull' = kitFull' /\ bodyFull' = fauxFull'
  BY DEF HandsInv, DragsAreNotClicks, fullVars, kitFull
<1> QED
  BY <1>1, <1>2, <1>4, <1>5, <1>6, <1>7, <1>8, <1>9, <1>10, <1>11 DEF HandsInv, DragsAreNotClicks

LEMMA HandsNextInv == HandsInv /\ [KitHandsNext]_handVars => HandsInv'
<1> SUFFICES ASSUME HandsInv, [KitHandsNext]_handVars PROVE HandsInv'
  OBVIOUS
<1>1. CASE PressMap
  <2>1. PICK p \in Fingers \cup {Mouse} :
          p \notin pressed /\ pressed' = pressed \cup {p} /\ pointers' = pointers \cup {p}
    BY <1>1 DEF PressMap
  <2>2. /\ moved' = "still" /\ clicked' = "none"
        /\ IF Cardinality(pointers') = 2 THEN lastSeen' = FALSE ELSE lastSeen' = TRUE
        /\ travelled' = (pressed # {} /\ travelled) /\ together' = (pressed # {})
        /\ UNCHANGED <<captured, guardOn, guardTimers, missed, unheld, fullVars>>
    BY <1>1 DEF PressMap
  <2>3. NoHand \notin pointers' /\ pressed' \subseteq pointers'
    BY <2>1, KitHandsAssumption DEF HandsInv
  <2>4. OneHand'
    <3>1. CASE pressed # {}
      BY <2>2, <3>1 DEF OneHand
    <3>2. CASE pressed = {}
      <4>1. pressed' = {p} /\ ~travelled'
        BY <2>1, <2>2, <3>2
      <4>2. ~missed => pointers' = {p}
        BY <2>1, <3>2 DEF HandsInv, DragsAreNotClicks
      <4>3. Cardinality({p}) = 1
        BY FS_Singleton
      <4>4. ~missed => lastSeen'
        BY <2>2, <4>2, <4>3
      <4> QED
        BY <2>2, <4>1, <4>4 DEF OneHand
    <3> QED
      BY <3>1, <3>2
  <2>5. /\ ~missed' => pointers' = pressed' /\ ~unheld'
        /\ captured' # NoHand => pointers' # {}
        /\ guardOn' => guardTimers' > 0
    BY <2>1, <2>2 DEF HandsInv, DragsAreNotClicks
  <2>6. fauxFull' \in BOOLEAN /\ saysFull' = kitFull' /\ bodyFull' = fauxFull' /\ guardTimers' \in Nat
    BY <2>2 DEF HandsInv, DragsAreNotClicks, fullVars, kitFull
  <2> QED
    BY <2>2, <2>3, <2>4, <2>5, <2>6 DEF HandsInv, DragsAreNotClicks
<1>2. CASE MovePointer
  <2>1. PICK p \in pointers, far \in BOOLEAN :
          /\ p \in pressed \cup {Mouse} /\ Carries(p, far)
          /\ travelled' = (travelled \/ (far /\ p \in pressed))
    BY <1>2 DEF MovePointer
  <2>2. UNCHANGED <<pressed, pointers, lastSeen, guardOn, guardTimers, together, missed, clicked, fullVars>>
    BY <1>2 DEF MovePointer
  <2>3. unheld' => unheld \/ pressed = {}
    BY <2>1 DEF Carries
  <2>4. captured' # NoHand => pointers' # {}
    BY <2>1, <2>2
  <2>5. ~missed' => pointers' = pressed' /\ ~unheld'
    BY <2>1, <2>2, <2>3 DEF HandsInv, DragsAreNotClicks
  <2>6. OneHand'
    <3> SUFFICES ASSUME ~together, ~missed, pressed # {} PROVE lastSeen' /\ (travelled' => moved' = "far")
      BY <2>2 DEF HandsInv, OneHand
    <3>1. pointers = {p} /\ p \in pressed
      BY <2>1 DEF HandsInv, OneHand, DragsAreNotClicks
    <3>2. Cardinality(pointers) = 1
      BY <3>1, FS_Singleton
    <3>3. lastSeen /\ (travelled => moved = "far")
      BY DEF HandsInv, OneHand
    <3>4. moved' = IF far \/ moved = "far" THEN "far" ELSE "slack"
      BY <2>1, <3>2, <3>3 DEF Carries
    <3> QED
      BY <2>1, <2>2, <3>3, <3>4
  <2>7. clicked' # "none" => (travelled' <=> travelled)
    BY <2>1, <2>2 DEF HandsInv
  <2>8. fauxFull' \in BOOLEAN /\ saysFull' = kitFull' /\ bodyFull' = fauxFull'
    BY <2>2 DEF HandsInv, DragsAreNotClicks, fullVars, kitFull
  <2>9. /\ clicked' = "passed" => ~travelled' \/ missed'
        /\ clicked' = "swallowed" => travelled' \/ missed' \/ guardTimers' > 0
    BY <2>2, <2>7 DEF HandsInv, DragsAreNotClicks
  <2> QED
    BY <2>2, <2>4, <2>5, <2>6, <2>8, <2>9 DEF HandsInv, DragsAreNotClicks
<1>3. CASE ReleaseMap
  <2>1. PICK p \in pressed : pressed' = pressed \ {p} /\ release(p)
    BY <1>3 DEF ReleaseMap
  <2>2. /\ UNCHANGED <<travelled, together, missed, unheld, fullVars>>
        /\ IF together THEN guardOn' = Armed /\ clicked' = clicked
           ELSE clicked' = (IF Armed THEN "swallowed" ELSE "passed") /\ guardOn' = FALSE
    BY <1>3 DEF ReleaseMap
  <2> QED
    BY <2>1, <2>2, ReleaseKeeps
<1>4. CASE CancelPointer
  <2>1. PICK p \in pressed : pressed' = pressed \ {p} /\ release(p)
    BY <1>4 DEF CancelPointer
  <2>2. UNCHANGED <<travelled, together, missed, unheld, fullVars>> /\ guardOn' = Armed /\ clicked' = clicked
    BY <1>4 DEF CancelPointer
  <2> QED
    BY <2>1, <2>2, ReleaseKeeps
<1>5. CASE ReleaseOutside
  <2>1. /\ pressed' = pressed \ {Mouse} /\ missed'
        /\ UNCHANGED <<pointers, captured, guardOn, guardTimers, together, clicked, fullVars>>
    BY <1>5 DEF ReleaseOutside
  <2> QED
    BY <2>1 DEF HandsInv, OneHand, DragsAreNotClicks, fullVars, kitFull
<1>6. CASE GuardExpires
  <2>1. /\ guardTimers > 0 /\ guardTimers' = guardTimers - 1 /\ guardOn' = FALSE /\ clicked' = "none"
        /\ UNCHANGED <<pressed, pointers, lastSeen, moved, captured, travelled, together, missed, unheld, fullVars>>
    BY <1>6 DEF GuardExpires
  <2>2. guardTimers' \in Nat
    BY <2>1 DEF HandsInv
  <2> QED
    BY <2>1, <2>2 DEF HandsInv, OneHand, DragsAreNotClicks, fullVars, kitFull
<1>7. CASE ClickFull
  BY <1>7, FullKeeps DEF ClickFull, pin, HandsInv, DragsAreNotClicks, kitFull
<1>8. CASE FullGranted
  BY <1>8, FullKeeps DEF FullGranted, HandsInv, DragsAreNotClicks
<1>9. CASE FullRefused
  BY <1>9, FullKeeps DEF FullRefused, pin
<1>10. CASE NativeEnds
  <2>1. UNCHANGED <<dragVars, fauxFull, bodyFull>> /\ nativeFull' = FALSE /\ saysFull' = fauxFull
    BY <1>10 DEF NativeEnds
  <2>2. fauxFull' \in BOOLEAN /\ bodyFull' = fauxFull' /\ saysFull' = (nativeFull' \/ fauxFull')
    BY <2>1 DEF HandsInv, DragsAreNotClicks
  <2> QED
    BY <2>1, <2>2, FullKeeps
<1>11. CASE EscapePinned
  BY <1>11, FullKeeps DEF EscapePinned, pin
<1>12. CASE UNCHANGED handVars
  BY <1>12, FullKeeps DEF handVars, fullVars, HandsInv, DragsAreNotClicks, kitFull
<1> QED
  BY <1>1, <1>2, <1>3, <1>4, <1>5, <1>6, <1>7, <1>8, <1>9, <1>10, <1>11, <1>12 DEF KitHandsNext

\* map-pan.js's moved, capture and click guard and map-fullscreen.js's pin: however
\* presses, pinches, cancellations, expiring timers and the browser's answers
\* interleave, a drag's click is swallowed and a press's click is not.
THEOREM DragsAreNeverClicks == KitHandsSpec => []DragsAreNotClicks
<1>1. HandsInv => DragsAreNotClicks
  BY DEF HandsInv
<1> QED
  BY <1>1, HandsInitInv, HandsNextInv, PTL DEF KitHandsSpec

-----------------------------------------------------------------------------
(***************************************************************************)
(* The kit's refresh: one line for what is on screen, and a next one due.  *)
(*                                                                         *)
(* The line is true because publish writes it with the data, and because   *)
(* a load that empties the table of loads publishes or gives up.  What is  *)
(* inherited needs that nothing is known before anything is shown.         *)
(***************************************************************************)
KitLoading == [by : {"opening", "start", "press", "timer", "return"},
            step : {"snapshot", "api"}, nr : Nat]

RefreshInv ==
  /\ loadsBegun \in Nat /\ kitLoads \subseteq KitLoading
  /\ dataShown = <<>> => parentKnown = {}
  /\ LineNamesSource /\ SourcesInherit /\ CardsAreOfShown /\ NextIsComing

LEMMA RefreshInitInv == KitRefreshInit => RefreshInv
  BY DEF KitRefreshInit, RefreshInv, KitLoading, LineNamesSource, SourcesInherit,
         CardsAreOfShown, NextIsComing

\* What either source gives.
LEMMA DataIsARecord ==
  ASSUME NEW d, d = fromSnapshot \/ \E i \in DOMAIN Issues : d = fromApi(i)
  PROVE  \E a, b, c, e : d = [live |-> a, issue |-> b, subs |-> c, scale |-> e]
BY DEF fromSnapshot, fromApi

\* publish: the line names it, what it lacks is inherited, and the cards are of it.
LEMMA PublishKeeps ==
  ASSUME RefreshInv, NEW d, d = fromSnapshot \/ \E i \in DOMAIN Issues : d = fromApi(i),
         publish(d), autoOn' = autoOn, kitMetric' = kitMetric
  PROVE  /\ dataShown' # <<>> /\ SourcesInherit' /\ CardsAreOfShown'
         /\ statusLine' = paintStamp(dataShown', autoOn')
         /\ statusLine' # <<"busy">>
<1> DEFINE inherits == d.subs = {} /\ dataShown # <<>>
           scale == scaleHeld \/ d.scale
           subs == IF inherits THEN dataShown.subs ELSE d.subs
           full == [d EXCEPT !.subs = IF inherits THEN dataShown.subs ELSE @, !.scale = scale]
<1>1. /\ parentKnown' = parentKnown \cup d.subs /\ scaleHeld' = scale
      /\ dataShown' = full /\ readouts' = paintReadouts(full, kitMetric)
      /\ statusLine' = paintStamp(full, autoOn)
  BY DEF publish
<1>2. PICK a, b, c, e : d = [live |-> a, issue |-> b, subs |-> c, scale |-> e]
  BY DataIsARecord
<1>3. full = [live |-> a, issue |-> b, subs |-> subs, scale |-> scale]
  <2>1. full = [d EXCEPT !.subs = subs, !.scale = scale]
    OBVIOUS
  <2> HIDE DEF subs, scale, full
  <2> QED
    BY <1>2, <2>1
<1>4. dataShown'.subs = subs /\ dataShown'.scale = scale
  BY <1>1, <1>3
<1>5. dataShown' # <<>>
  <2>1. "live" \in DOMAIN dataShown'
    BY <1>1, <1>3
  <2>2. DOMAIN <<>> = {}
    OBVIOUS
  <2> QED
    BY <2>1, <2>2
<1>6. SourcesInherit'
  <2>1. dataShown = <<>> => parentKnown = {}
    BY DEF RefreshInv
  <2>2. dataShown # <<>> => /\ dataShown.subs \subseteq parentKnown
                            /\ parentKnown # {} => dataShown.subs # {}
    BY DEF RefreshInv, SourcesInherit
  <2> HIDE DEF full
  <2> QED
    BY <1>1, <1>4, <2>1, <2>2 DEF SourcesInherit
<1>7. CardsAreOfShown'
  <2> HIDE DEF full
  <2>1. SUFFICES ASSUME Reporting' # {} PROVE readouts'.of = <<dataShown', kitMetric'>>
    BY DEF CardsAreOfShown
  <2>2. figuresIn(full, kitMetric) # {}
    BY <1>1, <2>1 DEF Reporting
  <2>3. readouts'.of = <<full, kitMetric>>
    BY <1>1, <2>2 DEF paintReadouts, cardsOf
  <2> QED
    BY <1>1, <2>3
<1>8. statusLine' # <<"busy">>
  <2>1. PICK x, y, z : statusLine' = <<x, y, z>>
    BY <1>1 DEF paintStamp
  <2>2. DOMAIN <<x, y, z>> # DOMAIN <<"busy">>
    OBVIOUS
  <2> QED
    BY <2>1, <2>2
<1> HIDE DEF full
<1> QED
  BY <1>1, <1>5, <1>6, <1>7, <1>8 DEF paintStamp

LEMMA RefreshNextInv == RefreshInv /\ [KitRefreshNext]_kitVars => RefreshInv'
<1> SUFFICES ASSUME RefreshInv, [KitRefreshNext]_kitVars PROVE RefreshInv'
  OBVIOUS
<1> USE DEF gateVars, shownVars
<1>1. /\ loadsBegun \in Nat /\ kitLoads \subseteq KitLoading
      /\ dataShown = <<>> => parentKnown = {}
  BY DEF RefreshInv
<1>2. ASSUME NEW by \in {"start", "press", "timer", "return"}, NEW others \in SUBSET kitLoads,
             Begin(by, others)
      PROVE  /\ loadsBegun' \in Nat /\ kitLoads' \subseteq KitLoading /\ others \subseteq kitLoads'
             /\ \E l \in kitLoads' : l.by = by
  <2> DEFINE l == [by |-> by, step |-> "api", nr |-> loadsBegun']
  <2>1. loadsBegun' \in Nat /\ kitLoads' = others \cup {l}
    BY <1>1, <1>2 DEF Begin
  <2>2. l \in KitLoading /\ l.by = by
    BY <2>1 DEF KitLoading
  <2> HIDE DEF l
  <2> QED
    BY <1>1, <2>1, <2>2
\* The data stand still, and with them what is inherited and the cards.
<1>3. ASSUME UNCHANGED <<dataShown, parentKnown, scaleHeld, readouts, kitMetric>>
      PROVE  (dataShown' = <<>> => parentKnown' = {}) /\ SourcesInherit' /\ CardsAreOfShown'
  BY <1>1, <1>3 DEF RefreshInv, SourcesInherit, CardsAreOfShown, Reporting, Body
\* The line and the button stay, and a load is under way if one was.
<1>4. ASSUME UNCHANGED <<dataShown, statusLine, refreshOff, autoOn>>,
             gaveUp' \/ (gaveUp' = gaveUp /\ (kitLoads # {} => kitLoads' # {}))
      PROVE  LineNamesSource'
  BY <1>4 DEF RefreshInv, LineNamesSource, paintStamp
\* A load begins: the line says busy, or what it said.
<1>5. ASSUME UNCHANGED <<dataShown, autoOn>>, kitLoads' # {},
             statusLine' = <<"busy">> \/ statusLine' = statusLine
      PROVE  LineNamesSource'
  BY <1>5 DEF RefreshInv, LineNamesSource, paintStamp
<1>6. CASE KitOpens
  <2> PICK l \in kitLoads : SnapshotFirst(l)
    BY <1>6 DEF KitOpens
  <2>1. /\ loadsBegun' \in Nat /\ kitLoads' \subseteq KitLoading /\ kitLoads' # {}
        /\ autoTimer' = TRUE /\ UNCHANGED <<autoOn, kitMetric, gaveUp>>
    BY <1>2 DEF SnapshotFirst
  <2>2. NextIsComing'
    BY <2>1 DEF NextIsComing
  <2>3. CASE publish(fromSnapshot)
    BY <2>1, <2>2, <2>3, PublishKeeps DEF RefreshInv, LineNamesSource
  <2>4. CASE UNCHANGED <<dataShown, parentKnown, scaleHeld, readouts, statusLine>>
    BY <1>3, <1>5, <2>1, <2>2, <2>4 DEF RefreshInv
  <2> QED
    BY <2>3, <2>4 DEF SnapshotFirst
\* A load that settles well: the line is of what it published.
<1>7. ASSUME NEW l \in kitLoads, NEW d, d = fromSnapshot \/ \E i \in DOMAIN Issues : d = fromApi(i),
             publish(d), Settles(l)
      PROVE  RefreshInv'
  <2>1. /\ kitLoads' = kitLoads \ {l} /\ refreshOff' = FALSE
        /\ autoTimer' = (autoTimer \/ l.by = "timer")
        /\ UNCHANGED <<kitMetric, autoOn, kitStarted, gaveUp, loadsBegun>>
    BY <1>7 DEF Settles
  <2>2. NextIsComing'
    BY <2>1 DEF RefreshInv, NextIsComing
  <2>3. LineNamesSource'
    BY <1>7, <2>1, PublishKeeps DEF LineNamesSource
  <2> QED
    BY <1>1, <1>7, <2>1, <2>2, <2>3, PublishKeeps DEF RefreshInv
<1>8. CASE ApiAnswers
  BY <1>7, <1>8 DEF ApiAnswers
<1>9. CASE SnapshotServes
  BY <1>7, <1>9 DEF SnapshotServes
<1>10. CASE ApiFails
  <2>1. PICK l \in kitLoads : kitLoads' = (kitLoads \ {l}) \cup {[l EXCEPT !.step = "snapshot"]}
    BY <1>10 DEF ApiFails
  <2> DEFINE again == [l EXCEPT !.step = "snapshot"]
  <2>2. again \in KitLoading /\ again.by = l.by
    BY <1>1 DEF KitLoading
  <2> HIDE DEF again
  <2>3. kitLoads' = (kitLoads \ {l}) \cup {again}
    BY <2>1 DEF again
  <2>4. /\ kitLoads' \subseteq KitLoading /\ kitLoads' # {}
        /\ (\E k \in kitLoads : k.by = "timer") => \E k \in kitLoads' : k.by = "timer"
    BY <1>1, <2>2, <2>3
  <2>5. UNCHANGED <<dataShown, parentKnown, scaleHeld, readouts, statusLine, kitMetric, refreshOff,
                    autoTimer, autoOn, kitStarted, gaveUp, loadsBegun>>
    BY <1>10 DEF ApiFails
  <2>6. NextIsComing'
    BY <2>4, <2>5 DEF RefreshInv, NextIsComing
  <2> QED
    BY <1>1, <1>3, <1>4, <2>4, <2>5, <2>6 DEF RefreshInv
<1>11. CASE SnapshotFails
  <2>1. /\ kitLoads' \subseteq kitLoads /\ gaveUp' = TRUE
        /\ UNCHANGED <<dataShown, parentKnown, scaleHeld, readouts, statusLine, kitMetric, refreshOff,
                       autoOn, loadsBegun>>
    BY <1>11 DEF SnapshotFails
  <2>2. NextIsComing'
    BY <2>1 DEF NextIsComing
  <2> QED
    BY <1>1, <1>3, <1>4, <2>1, <2>2 DEF RefreshInv
<1>12. CASE PressRefresh \/ Tick
  <2>1. PICK by \in {"press", "timer"} :
          /\ Begin(by, kitLoads) /\ statusLine' = <<"busy">>
          /\ autoTimer' = autoTimer \/ by = "timer"
          /\ UNCHANGED <<dataShown, parentKnown, scaleHeld, readouts, kitMetric, autoOn, kitStarted, gaveUp>>
    BY <1>12 DEF PressRefresh, Tick, Starts
  <2>2. /\ loadsBegun' \in Nat /\ kitLoads' \subseteq KitLoading /\ kitLoads \subseteq kitLoads'
        /\ \E l \in kitLoads' : l.by = by
    BY <1>2, <2>1
  <2>3. NextIsComing'
    BY <2>1, <2>2 DEF RefreshInv, NextIsComing
  <2> QED
    BY <1>3, <1>5, <2>1, <2>2, <2>3 DEF RefreshInv
<1>13. CASE Returns
  <2>1. /\ autoTimer' = TRUE
        /\ UNCHANGED <<dataShown, parentKnown, scaleHeld, readouts, kitMetric, autoOn, gaveUp>>
        /\ \/ UNCHANGED <<kitLoads, loadsBegun, refreshOff, statusLine>>
           \/ Begin("return", kitLoads) /\ statusLine' = <<"busy">>
    BY <1>13 DEF Returns, Starts
  <2>2. NextIsComing'
    BY <2>1 DEF NextIsComing
  <2>3. CASE UNCHANGED <<kitLoads, loadsBegun, refreshOff, statusLine>>
    BY <1>1, <1>3, <1>4, <2>1, <2>2, <2>3 DEF RefreshInv
  <2>4. CASE Begin("return", kitLoads) /\ statusLine' = <<"busy">>
    <3>1. loadsBegun' \in Nat /\ kitLoads' \subseteq KitLoading /\ kitLoads' # {}
      BY <1>2, <2>4
    <3> QED
      BY <1>3, <1>5, <2>1, <2>2, <2>4, <3>1 DEF RefreshInv
  <2> QED
    BY <2>1, <2>3, <2>4
<1>14. CASE ReaderTurns \/ UNCHANGED kitVars
  <2>1. UNCHANGED <<dataShown, parentKnown, scaleHeld, readouts, statusLine, kitMetric, refreshOff,
                    kitLoads, autoTimer, autoOn, kitStarted, gaveUp, loadsBegun>>
    BY <1>14 DEF ReaderTurns, kitVars
  <2>2. NextIsComing'
    BY <2>1 DEF RefreshInv, NextIsComing
  <2> QED
    BY <1>1, <1>3, <1>4, <2>1, <2>2 DEF RefreshInv
<1>15. CASE SwitchAuto
  <2>1. /\ autoTimer' = autoOn'
        /\ statusLine' = IF dataShown = <<>> THEN statusLine ELSE paintStamp(dataShown, autoOn')
        /\ UNCHANGED <<dataShown, parentKnown, scaleHeld, readouts, kitMetric, refreshOff,
                       kitLoads, kitStarted, gaveUp, loadsBegun>>
    BY <1>15 DEF SwitchAuto
  <2>2. NextIsComing'
    BY <2>1 DEF NextIsComing
  <2>3. statusLine' = <<"busy">> => statusLine = <<"busy">>
    <3>1. SUFFICES ASSUME statusLine' = <<"busy">>, dataShown # <<>> PROVE FALSE
      BY <2>1
    <3>2. PICK a, b, c : statusLine' = <<a, b, c>>
      BY <2>1, <3>1 DEF paintStamp
    <3>3. DOMAIN <<a, b, c>> # DOMAIN <<"busy">>
      OBVIOUS
    <3> QED
      BY <3>1, <3>2, <3>3
  <2>4. LineNamesSource'
    BY <2>1, <2>3 DEF RefreshInv, LineNamesSource, paintStamp
  <2> QED
    BY <1>1, <1>3, <2>1, <2>2, <2>4 DEF RefreshInv
<1>16. CASE SwitchMetric
  <2>1. /\ readouts' = IF dataShown = <<>> THEN readouts ELSE paintReadouts(dataShown, kitMetric')
        /\ UNCHANGED <<dataShown, parentKnown, scaleHeld, statusLine, refreshOff, kitLoads,
                       autoTimer, autoOn, kitStarted, gaveUp, loadsBegun>>
    BY <1>16 DEF SwitchMetric
  <2>2. CardsAreOfShown'
    <3>1. SUFFICES ASSUME dataShown # <<>>, Reporting' # {} PROVE readouts'.of = <<dataShown', kitMetric'>>
      BY <2>1 DEF CardsAreOfShown
    <3>2. figuresIn(dataShown, kitMetric') # {}
      BY <2>1, <3>1 DEF Reporting
    <3>3. readouts'.of = <<dataShown, kitMetric'>>
      BY <2>1, <3>1, <3>2 DEF paintReadouts, cardsOf
    <3> QED
      BY <2>1, <3>3
  <2>3. NextIsComing' /\ SourcesInherit'
    BY <2>1 DEF RefreshInv, NextIsComing, SourcesInherit
  <2> QED
    BY <1>1, <1>4, <2>1, <2>2, <2>3 DEF RefreshInv
<1> QED
  BY <1>6, <1>8, <1>9, <1>10, <1>11, <1>12, <1>13, <1>14, <1>15, <1>16 DEF KitRefreshNext

\* What the kit's page can show.
Sources == {Bundled} \cup {Issues[i] : i \in DOMAIN Issues}

\* f lists the n members of data by value, and by place among equals.
ListsByValue(f, n, data, value) ==
  /\ f \in [1 .. n -> data]
  /\ \A i \in data : \E j \in 1 .. n : f[j] = i
  /\ Apart(n, f) /\ Rises(n, f, value)
  /\ \A i, j \in 1 .. n : (\/ value[f[i]] < value[f[j]]
                           \/ value[f[i]] = value[f[j]] /\ f[i] <= f[j]) <=> i <= j

LEMMA ByValueRises ==
  ASSUME NEW data, IsFiniteSet(data), data \subseteq Int,
         NEW value, \A i \in data : value[i] \in Int, NEW n, n = Cardinality(data)
  PROVE  ListsByValue(Sorted(data, ByValue(value, data)), n, data, value)
<1>1. PICK before, f : before = ByValue(value, data) /\ f = Sorted(data, before)
  OBVIOUS
<1>2. InTurn(data, before, f)
  BY <1>1, ByValueOrders, SortedInTurn
<1>3. n \in Nat
  BY FS_CardinalityType
<1>4. /\ f \in [1 .. n -> data]
      /\ \A i, j \in 1 .. n : i < j => <<f[i], f[j]>> \in before /\ f[i] # f[j]
      /\ \A x \in data : \E i \in 1 .. n : f[i] = x
  BY <1>2, <1>3 DEF InTurn
<1>5. \A x, y \in data : <<x, y>> \in before <=> \/ value[x] < value[y]
                                                 \/ value[x] = value[y] /\ x < y
  BY <1>1 DEF ByValue
<1>6. \A i \in 1 .. n : f[i] \in data /\ f[i] \in Int /\ value[f[i]] \in Int
  BY <1>4
<1>7. Apart(n, f)
  BY <1>4 DEF Apart
<1>8. \A i, j \in 1 .. n : i < j => \/ value[f[i]] < value[f[j]]
                                    \/ value[f[i]] = value[f[j]] /\ f[i] < f[j]
  BY <1>4, <1>5, <1>6
<1>9. Rises(n, f, value)
  BY <1>6, <1>8 DEF Rises
<1>10. ASSUME NEW i \in 1 .. n, NEW j \in 1 .. n
       PROVE  (\/ value[f[i]] < value[f[j]]
               \/ value[f[i]] = value[f[j]] /\ f[i] <= f[j]) <=> i <= j
  <2>1. i \in Int /\ j \in Int /\ (i < j \/ i = j \/ j < i)
    OBVIOUS
  <2>2. CASE i < j
    BY <1>6, <1>8, <2>1, <2>2
  <2>3. CASE i = j
    BY <1>6, <2>1, <2>3
  <2>4. CASE j < i
    <3>1. \/ value[f[j]] < value[f[i]]
          \/ value[f[j]] = value[f[i]] /\ f[j] < f[i]
      BY <1>8, <2>4
    <3>2. ~(i <= j)
      BY <2>1, <2>4
    <3>3. f[i] \in Int /\ f[j] \in Int /\ value[f[i]] \in Int /\ value[f[j]] \in Int
      BY <1>6
    <3> QED  BY <3>1, <3>2, <3>3
  <2> QED  BY <2>1, <2>2, <2>3, <2>4
<1> QED  BY <1>1, <1>4, <1>7, <1>9, <1>10 DEF ListsByValue

\* The figs paintReadouts makes: none of the values is over the top one, and the median
\* halves them.
LEMMA CardsPaintedRight ==
  ASSUME NEW d, NEW m \in {"p2", "p10"}, Body(d) \in Sources,
         NEW value, value = Body(d)[m],
         NEW data, data = figuresIn(d, m), data # {},
         NEW figs, figs = cardsOf(d, m)
  PROVE  /\ figs.of = <<d, m>>
         /\ \A i \in data : value[i] <= figs.top
         /\ 2 * Cardinality(LowerHalf(data, value, figs.median2)) <= Cardinality(data)
         /\ 2 * Cardinality(UpperHalf(data, value, figs.median2)) <= Cardinality(data)
         /\ figs.covered + figs.silent = Len(value)
<1>1. value \in Seq(Int \cup {NoFigure})
  BY KitRefreshAssumption DEF Sources
<1>2. PICK len \in Nat : len = Len(value) /\ DOMAIN value = 1 .. len
  BY <1>1
<1>3. \A i \in 1 .. len : value[i] \in Int \cup {NoFigure}
  BY <1>1, <1>2
<1>4. data \subseteq 1 .. len /\ data \subseteq Int /\ \A i \in data : value[i] \in Int
  BY <1>2, <1>3 DEF figuresIn
<1>5. IsFiniteSet(1 .. len)
  BY FS_Interval
<1>6. PICK n \in Nat : n = Cardinality(data) /\ IsFiniteSet(data)
  BY <1>4, <1>5, FS_Subset, FS_CardinalityType
<1>7. n >= 1
  BY <1>6, FS_EmptySet
<1>8. PICK f : /\ f \in [1 .. n -> data] /\ \A i \in data : \E j \in 1 .. n : f[j] = i
               /\ Apart(n, f) /\ Rises(n, f, value)
               /\ \A i, j \in 1 .. n : (\/ value[f[i]] < value[f[j]]
                                        \/ value[f[i]] = value[f[j]] /\ f[i] <= f[j]) <=> i <= j
  <2>1. ListsByValue(Sorted(data, ByValue(value, data)), n, data, value)
    BY <1>4, <1>6, ByValueRises
  <2> QED  BY <2>1 DEF ListsByValue
<1> DEFINE rank(i) == Cardinality({k \in data : value[k] < value[i] \/ (value[k] = value[i] /\ k <= i)})
           nth(r) == value[CHOOSE i \in data : rank(i) = r]
<1>9. \A j \in 1 .. n : rank(f[j]) = j
  <2> SUFFICES ASSUME NEW j \in 1 .. n PROVE rank(f[j]) = j
    OBVIOUS
  <2>1. PICK T : T = {k \in data : value[k] < value[f[j]] \/ (value[k] = value[f[j]] /\ k <= f[j])}
    OBVIOUS
  <2>2. T = Stretch(f, 1, j)
    <3>1. ASSUME NEW k \in T PROVE k \in Stretch(f, 1, j)
      <4>1. PICK i \in 1 .. n : f[i] = k
        BY <1>8, <2>1
      <4>2. i <= j
        BY <1>8, <2>1, <4>1
      <4> QED  BY <4>1, <4>2 DEF Stretch
    <3>2. ASSUME NEW i \in 1 .. j PROVE f[i] \in T
      <4>1. i \in 1 .. n /\ i <= j
        OBVIOUS
      <4>2. f[i] \in data
        BY <1>8, <4>1
      <4>3. value[f[i]] < value[f[j]] \/ (value[f[i]] = value[f[j]] /\ f[i] <= f[j])
        BY <1>8, <4>1
      <4> QED  BY <2>1, <4>2, <4>3
    <3> QED  BY <3>1, <3>2 DEF Stretch
  <2>3. 1 \in Int /\ j \in Int /\ 1 <= 1 /\ j <= n /\ 1 <= j + 1 /\ j - 1 + 1 = j
    OBVIOUS
  <2>4. Cardinality(Stretch(f, 1, j)) = j - 1 + 1
    <3>1. n \in Nat /\ Apart(n, f)
      BY <1>6, <1>8
    <3> QED  BY ONLY <2>3, <3>1, ApartCount
  <2>5. Cardinality(T) = j
    BY <2>2, <2>3, <2>4
  <2> QED  BY <2>1, <2>5
<1>10. \A r \in 1 .. n : nth(r) = value[f[r]]
  <2> SUFFICES ASSUME NEW r \in 1 .. n PROVE nth(r) = value[f[r]]
    OBVIOUS
  <2> HIDE DEF rank
  <2>1. f[r] \in data /\ rank(f[r]) = r
    BY <1>8, <1>9
  <2>2. PICK i : i = CHOOSE k \in data : rank(k) = r
    OBVIOUS
  <2>3. i \in data /\ rank(i) = r
    BY <2>1, <2>2
  <2>4. PICK j \in 1 .. n : f[j] = i
    BY <1>8, <2>3
  <2>5. j = r
    BY <1>9, <2>3, <2>4
  <2> QED  BY <2>2, <2>4, <2>5
<1>11. figs = [of |-> <<d, m>>, top |-> nth(n), silent |-> Len(value) - n, covered |-> n,
                median2 |-> IF n % 2 = 1 THEN 2 * nth(n \div 2 + 1) ELSE nth(n \div 2) + nth(n \div 2 + 1)]
  BY <1>6 DEF cardsOf
<1> HIDE DEF nth
<1>12. PICK h \in Nat : h = n \div 2 /\ h + 1 \in 1 .. n /\ (n % 2 # 1 => h \in 1 .. n)
  <2>1. n \div 2 \in Nat
    BY <1>7
  <2>2. n \div 2 + 1 \in 1 .. n /\ (n % 2 # 1 => n \div 2 \in 1 .. n)
    BY <1>7
  <2> QED  BY <2>1, <2>2
<1>13. figs.median2 = Middle(n, f, value)
  BY <1>10, <1>11, <1>12 DEF Middle
<1>14. figs.top = value[f[n]] /\ figs.covered = n /\ figs.silent = len - n /\ figs.of = <<d, m>>
  BY <1>2, <1>7, <1>10, <1>11
<1>15. \A i \in data : value[i] <= figs.top
  <2> SUFFICES ASSUME NEW i \in data PROVE value[i] <= value[f[n]]
    BY <1>14
  <2>1. PICK j \in 1 .. n : f[j] = i
    BY <1>8
  <2>2. j = n \/ j < n
    OBVIOUS
  <2>3. n \in 1 .. n /\ value[i] \in Int
    BY <1>4, <1>7
  <2> QED  BY <1>8, <2>1, <2>2, <2>3 DEF Rises
<1>16. n >= 1 /\ \A x \in data : \E i \in 1 .. n : f[i] = x
  BY <1>7, <1>8
<1>17. PICK half2 : half2 = figs.median2
  OBVIOUS
<1>18. /\ 2 * Cardinality(LowerHalf(data, value, half2)) <= n
       /\ 2 * Cardinality(UpperHalf(data, value, half2)) <= n
  BY <1>6, <1>8, <1>13, <1>16, <1>17, MiddleHalves
<1>19. figs.covered + figs.silent = Len(value)
  BY <1>2, <1>14
<1> QED  BY <1>6, <1>14, <1>15, <1>17, <1>18, <1>19

\* What is on screen came from a source, and the figs were painted from it.
PaintedInv ==
  /\ dataShown # <<>> => Body(dataShown) \in Sources
  /\ kitMetric \in {"p2", "p10"}
  /\ dataShown # <<>> /\ Reporting # {} => readouts = cardsOf(dataShown, kitMetric)

LEMMA PaintedInitInv == KitRefreshInit => PaintedInv
  BY DEF KitRefreshInit, PaintedInv

LEMMA PublishPaints ==
  ASSUME PaintedInv, NEW d, d = fromSnapshot \/ \E i \in DOMAIN Issues : d = fromApi(i),
         publish(d), kitMetric' = kitMetric
  PROVE  PaintedInv'
<1> DEFINE inherits == d.subs = {} /\ dataShown # <<>>
           scale == scaleHeld \/ d.scale
           subs == IF inherits THEN dataShown.subs ELSE d.subs
<1>1. PICK full, s : /\ full = [d EXCEPT !.subs = subs, !.scale = s]
                     /\ dataShown' = full /\ readouts' = paintReadouts(full, kitMetric)
  BY DEF publish
<1>2. PICK a, b, c, e : d = [live |-> a, issue |-> b, subs |-> c, scale |-> e]
  BY DataIsARecord
<1>3. PICK t : t = subs
  OBVIOUS
<1>4. full = [live |-> a, issue |-> b, subs |-> t, scale |-> s]
  BY ONLY <1>1, <1>2, <1>3
<1>5. full.live = d.live /\ full.issue = d.issue
  BY <1>2, <1>4
<1>6. Body(full) = Body(d)
  BY <1>5 DEF Body
<1>7. Body(d) \in Sources
  BY DEF fromSnapshot, fromApi, Body, Sources
<1>8. Body(dataShown') = Body(full) /\ Body(dataShown)' = Body(full)
  BY <1>1 DEF Body
<1>9. ASSUME Reporting' # {} PROVE readouts' = cardsOf(dataShown', kitMetric')
  <2>1. figuresIn(full, kitMetric) # {}
    BY <1>1, <1>9 DEF Reporting
  <2> QED  BY <1>1, <2>1 DEF paintReadouts
<1> QED  BY <1>6, <1>7, <1>8, <1>9 DEF PaintedInv

LEMMA PaintedNextInv == PaintedInv /\ [KitRefreshNext]_kitVars => PaintedInv'
<1> SUFFICES ASSUME PaintedInv, [KitRefreshNext]_kitVars PROVE PaintedInv'
  OBVIOUS
<1>1. ASSUME dataShown' = dataShown, readouts' = readouts, kitMetric' = kitMetric
      PROVE  PaintedInv'
  BY <1>1 DEF PaintedInv, Reporting
<1>2. CASE UNCHANGED kitVars
  BY <1>1, <1>2 DEF kitVars, shownVars
<1>3. ASSUME KitOpens PROVE PaintedInv'
  <2>1. CASE publish(fromSnapshot)
    BY <1>3, <2>1, PublishPaints DEF KitOpens, SnapshotFirst
  <2>2. CASE UNCHANGED <<dataShown, parentKnown, scaleHeld, readouts, statusLine>>
    BY <1>1, <1>3, <2>2 DEF KitOpens, SnapshotFirst
  <2> QED  BY <1>3, <2>1, <2>2 DEF KitOpens, SnapshotFirst
<1>4. ASSUME ApiAnswers PROVE PaintedInv'
  <2>1. PICK i \in DOMAIN Issues : publish(fromApi(i)) /\ kitMetric' = kitMetric
    BY <1>4 DEF ApiAnswers, Settles
  <2> QED  BY <2>1, PublishPaints
<1>5. ASSUME SnapshotServes PROVE PaintedInv'
  BY <1>5, PublishPaints DEF SnapshotServes, Settles
<1>6. ASSUME SwitchMetric PROVE PaintedInv'
  <2>1. PICK m \in {"p2", "p10"} : kitMetric' = m
    BY <1>6 DEF SwitchMetric
  <2>2. /\ dataShown' = dataShown
        /\ readouts' = IF dataShown = <<>> THEN readouts ELSE paintReadouts(dataShown, m)
    BY <1>6, <2>1 DEF SwitchMetric
  <2>3. ASSUME dataShown # <<>>, Reporting' # {} PROVE readouts' = cardsOf(dataShown', kitMetric')
    <3>1. figuresIn(dataShown, m) # {}
      BY <2>1, <2>2, <2>3 DEF Reporting
    <3> QED  BY <2>1, <2>2, <2>3, <3>1 DEF paintReadouts
  <2> QED  BY <2>1, <2>2, <2>3 DEF PaintedInv, Body
<1>7. CASE ApiFails \/ SnapshotFails \/ PressRefresh \/ Tick \/ Returns \/ ReaderTurns \/ SwitchAuto
  BY <1>1, <1>7
  DEF ApiFails, SnapshotFails, PressRefresh, Tick, Returns, ReaderTurns, SwitchAuto, shownVars
<1> QED  BY <1>2, <1>3, <1>4, <1>5, <1>6, <1>7 DEF KitRefreshNext

LEMMA PaintedAreRight == PaintedInv => CardsAreRight
<1> SUFFICES ASSUME PaintedInv, dataShown # <<>>, Reporting # {} PROVE CardsAreRight
  BY DEF CardsAreRight
<1>1. PICK value, figs : value = Body(dataShown)[kitMetric] /\ figs = readouts
  OBVIOUS
<1>2. PICK data : data = Reporting
  OBVIOUS
<1>3. PICK m \in {"p2", "p10"} : m = kitMetric
  BY DEF PaintedInv
<1>4. /\ Body(dataShown) \in Sources /\ data # {} /\ data = figuresIn(dataShown, m)
      /\ figs = cardsOf(dataShown, m)
  BY <1>1, <1>2, <1>3 DEF PaintedInv, Reporting
<1>5. value = Body(dataShown)[m]
  BY <1>1, <1>3
<1>6. /\ \A i \in data : value[i] <= figs.top
      /\ 2 * Cardinality(LowerHalf(data, value, figs.median2)) <= Cardinality(data)
      /\ 2 * Cardinality(UpperHalf(data, value, figs.median2)) <= Cardinality(data)
      /\ figs.covered + figs.silent = Len(value)
  BY <1>2, <1>4, <1>5, CardsPaintedRight
<1> QED  BY <1>1, <1>2, <1>6 DEF CardsAreRight, LowerHalf, UpperHalf

\* The kit's refresh (airbg-data.js): through any loads under way at once, failures and
\* gestures, the line names the source on screen, what one source lacks is kept from the
\* other, the cards are of the data and metric in hand, their median halves the values and
\* none is over their top, and a next refresh is coming.
THEOREM RefreshAlwaysNamed == KitRefreshSpec => []SourceIsNamed
<1>1. RefreshInv /\ PaintedInv => SourceIsNamed
  BY PaintedAreRight DEF RefreshInv, SourceIsNamed
<1> QED
  BY RefreshInitInv, RefreshNextInv, PaintedInitInv, PaintedNextInv, <1>1, PTL DEF KitRefreshSpec

-----------------------------------------------------------------------------
(***************************************************************************)
(* The charts: through any selections, docks, cards and answers, what is   *)
(* plotted is what is selected.                                            *)
(*                                                                         *)
(* A run's number ties it to its chart: a run whose number the chart still *)
(* bears asked for the lines wanted now, so whatever it answers is of the  *)
(* present selection, and a chart that is loading has such a run.  A scale *)
(* is numbered by the first metric of its unit, and a recursive function   *)
(* says what is left when a metric is taken off; both are reasoned about   *)
(* from the library's theorem that < is well founded on the naturals.      *)
(***************************************************************************)
ChartIds == {"panel", "dock"}
Says == {"none", "loading", "ok", "empty", "unavailable"}

\* Runs and charts by their numbers: what a live run asked for is what is wanted.
RunsTyped ==
  /\ gestures \in Nat
  /\ DOMAIN charts = ChartIds /\ charts = [c \in ChartIds |-> charts[c]]
  /\ \A c \in ChartIds :
       /\ charts[c] = [status |-> charts[c].status, run |-> charts[c].run,
                       of |-> charts[c].of, xs |-> charts[c].xs]
       /\ charts[c].status \in Says /\ charts[c].run \in Int /\ charts[c].run <= gestures
       /\ charts[c].status = "none" => charts[c] = Nothing
  /\ \A r \in runs :
       /\ r = [chart |-> r.chart, run |-> r.run, lines |-> r.lines, left |-> r.left, xs |-> r.xs]
       /\ r.chart \in ChartIds /\ r.run \in 0 .. gestures

\* What the charts say when `want` is what is selected, with the dock open or not.
Tells(want, dock) ==
  /\ \A r \in runs : charts[r.chart].run = r.run => r.lines = want
  /\ \A c \in ChartIds :
       /\ (charts[c] = Nothing) = (want = {} \/ ~Mounted(c, dock))
       /\ charts[c].status = "loading" =>
            \E r \in runs : r.chart = c /\ r.run = charts[c].run
       /\ charts[c].status \in {"ok", "empty", "unavailable"} => charts[c].of = want

RunsInv ==
  /\ RunsTyped
  /\ kind \in {"sensor", "area"} => Tells(Lines(sel, areaKnown, covered), docked)

\* Showing a new selection, and nothing but it.
LEMMA ShowKeeps ==
  ASSUME RunsTyped, NEW want, NEW dock, Tells(want, dock), gestures' = gestures + 1,
         NEW lines, NEW dockNext, NEW again, Show(lines, dockNext, again),
         again \/ lines = want \/ lines = {} \/ want = {}
  PROVE  RunsTyped' /\ Tells(lines, dockNext)'
<1> DEFINE up(c) == lines # {} /\ Mounted(c, dockNext)
           anew == {c \in ChartIds : up(c) /\ (again \/ charts[c] = Nothing)}
           begun == {[chart |-> c, run |-> gestures', lines |-> lines,
                      left |-> Cardinality(lines), xs |-> {}] : c \in anew}
<1>0. DOMAIN charts = ChartIds
  BY DEF RunsTyped
<1>1. /\ charts' = [c \in ChartIds |-> IF c \in anew THEN Loading(gestures')
                                       ELSE IF up(c) THEN charts[c] ELSE Nothing]
      /\ runs' = runs \cup begun
  BY <1>0 DEF Show
<1>2. gestures \in Nat /\ gestures' \in Nat /\ gestures' > gestures
  BY DEF RunsTyped
<1>3. \A c \in anew : charts'[c] = Loading(gestures')
  BY <1>1
<1>4. \A c \in ChartIds \ anew : charts'[c] = IF up(c) THEN charts[c] ELSE Nothing
  BY <1>1
<1>5. RunsTyped'
  <2>1. ASSUME NEW c \in ChartIds
        PROVE  /\ charts'[c] = [status |-> charts'[c].status, run |-> charts'[c].run,
                                of |-> charts'[c].of, xs |-> charts'[c].xs]
               /\ charts'[c].status \in Says /\ charts'[c].run \in Int /\ charts'[c].run <= gestures'
               /\ charts'[c].status = "none" => charts'[c] = Nothing
    <3>1. CASE c \in anew
      BY <3>1, <1>2, <1>3 DEF Loading, Says
    <3>2. CASE c \notin anew /\ up(c)
      BY <3>2, <1>2, <1>4 DEF RunsTyped
    <3>3. CASE c \notin anew /\ ~up(c)
      <4>1. charts'[c] = Nothing
        BY <3>3, <1>4
      <4> QED  BY <4>1, <1>2 DEF Nothing, Says
    <3> QED  BY <3>1, <3>2, <3>3
  <2>2. ASSUME NEW r \in runs'
        PROVE  /\ r = [chart |-> r.chart, run |-> r.run, lines |-> r.lines, left |-> r.left, xs |-> r.xs]
               /\ r.chart \in ChartIds /\ r.run \in 0 .. gestures'
    <3>1. CASE r \in runs
      BY <3>1, <1>2 DEF RunsTyped
    <3>2. CASE r \in begun
      BY <3>2, <1>2
    <3> QED  BY <3>1, <3>2, <1>1
  <2>3. DOMAIN charts' = ChartIds /\ charts' = [c \in ChartIds |-> charts'[c]]
    BY <1>1
  <2> QED  BY <2>1, <2>2, <2>3, <1>2 DEF RunsTyped
<1>6. ASSUME NEW r \in runs', charts'[r.chart].run = r.run
      PROVE  r.lines = lines
  <2>1. CASE r \in begun
    BY <2>1
  <2>2. CASE r \in runs
    <3>1. r.chart \in ChartIds /\ r.run \in Nat /\ r.run < gestures'
      BY <2>2, <1>2 DEF RunsTyped
    <3>2. r.chart \notin anew
      BY <3>1, <1>2, <1>3, <1>6 DEF Loading
    <3>3. up(r.chart)
      BY <3>1, <3>2, <1>4, <1>6 DEF Nothing
    <3>4. charts'[r.chart] = charts[r.chart] /\ ~again /\ charts[r.chart] # Nothing
      BY <3>1, <3>2, <3>3, <1>4
    <3>5. want # {}
      BY <3>1, <3>4 DEF Tells
    <3>6. lines = want
      BY <3>3, <3>4, <3>5
    <3> QED  BY <2>2, <3>4, <3>6, <1>6 DEF Tells
  <2> QED  BY <2>1, <2>2, <1>1
<1>7. ASSUME NEW c \in ChartIds
      PROVE  /\ (charts'[c] = Nothing) = (lines = {} \/ ~Mounted(c, dockNext))
             /\ charts'[c].status = "loading" =>
                  \E r \in runs' : r.chart = c /\ r.run = charts'[c].run
             /\ charts'[c].status \in {"ok", "empty", "unavailable"} => charts'[c].of = lines
  <2>1. CASE c \in anew
    <3>1. charts'[c] = Loading(gestures') /\ charts'[c] # Nothing /\ up(c)
      BY <2>1, <1>3 DEF Loading, Nothing
    <3>2. [chart |-> c, run |-> gestures', lines |-> lines,
           left |-> Cardinality(lines), xs |-> {}] \in runs'
      BY <2>1, <1>1
    <3> QED  BY <3>1, <3>2 DEF Loading
  <2>2. CASE c \notin anew /\ up(c)
    <3>1. charts'[c] = charts[c] /\ ~again /\ charts[c] # Nothing
      BY <2>2, <1>4
    <3>2. want # {} /\ lines = want
      BY <3>1, <2>2 DEF Tells
    <3> QED  BY <2>2, <3>1, <3>2, <1>1 DEF Tells
  <2>3. CASE c \notin anew /\ ~up(c)
    BY <2>3, <1>4 DEF Nothing
  <2> QED  BY <2>1, <2>2, <2>3
<1>8. Tells(lines, dockNext)'
  BY <1>6, <1>7 DEF Tells, Mounted
<1> QED  BY <1>5, <1>8


\* A gesture: whatever it changes, the charts are marked what is wanted then.
LEMMA GestureKeeps ==
  ASSUME RunsInv, kind \in {"sensor", "area"}, kind' = kind, gestures' = gestures + 1,
         NEW lines, lines = Lines(sel', areaKnown', covered'),
         NEW dockNext, dockNext = docked',
         NEW again, Show(lines, dockNext, again),
         again \/ lines = Lines(sel, areaKnown, covered) \/ lines = {}
               \/ Lines(sel, areaKnown, covered) = {}
  PROVE  RunsInv'
<1>1. PICK want : want = Lines(sel, areaKnown, covered)
  OBVIOUS
<1>2. PICK dock : dock = docked
  OBVIOUS
<1>3. RunsTyped /\ Tells(want, dock)
  BY <1>1, <1>2 DEF RunsInv
<1>4. RunsTyped' /\ Tells(lines, dockNext)'
  BY <1>1, <1>3, ShowKeeps
<1>5. lines = Lines(sel, areaKnown, covered)'
  BY DEF Lines, periodQuery, scaleNames, Bandable
<1> QED  BY <1>4, <1>5 DEF RunsInv

\* A gesture on the controls: a metric picked is asked anew, and so is whatever changed.
LEMMA SelectedKeeps ==
  ASSUME RunsInv, NEW next, NEW again, Selected(next, again)
  PROVE  RunsInv'
<1>1. PICK lines : lines = Lines(sel', areaKnown', covered')
  OBVIOUS
<1>2. PICK dock : dock = docked'
  OBVIOUS
<1>3. PICK anew : anew = (again \/ lines # Lines(sel, areaKnown, covered))
  OBVIOUS
<1>4. lines = Lines(next, areaKnown, covered)
  BY <1>1 DEF Selected
<1>5. Show(lines, dock, anew)
  BY <1>2, <1>3, <1>4 DEF Selected
<1> QED  BY <1>1, <1>2, <1>3, <1>5, GestureKeeps DEF Selected, Gesture

\* A step that moves neither the selection nor a chart.
LEMMA RunsNotGestured ==
  ASSUME RunsInv, kind' = kind, UNCHANGED <<sel, areaKnown, docked, covered, charts, runs, gestures>>
  PROVE  RunsInv'
<1>1. RunsTyped'
  BY DEF RunsInv, RunsTyped
<1>2. CASE kind \in {"sensor", "area"}
  <2>1. PICK want : want = Lines(sel, areaKnown, covered)
    OBVIOUS
  <2>2. PICK dock : dock = docked
    OBVIOUS
  <2>3. Tells(want, dock)
    BY <1>2, <2>1, <2>2 DEF RunsInv
  <2>4. Tells(want, dock)'
    BY <2>3 DEF Tells, Mounted
  <2>5. want = Lines(sel, areaKnown, covered)'
    BY <2>1 DEF Lines, periodQuery, scaleNames, Bandable
  <2> QED  BY <1>1, <2>2, <2>4, <2>5 DEF RunsInv
<1>3. CASE kind \notin {"sensor", "area"}
  BY <1>1, <1>3 DEF RunsInv
<1> QED  BY <1>2, <1>3

\* A card over an area's chart takes its lines away or leaves them as they are.
LEMMA AreaLines ==
  ASSUME kind = "area", NEW h1, NEW h2
  PROVE  \/ Lines(sel, areaKnown, h1) = Lines(sel, areaKnown, h2)
         \/ Lines(sel, areaKnown, h1) = {} \/ Lines(sel, areaKnown, h2) = {}
BY DEF Lines

\* A sensor's area becomes known.
LEMMA AreaLearnedKeeps ==
  ASSUME RunsInv, AreaLearned PROVE RunsInv'
<1>1. PICK lines : lines = Lines(sel', areaKnown', covered')
  OBVIOUS
<1>2. PICK dock : dock = docked'
  OBVIOUS
<1>3. PICK anew : anew = (Len(sel.metrics) = 1)
  OBVIOUS
<1>4. Show(lines, dock, anew)
  BY <1>1, <1>2, <1>3 DEF AreaLearned
<1>5. anew \/ lines = Lines(sel, areaKnown, covered)
  BY <1>1, <1>3 DEF AreaLearned, Lines, Bandable
<1> QED  BY <1>1, <1>2, <1>4, <1>5, GestureKeeps DEF AreaLearned, Gesture

\* The side dock opens or closes.
LEMMA DockMovesKeeps ==
  ASSUME RunsInv, DockMoves PROVE RunsInv'
<1>1. PICK lines : lines = Lines(sel', areaKnown', covered')
  OBVIOUS
<1>2. PICK dock : dock = docked'
  OBVIOUS
<1>3. lines = Lines(sel, areaKnown, covered)
  BY <1>1 DEF DockMoves
<1>4. Show(lines, dock, FALSE)
  BY <1>2, <1>3 DEF DockMoves
<1> QED  BY <1>1, <1>2, <1>3, <1>4, GestureKeeps DEF DockMoves, Gesture

\* A sensor's card covers the area's chart, or uncovers it.
LEMMA CardMovesKeeps ==
  ASSUME RunsInv, CardMoves PROVE RunsInv'
<1>1. PICK lines : lines = Lines(sel', areaKnown', covered')
  OBVIOUS
<1>2. PICK dock : dock = docked'
  OBVIOUS
<1>3. PICK under : under = covered'
  OBVIOUS
<1>4. lines = Lines(sel, areaKnown, under)
  BY <1>1, <1>3 DEF CardMoves
<1>5. lines = Lines(sel, areaKnown, covered) \/ lines = {} \/ Lines(sel, areaKnown, covered) = {}
  BY <1>4, AreaLines DEF CardMoves
<1>6. Show(lines, dock, FALSE)
  BY <1>1, <1>2 DEF CardMoves
<1> QED  BY <1>1, <1>2, <1>5, <1>6, GestureKeeps DEF CardMoves, Gesture

\* An answer to a run: the run goes or waits for more, and its chart, if it is the live
\* one and waits no more, says what came of its lines.
LEMMA AnswerKeeps ==
  ASSUME RunsInv, NEW r \in runs, UNCHANGED <<kind, sel, areaKnown, docked, covered, gestures>>,
         runs \ {r} \subseteq runs',
         \A q \in runs' \ runs :
           /\ q = [chart |-> q.chart, run |-> q.run, lines |-> q.lines, left |-> q.left, xs |-> q.xs]
           /\ q.chart = r.chart /\ q.run = r.run /\ q.lines = r.lines,
         \/ /\ charts' = charts
            /\ charts[r.chart].run = r.run => \E q \in runs' : q.chart = r.chart /\ q.run = r.run
         \/ /\ charts[r.chart].run = r.run
            /\ \E verdict \in {"ok", "empty", "unavailable"}, xs \in {charts'[r.chart].xs} :
                 charts' = [c \in ChartIds |->
                              IF c = r.chart
                              THEN [status |-> verdict, run |-> r.run, of |-> r.lines, xs |-> xs]
                              ELSE charts[c]]
  PROVE  RunsInv'
<1>1. RunsTyped /\ r.chart \in ChartIds /\ r.run \in 0 .. gestures
  BY DEF RunsInv, RunsTyped
<1>2. \A q \in runs' : \E p \in runs : q.chart = p.chart /\ q.run = p.run /\ q.lines = p.lines
  OBVIOUS
<1>3. ASSUME NEW q \in runs'
      PROVE  /\ q = [chart |-> q.chart, run |-> q.run, lines |-> q.lines, left |-> q.left, xs |-> q.xs]
             /\ q.chart \in ChartIds /\ q.run \in 0 .. gestures'
  <2>1. CASE q \in runs
    BY <1>1, <2>1 DEF RunsTyped
  <2>2. CASE q \notin runs
    BY <1>1, <2>2
  <2> QED  BY <2>1, <2>2
<1>4. PICK want : want = Lines(sel, areaKnown, covered)
  OBVIOUS
<1>5. PICK dock : dock = docked
  OBVIOUS
<1>6. want = Lines(sel, areaKnown, covered)'
  BY SMTT(120), <1>4 DEF Lines, periodQuery, scaleNames, Bandable
<1>7. CASE /\ charts' = charts
           /\ charts[r.chart].run = r.run => \E q \in runs' : q.chart = r.chart /\ q.run = r.run
  <2>1. RunsTyped'
    BY <1>1, <1>3, <1>7 DEF RunsTyped
  <2>2. ASSUME Tells(want, dock)
        PROVE  Tells(want, dock)'
    <3>1. ASSUME NEW c \in ChartIds, charts[c].status = "loading"
          PROVE  \E q \in runs' : q.chart = c /\ q.run = charts[c].run
      <4>1. PICK p \in runs : p.chart = c /\ p.run = charts[c].run
        BY <2>2, <3>1 DEF Tells
      <4> QED  BY <4>1, <1>7
    <3>2. \A q \in runs' : charts[q.chart].run = q.run => q.lines = want
      BY <2>2, <1>2 DEF Tells
    <3> QED  BY <2>2, <3>1, <3>2, <1>7 DEF Tells, Mounted
  <2> QED  BY <2>1, <2>2, <1>4, <1>5, <1>6 DEF RunsInv
<1>8. ASSUME charts[r.chart].run = r.run,
             NEW verdict \in {"ok", "empty", "unavailable"}, NEW xs,
             charts' = [c \in ChartIds |->
                          IF c = r.chart
                          THEN [status |-> verdict, run |-> r.run, of |-> r.lines, xs |-> xs]
                          ELSE charts[c]]
      PROVE  RunsInv'
  <2>1. /\ charts'[r.chart] = [status |-> verdict, run |-> r.run, of |-> r.lines, xs |-> xs]
        /\ \A c \in ChartIds \ {r.chart} : charts'[c] = charts[c]
        /\ \A c \in ChartIds : charts'[c].run = charts[c].run
    BY <1>1, <1>8
  <2>2. ASSUME NEW c \in ChartIds
        PROVE  /\ charts'[c] = [status |-> charts'[c].status, run |-> charts'[c].run,
                                of |-> charts'[c].of, xs |-> charts'[c].xs]
               /\ charts'[c].status \in Says /\ charts'[c].run \in Int /\ charts'[c].run <= gestures'
               /\ charts'[c].status = "none" => charts'[c] = Nothing
    <3>1. CASE c = r.chart
      BY <1>1, <2>1, <3>1 DEF Says, RunsTyped
    <3>2. CASE c # r.chart
      BY <1>1, <2>1, <3>2 DEF RunsTyped
    <3> QED  BY <3>1, <3>2
  <2>3. RunsTyped'
    BY <1>1, <1>3, <1>8, <2>2 DEF RunsTyped
  <2>4. ASSUME Tells(want, dock)
        PROVE  Tells(want, dock)'
    <3>1. r.lines = want
      BY <2>4, <1>8 DEF Tells
    <3>2. \A q \in runs' : charts'[q.chart].run = q.run => q.lines = want
      BY <2>4, <2>1, <1>2, <1>3 DEF Tells
    <3>3. ASSUME NEW c \in ChartIds
          PROVE  /\ (charts'[c] = Nothing) = (want = {} \/ ~Mounted(c, dock))
                 /\ charts'[c].status = "loading" =>
                      \E q \in runs' : q.chart = c /\ q.run = charts'[c].run
                 /\ charts'[c].status \in {"ok", "empty", "unavailable"} => charts'[c].of = want
      <4>1. CASE c = r.chart
        <5>1. charts[c] # Nothing /\ charts'[c] # Nothing
          BY <1>1, <1>8, <2>1, <4>1 DEF Nothing
        <5> QED  BY <5>1, <2>1, <2>4, <3>1, <4>1 DEF Tells
      <4>2. CASE c # r.chart
        <5>1. charts'[c] = charts[c]
          BY <2>1, <4>2
        <5>2. charts[c].status = "loading" =>
                \E q \in runs' : q.chart = c /\ q.run = charts[c].run
          BY <2>4, <4>2 DEF Tells
        <5> QED  BY <5>1, <5>2, <2>4 DEF Tells
      <4> QED  BY <4>1, <4>2
    <3> QED  BY <3>2, <3>3 DEF Tells, Mounted
  <2> QED  BY <2>3, <2>4, <1>4, <1>5, <1>6 DEF RunsInv
<1> QED  BY <1>7, <1>8

\* A body arrives: of a run its chart still bears, or of one it has left.
LEMMA BodyArrivesKeeps ==
  ASSUME RunsInv, NEW r \in runs, NEW xs, BodyArrives(r, xs)
  PROVE  RunsInv'
<1>1. PICK all : all = r.xs \cup xs
  OBVIOUS
<1>2. PICK verdict \in {"empty", "ok"} : verdict = IF Cardinality(all) < 2 THEN "empty" ELSE "ok"
  OBVIOUS
<1>3. RunsTyped /\ r.chart \in ChartIds
  BY DEF RunsInv, RunsTyped
<1>4. PICK c, n, lines, left, old :
         r = [chart |-> c, run |-> n, lines |-> lines, left |-> left, xs |-> old]
  BY <1>3 DEF RunsTyped
<1> DEFINE next == [chart |-> c, run |-> n, lines |-> lines, left |-> left - 1, xs |-> all]
<1>5. next = [r EXCEPT !.left = @ - 1, !.xs = all]
  <2>1. PICK x : x = [r EXCEPT !.left = @ - 1, !.xs = all]
    OBVIOUS
  <2>2. x = next
    BY <1>4, <2>1
  <2> QED  BY <2>1, <2>2
<1>6. runs' = (runs \ {r}) \cup (IF r.left = 1 THEN {} ELSE {next})
  BY <1>1, <1>5 DEF BodyArrives
<1>7. UNCHANGED <<kind, sel, areaKnown, docked, covered, gestures>>
  BY DEF BodyArrives
<1>8. /\ next = [chart |-> next.chart, run |-> next.run, lines |-> next.lines, left |-> next.left, xs |-> next.xs]
      /\ next.chart = r.chart /\ next.run = r.run /\ next.lines = r.lines
  BY <1>4
<1> HIDE DEF next
<1>9. /\ runs \ {r} \subseteq runs'
      /\ \A q \in runs' \ runs :
           /\ q = [chart |-> q.chart, run |-> q.run, lines |-> q.lines, left |-> q.left, xs |-> q.xs]
           /\ q.chart = r.chart /\ q.run = r.run /\ q.lines = r.lines
  BY <1>6, <1>8
<1>10. CASE r.left > 1
  <2>1. next \in runs' /\ charts' = charts
    BY <1>6, <1>10 DEF BodyArrives
  <2> QED  BY <1>7, <1>8, <1>9, <2>1, AnswerKeeps
<1>11. CASE charts[r.chart].run # r.run
  <2>1. charts' = charts
    BY <1>11 DEF BodyArrives
  <2> QED  BY <1>7, <1>9, <1>11, <2>1, AnswerKeeps
<1>12. CASE ~(r.left > 1) /\ charts[r.chart].run = r.run
  <2>1. PICK chart : chart = charts[r.chart]
    OBVIOUS
  <2>2. PICK says : says = [chart EXCEPT !.status = verdict, !.of = r.lines, !.xs = all]
    OBVIOUS
  <2>3. charts' = [charts EXCEPT ![r.chart] = says]
    BY <1>1, <1>2, <1>12, <2>1, <2>2 DEF BodyArrives
  <2>4. PICK a, b, x : chart = [status |-> a, run |-> r.run, of |-> b, xs |-> x]
    <3>1. chart = [status |-> chart.status, run |-> chart.run, of |-> chart.of, xs |-> chart.xs]
      BY <1>3, <2>1 DEF RunsTyped
    <3>2. chart.run = r.run
      BY <1>12, <2>1
    <3> QED  BY <3>1, <3>2
  <2>5. says = [status |-> verdict, run |-> r.run, of |-> r.lines, xs |-> all]
    BY <2>2, <2>4
  <2>6. charts' = [d \in ChartIds |->
                     IF d = r.chart THEN [status |-> verdict, run |-> r.run, of |-> r.lines, xs |-> all]
                     ELSE charts[d]]
    BY <1>3, <2>3, <2>5 DEF RunsTyped
  <2>7. charts'[r.chart].xs = all
    BY <1>3, <2>6
  <2> QED  BY <1>7, <1>9, <1>12, <2>6, <2>7, AnswerKeeps
<1> QED  BY <1>10, <1>11, <1>12

\* A body fails: of a run its chart still bears, or of one it has left.
LEMMA BodyFailsKeeps ==
  ASSUME RunsInv, NEW r \in runs, BodyFails(r)
  PROVE  RunsInv'
<1>1. RunsTyped /\ r.chart \in ChartIds
  BY DEF RunsInv, RunsTyped
<1>2. runs' = runs \ {r}
  BY DEF BodyFails
<1>3. UNCHANGED <<kind, sel, areaKnown, docked, covered, gestures>>
  BY DEF BodyFails
<1>4. CASE charts[r.chart].run # r.run
  <2>1. charts' = charts
    BY <1>4 DEF BodyFails
  <2> QED  BY <1>2, <1>3, <1>4, <2>1, AnswerKeeps
<1>5. CASE charts[r.chart].run = r.run
  <2>1. PICK chart : chart = charts[r.chart]
    OBVIOUS
  <2>2. PICK says : says = [chart EXCEPT !.status = "unavailable", !.of = r.lines]
    OBVIOUS
  <2>3. charts' = [charts EXCEPT ![r.chart] = says]
    BY <1>5, <2>1, <2>2 DEF BodyFails
  <2>4. PICK a, b, xs : chart = [status |-> a, run |-> r.run, of |-> b, xs |-> xs]
    <3>1. chart = [status |-> chart.status, run |-> chart.run, of |-> chart.of, xs |-> chart.xs]
      BY <1>1, <2>1 DEF RunsTyped
    <3>2. chart.run = r.run
      BY <1>5, <2>1
    <3> QED  BY <3>1, <3>2
  <2>5. says = [status |-> "unavailable", run |-> r.run, of |-> r.lines, xs |-> xs]
    BY <2>2, <2>4
  <2>6. charts' = [d \in ChartIds |->
                     IF d = r.chart
                     THEN [status |-> "unavailable", run |-> r.run, of |-> r.lines, xs |-> xs]
                     ELSE charts[d]]
    BY <1>1, <2>3, <2>5 DEF RunsTyped
  <2>7. charts'[r.chart].xs = xs
    BY <1>1, <2>6
  <2> QED  BY <1>2, <1>3, <1>5, <2>6, <2>7, AnswerKeeps
<1> QED  BY <1>4, <1>5

-----------------------------------------------------------------------------
\* What is left without m is of the list, without m, and each once if the list has each once.
LEMMA WithoutKeeps ==
  ASSUME NEW S, NEW chain \in Seq(S), NEW m,
         \A j, k \in 1 .. Len(chain) : chain[j] = chain[k] => j = k
  PROVE  LET t == Without(chain, m)
         IN /\ t \in Seq(S)
            /\ \A j \in 1 .. Len(t) : \E l \in 1 .. Len(chain) : t[j] = chain[l]
            /\ \A j, k \in 1 .. Len(t) : t[j] = t[k] => j = k
            /\ \A j \in 1 .. Len(t) : t[j] # m
<1>0. \A j, k \in 1 .. Len(chain) : chain[j] = chain[k] => j = k
  OBVIOUS
<1> DEFINE n == Len(chain)
           step == [i \in 1 .. n |-> [s \in Seq(S) |->
                      IF chain[i] = m THEN s ELSE Append(s, chain[i])]]
           F(g) == [i \in 0 .. Len(chain) |->
                      IF i = 0 THEN <<>> ELSE IF chain[i] = m THEN g[i - 1] ELSE Append(g[i - 1], chain[i])]
           kept == CHOOSE g : g = F(g)
<1>1. n \in Nat /\ <<>> \in Seq(S) /\ \A i \in 1 .. n : chain[i] \in S
  OBVIOUS
<1>2. step \in [1 .. n -> [Seq(S) -> Seq(S)]]
  BY <1>1
<1>3. \A i \in 1 .. n, s \in Seq(S) : step[i][s] = IF chain[i] = m THEN s ELSE Append(s, chain[i])
  OBVIOUS
<1> HIDE DEF step, n
<1>4. PICK f \in [0 .. n -> Seq(S)] : Iterates(f, n, <<>>, step)
  BY <1>1, <1>2, IterationExists
<1>5. ASSUME NEW i \in 1 .. n
      PROVE  f[i] = IF chain[i] = m THEN f[i - 1] ELSE Append(f[i - 1], chain[i])
  <2>1. i - 1 \in 0 .. n /\ f[i - 1] \in Seq(S)
    BY <1>1
  <2>2. f[i] = step[i][f[i - 1]]
    BY <1>4 DEF Iterates
  <2> QED  BY <1>3, <2>1, <2>2
<1>6. f = F(f)
  <2>1. f = [i \in 0 .. n |-> f[i]]
    OBVIOUS
  <2>2. ASSUME NEW i \in 0 .. n
        PROVE  f[i] = IF i = 0 THEN <<>>
                      ELSE IF chain[i] = m THEN f[i - 1] ELSE Append(f[i - 1], chain[i])
    <3>1. CASE i = 0
      BY <1>4, <3>1 DEF Iterates
    <3>2. CASE i \in 1 .. n
      <4>1. i # 0
        BY <3>2
      <4> QED  BY <1>5, <3>2, <4>1, Zenon
    <3> QED  BY <1>1, <3>1, <3>2
  <2> QED  BY <2>1, <2>2 DEF n
<1>7. Without(chain, m) = kept[n]
  BY DEF Without, n
<1> HIDE DEF F
<1>8. kept = F(kept)
  BY <1>6, Zenon
<1> HIDE DEF kept
<1>9. \A i \in 0 .. n : kept[i] = IF i = 0 THEN <<>>
                                  ELSE IF chain[i] = m THEN kept[i - 1] ELSE Append(kept[i - 1], chain[i])
  BY <1>8, Zenon DEF F, n
<1>10. DOMAIN kept = 0 .. n
  BY <1>8 DEF F, n
<1> DEFINE Fine(t, i) == /\ t \in Seq(S)
                         /\ \A j \in 1 .. Len(t) : \E l \in 1 .. i : t[j] = chain[l]
                         /\ \A j, k \in 1 .. Len(t) : t[j] = t[k] => j = k
                         /\ \A j \in 1 .. Len(t) : t[j] # m
           G == {i \in 0 .. n : Fine(kept[i], i)}
<1>11. 0 \in G
  <2>1. kept[0] = <<>>
    BY <1>1, <1>9
  <2>2. Fine(<<>>, 0)
    OBVIOUS
  <2> HIDE DEF Fine
  <2> QED  BY <1>1, <2>1, <2>2
<1>12. ASSUME NEW i \in G, i + 1 <= n
       PROVE  i + 1 \in G
  <2>1. i \in Nat /\ i + 1 \in 1 .. n /\ i + 1 # 0 /\ (i + 1) - 1 = i /\ i \in 0 .. n /\ i + 1 \in 0 .. n
    BY <1>1, <1>12
  <2>2. PICK t : t = kept[i]
    OBVIOUS
  <2>3. Fine(t, i)
    BY <2>2
  <2>4. kept[i + 1] = IF chain[i + 1] = m THEN t ELSE Append(t, chain[i + 1])
    BY <1>9, <2>1, <2>2
  <2>5. Fine(t, i + 1)
    BY <2>1, <2>3
  <2>6. ASSUME chain[i + 1] # m PROVE Fine(Append(t, chain[i + 1]), i + 1)
    <3>1. PICK x \in S : x = chain[i + 1]
      BY <1>1, <2>1
    <3>2. \A l \in 1 .. i : chain[l] # x
      BY <2>1, <3>1, <1>0 DEF n
    <3>0. t \in Seq(S)
      BY <2>3
    <3>a. Append(t, x) \in Seq(S)
      BY <3>0
    <3>3. PICK u \in Seq(S) : u = Append(t, x)
      BY <3>a
    <3>4. Len(u) = Len(t) + 1 /\ u[Len(t) + 1] = x /\ \A j \in 1 .. Len(t) : u[j] = t[j]
      BY <2>3, <3>1, <3>3
    <3>5. Len(t) \in Nat
      BY <2>3
    <3>6. \A j \in 1 .. Len(u) : j \in 1 .. Len(t) \/ j = Len(t) + 1
      BY <3>4, <3>5
    <3>7. ASSUME NEW j \in 1 .. Len(u)
          PROVE  \E l \in 1 .. i + 1 : u[j] = chain[l]
      <4>1. CASE j = Len(t) + 1
        BY <2>1, <3>1, <3>4, <4>1
      <4>2. CASE j \in 1 .. Len(t)
        <5>1. PICK l \in 1 .. i : t[j] = chain[l]
          BY <2>3, <4>2
        <5>2. l \in 1 .. i + 1
          BY <2>1
        <5> QED  BY <3>4, <4>2, <5>1, <5>2
      <4> QED  BY <3>6, <4>1, <4>2
    <3>8. ASSUME NEW j \in 1 .. Len(u), NEW k \in 1 .. Len(u), u[j] = u[k]
          PROVE  j = k
      <4>1. ASSUME NEW o \in 1 .. Len(t) PROVE u[o] # x
        <5>1. PICK l \in 1 .. i : t[o] = chain[l]
          BY <2>3
        <5> QED  BY <3>2, <3>4, <5>1
      <4> QED  BY <2>3, <3>4, <3>6, <3>8, <4>1
    <3>9. \A j \in 1 .. Len(u) : u[j] # m
      BY <2>3, <2>6, <3>1, <3>4, <3>6
    <3> QED  BY <3>1, <3>3, <3>7, <3>8, <3>9
  <2> HIDE DEF Fine
  <2>7. Fine(kept[i + 1], i + 1)
    BY <2>4, <2>5, <2>6
  <2> QED  BY <2>1, <2>7
<1>13. n \in G
  <2> HIDE DEF G
  <2> QED  BY <1>1, <1>11, <1>12, UpTo
<1> QED  BY <1>7, <1>13 DEF n

\* Two metrics have one scale exactly when they have one unit.
LEMMA ScalesAreUnits ==
  ASSUME NEW S, NEW chain \in Seq(S), NEW i \in 1 .. Len(chain), NEW j \in 1 .. Len(chain)
  PROVE  (scaleNames(chain)[i] = scaleNames(chain)[j]) <=> (UnitOf[chain[i]] = UnitOf[chain[j]])
<1> DEFINE n == Len(chain)
           IsFirst(a, b) == /\ UnitOf[chain[b]] = UnitOf[chain[a]]
                            /\ \A k \in 1 .. b - 1 : UnitOf[chain[k]] # UnitOf[chain[a]]
           FirstOfUnit(a) == CHOOSE b \in 1 .. a : IsFirst(a, b)
           before(a) == {FirstOfUnit(b) : b \in 1 .. FirstOfUnit(a)}
<1>1. n \in Nat /\ scaleNames(chain) = [a \in DOMAIN chain |-> Cardinality(before(a))] /\ DOMAIN chain = 1 .. n
  BY DEF scaleNames
<1>2. ASSUME NEW a \in 1 .. n
      PROVE  FirstOfUnit(a) \in 1 .. a /\ IsFirst(a, FirstOfUnit(a))
  <2> DEFINE T == {b \in 1 .. a : UnitOf[chain[b]] = UnitOf[chain[a]]}
  <2>1. T \subseteq Nat /\ a \in T
    BY <1>1
  <2>2. PICK b \in T : \A c \in T : b <= c
    <3> HIDE DEF T
    <3> QED  BY <2>1, LeastNat
  <2>3. \A k \in 1 .. b - 1 : k \notin T /\ k \in 1 .. a
    BY <1>1, <2>2
  <2>4. b \in 1 .. a /\ IsFirst(a, b)
    BY <2>3
  <2> HIDE DEF IsFirst
  <2> QED  BY <2>4
<1> HIDE DEF FirstOfUnit
<1>3. ASSUME NEW a \in 1 .. n, NEW b \in 1 .. n
      PROVE  (FirstOfUnit(a) = FirstOfUnit(b)) <=> (UnitOf[chain[a]] = UnitOf[chain[b]])
  <2>1. FirstOfUnit(a) \in 1 .. a /\ IsFirst(a, FirstOfUnit(a)) /\ FirstOfUnit(b) \in 1 .. b /\ IsFirst(b, FirstOfUnit(b))
    BY <1>2
  <2>2. CASE UnitOf[chain[a]] = UnitOf[chain[b]]
    <3>1. ~(FirstOfUnit(a) < FirstOfUnit(b))
      BY <1>1, <2>1, <2>2
    <3>2. ~(FirstOfUnit(b) < FirstOfUnit(a))
      BY <1>1, <2>1, <2>2
    <3> QED  BY <1>1, <2>1, <2>2, <3>1, <3>2
  <2>3. CASE UnitOf[chain[a]] # UnitOf[chain[b]]
    BY <2>1, <2>3
  <2> QED  BY <2>2, <2>3
<1>4. ASSUME NEW a \in 1 .. n
      PROVE  FirstOfUnit(FirstOfUnit(a)) = FirstOfUnit(a)
  <2>1. FirstOfUnit(a) \in 1 .. n /\ UnitOf[chain[FirstOfUnit(a)]] = UnitOf[chain[a]]
    BY <1>1, <1>2
  <2> QED  BY <1>3, <2>1
<1>5. ASSUME NEW a \in 1 .. n
      PROVE  IsFiniteSet(before(a))
  <2>1. \A b \in 1 .. FirstOfUnit(a) : FirstOfUnit(b) \in 1 .. n
    <3>1. FirstOfUnit(a) \in 1 .. n
      BY <1>1, <1>2
    <3> QED  BY <1>1, <1>2, <3>1
  <2>2. IsFiniteSet(1 .. n) /\ before(a) \subseteq 1 .. n
    BY SMTT(60), <1>1, <2>1, FS_Interval
  <2> HIDE DEF before
  <2> QED  BY <2>2, FS_Subset
<1>6. ASSUME NEW a \in 1 .. n, NEW b \in 1 .. n, FirstOfUnit(a) < FirstOfUnit(b)
      PROVE  Cardinality(before(a)) # Cardinality(before(b))
  <2>1. FirstOfUnit(a) \in 1 .. n /\ FirstOfUnit(b) \in 1 .. n
    BY <1>1, <1>2
  <2>2. before(a) \subseteq before(b)
    <3>1. 1 .. FirstOfUnit(a) \subseteq 1 .. FirstOfUnit(b)
      BY <1>1, <1>6, <2>1
    <3> QED  BY <3>1
  <2>3. FirstOfUnit(b) \in before(b)
    <3>1. FirstOfUnit(b) \in 1 .. FirstOfUnit(b) /\ FirstOfUnit(FirstOfUnit(b)) = FirstOfUnit(b)
      BY <1>1, <1>4, <2>1
    <3> QED  BY <3>1
  <2>4. FirstOfUnit(b) \notin before(a)
    <3>1. ASSUME NEW c \in 1 .. FirstOfUnit(a)
          PROVE  FirstOfUnit(c) # FirstOfUnit(b)
      <4>1. c \in 1 .. n /\ c < FirstOfUnit(b)
        BY <1>1, <1>6, <2>1
      <4>2. FirstOfUnit(c) \in 1 .. c
        BY <1>2, <4>1
      <4> QED  BY <1>1, <2>1, <4>1, <4>2
    <3> QED  BY <3>1
  <2> HIDE DEF before
  <2> QED  BY <1>5, <2>2, <2>3, <2>4, FS_Subset
<1>7. Cardinality(before(i)) = Cardinality(before(j)) <=> FirstOfUnit(i) = FirstOfUnit(j)
  <2>1. FirstOfUnit(i) \in Nat /\ FirstOfUnit(j) \in Nat
    BY <1>1, <1>2
  <2>2. CASE FirstOfUnit(i) = FirstOfUnit(j)
    BY <2>2
  <2>3. CASE FirstOfUnit(i) < FirstOfUnit(j)
    BY <1>1, <1>6, <2>1, <2>3
  <2>4. CASE FirstOfUnit(j) < FirstOfUnit(i)
    BY <1>1, <1>6, <2>1, <2>4
  <2> QED  BY <2>1, <2>2, <2>3, <2>4
<1> HIDE DEF before
<1> QED  BY <1>1, <1>3, <1>7

-----------------------------------------------------------------------------
MetricNames == ChartMetrics \cup {MapMetric}

SelInv ==
  /\ kind \in {"sensor", "area", "menus", "notice"}
  /\ \E ms, near, p, f, t : sel = [metrics |-> ms, nearby |-> near, period |-> p, from |-> f, to |-> t]
  /\ sel.metrics \in Seq(MetricNames) /\ sel.metrics # <<>>
  /\ \A i, j \in 1 .. Len(sel.metrics) : sel.metrics[i] = sel.metrics[j] => i = j
  /\ kind # "area" => \A i \in 1 .. Len(sel.metrics) : sel.metrics[i] \in Offered

\* The metric a chart opens on is one of its menu's.
LEMMA SeedIsOffered == seedMetric \in Offered /\ Offered \subseteq MetricNames
BY ChartsAssumption DEF seedMetric, Offered, MetricNames

\* One metric alone.
LEMMA OneMetric ==
  ASSUME NEW m \in MetricNames
  PROVE  /\ <<m>> \in Seq(MetricNames) /\ <<m>> # <<>> /\ Len(<<m>>) = 1 /\ <<m>>[1] = m
         /\ \A i, j \in 1 .. Len(<<m>>) : <<m>>[i] = <<m>>[j] => i = j
OBVIOUS

SelShape(s, k) ==
  /\ \E ms, n, q, a, b : s = [metrics |-> ms, nearby |-> n, period |-> q, from |-> a, to |-> b]
  /\ s.metrics \in Seq(MetricNames) /\ s.metrics # <<>>
  /\ \A i, j \in 1 .. Len(s.metrics) : s.metrics[i] = s.metrics[j] => i = j
  /\ k # "area" => \A i \in 1 .. Len(s.metrics) : s.metrics[i] \in Offered

\* A selection of one metric that a chart of this kind offers.
LEMMA OneMetricSelected ==
  ASSUME NEW s, NEW k, NEW m \in MetricNames, k # "area" => m \in Offered,
         \E near, p, f, t : s = [metrics |-> <<m>>, nearby |-> near, period |-> p, from |-> f, to |-> t]
  PROVE  SelShape(s, k)
<1>1. PICK chain : chain = <<m>>
  OBVIOUS
<1>2. /\ chain \in Seq(MetricNames) /\ chain # <<>> /\ Len(chain) = 1 /\ chain[1] = m
  BY <1>1
<1>3. PICK near, p, f, t : s = [metrics |-> chain, nearby |-> near, period |-> p, from |-> f, to |-> t]
  BY <1>1
<1>4. s.metrics = chain
  BY <1>3
<1>5. \A i, j \in 1 .. Len(chain) : chain[i] = chain[j] => i = j
  BY <1>2
<1>6. k # "area" => \A i \in 1 .. Len(chain) : chain[i] \in Offered
  BY <1>2
<1>7. \E ms, n, q, a, b : s = [metrics |-> ms, nearby |-> n, period |-> q, from |-> a, to |-> b]
  BY <1>3
<1>8. s.metrics \in Seq(MetricNames) /\ s.metrics # <<>>
  BY <1>2, <1>4
<1>9. \A i, j \in 1 .. Len(s.metrics) : s.metrics[i] = s.metrics[j] => i = j
  BY <1>4, <1>5
<1>10. k # "area" => \A i \in 1 .. Len(s.metrics) : s.metrics[i] \in Offered
  BY <1>4, <1>6
<1> QED  BY <1>7, <1>8, <1>9, <1>10 DEF SelShape

\* A gesture that leaves the metrics as they are.
LEMMA MetricsStay ==
  ASSUME SelInv, kind' = kind, sel'.metrics = sel.metrics,
         \E ms, near, p, f, t : sel' = [metrics |-> ms, nearby |-> near, period |-> p, from |-> f, to |-> t]
  PROVE  SelInv'
BY DEF SelInv, Offered

\* A gesture that picks metrics.
LEMMA MetricsPicked ==
  ASSUME SelInv, kind' = kind, NEW next \in Seq(MetricNames), next # <<>>,
         \A i, j \in 1 .. Len(next) : next[i] = next[j] => i = j,
         kind # "area" => \A i \in 1 .. Len(next) : next[i] \in Offered,
         sel' = [sel EXCEPT !.metrics = next]
  PROVE  SelInv'
<1>1. PICK ms, near, p, f, t : sel = [metrics |-> ms, nearby |-> near, period |-> p, from |-> f, to |-> t]
  BY DEF SelInv
<1>2. sel' = [metrics |-> next, nearby |-> near, period |-> p, from |-> f, to |-> t]
  BY <1>1
<1>3. sel'.metrics = next
  BY <1>2
<1> QED  BY <1>2, <1>3 DEF SelInv, Offered

\* Ticking and unticking keep the metrics distinct, offered and at least one.
LEMMA PickMetricKeeps ==
  ASSUME SelInv, NEW m, PickMetric(m)
  PROVE  SelInv'
<1>1. PICK chain : chain = sel.metrics
  OBVIOUS
<1>2. PICK without : without = Without(chain, m)
  OBVIOUS
<1>3. /\ chain \in Seq(MetricNames) /\ m \in MetricNames /\ kind' = kind
      /\ \A i, j \in 1 .. Len(chain) : chain[i] = chain[j] => i = j
      /\ \A i \in 1 .. Len(chain) : chain[i] \in Offered
      /\ m \in Offered
  BY <1>1, SeedIsOffered DEF SelInv, PickMetric, Selected
<1>4. /\ without \in Seq(MetricNames)
      /\ \A j \in 1 .. Len(without) : \E l \in 1 .. Len(chain) : without[j] = chain[l]
      /\ \A j, k \in 1 .. Len(without) : without[j] = without[k] => j = k
      /\ \A j \in 1 .. Len(without) : without[j] # m
  BY <1>2, <1>3, WithoutKeeps
<1>5. CASE without # chain
  <2>1. without # <<>> /\ sel' = [sel EXCEPT !.metrics = without]
    BY <1>1, <1>2, <1>5 DEF PickMetric, Selected
  <2>2. \A j \in 1 .. Len(without) : without[j] \in Offered
    BY <1>3, <1>4
  <2> QED  BY <1>3, <1>4, <2>1, <2>2, MetricsPicked
<1>6. CASE without = chain
  <2>1. sel' = [sel EXCEPT !.metrics = Append(chain, m)]
    BY <1>1, <1>2, <1>6 DEF PickMetric, Selected
  <2>2. \A i \in 1 .. Len(chain) : chain[i] # m
    BY <1>4, <1>6
  <2>3. PICK next : next = Append(chain, m)
    OBVIOUS
  <2>4. /\ next \in Seq(MetricNames) /\ next # <<>>
        /\ Len(next) = Len(chain) + 1 /\ next[Len(chain) + 1] = m /\ Len(chain) \in Nat
        /\ \A i \in 1 .. Len(chain) : next[i] = chain[i]
    BY <1>3, <2>3
  <2>5. \A i \in 1 .. Len(next) : i \in 1 .. Len(chain) \/ i = Len(chain) + 1
    BY <2>4
  <2>6. \A i, j \in 1 .. Len(next) : next[i] = next[j] => i = j
    BY <1>3, <2>2, <2>4, <2>5
  <2>7. \A i \in 1 .. Len(next) : next[i] \in Offered
    BY <1>3, <2>4, <2>5
  <2> QED  BY <1>3, <2>1, <2>3, <2>4, <2>6, <2>7, MetricsPicked
<1> QED  BY <1>5, <1>6

\* The controls: whatever is selected next keeps its shape.
LEMMA SelectionKeeps ==
  ASSUME SelInv,
         \/ \E m \in ChartMetrics : PickMetric(m) \/ TapGauge(m) \/ PageMetric(m)
         \/ \E k \in NearbyKeys : PickNearby(k)
         \/ \E p \in Periods : Segment(p)
         \/ \E p \in Periods \cup {CUSTOM} : SelectPeriod(p)
         \/ \E t \in Instants : SetFrom(t) \/ SetTo(t)
         \/ ResetChart
  PROVE  SelInv'
<1>0. PICK ms, near, per, from, to :
        sel = [metrics |-> ms, nearby |-> near, period |-> per, from |-> from, to |-> to]
  BY DEF SelInv
<1>1. ASSUME NEW m \in ChartMetrics, TapGauge(m) PROVE SelInv'
  <2>1. m \in MetricNames /\ m \in Offered /\ kind' = kind /\ sel' = [sel EXCEPT !.metrics = <<m>>]
    BY <1>1 DEF TapGauge, Selected, MetricNames
  <2>2. \A i \in 1 .. Len(<<m>>) : <<m>>[i] \in Offered
    BY <2>1
  <2> QED  BY <2>1, <2>2, OneMetric, MetricsPicked
<1>2. ASSUME NEW m \in ChartMetrics, PageMetric(m) PROVE SelInv'
  <2>1. m \in MetricNames /\ kind = "area" /\ kind' = kind /\ sel' = [sel EXCEPT !.metrics = <<m>>]
    BY <1>2 DEF PageMetric, Selected, MetricNames
  <2> QED  BY <2>1, OneMetric, MetricsPicked
<1>3. ASSUME NEW k \in NearbyKeys, PickNearby(k) PROVE SelInv'
  <2>1. PICK set : sel' = [sel EXCEPT !.nearby = set] /\ kind' = kind
    BY <1>3 DEF PickNearby, Selected
  <2> QED  BY <1>0, <2>1, MetricsStay
<1>4. ASSUME NEW p \in Periods, Segment(p) PROVE SelInv'
  <2>1. sel' = [sel EXCEPT !.period = p, !.from = NoInstant, !.to = NoInstant] /\ kind' = kind
    BY <1>4 DEF Segment, Selected
  <2>2. sel' = [metrics |-> ms, nearby |-> near, period |-> p, from |-> NoInstant, to |-> NoInstant]
    BY <1>0, <2>1
  <2> QED  BY <1>0, <2>1, <2>2, MetricsStay
<1>5. ASSUME NEW p \in Periods \cup {CUSTOM}, SelectPeriod(p) PROVE SelInv'
  <2>1. sel' = [sel EXCEPT !.period = p] /\ kind' = kind
    BY <1>5 DEF SelectPeriod, Selected
  <2> QED  BY <1>0, <2>1, MetricsStay
<1>6. ASSUME NEW t \in Instants, SetFrom(t) PROVE SelInv'
  <2>1. sel' = [sel EXCEPT !.from = t] /\ kind' = kind
    BY <1>6 DEF SetFrom, Selected
  <2> QED  BY <1>0, <2>1, MetricsStay
<1>7. ASSUME NEW t \in Instants, SetTo(t) PROVE SelInv'
  <2>1. sel' = [sel EXCEPT !.to = t] /\ kind' = kind
    BY <1>7 DEF SetTo, Selected
  <2> QED  BY <1>0, <2>1, MetricsStay
<1>8. ASSUME ResetChart PROVE SelInv'
  <2>1. /\ sel' = [metrics |-> IF kind = "area" THEN sel.metrics ELSE <<seedMetric>>, nearby |-> {},
                   period |-> OpeningPeriod, from |-> NoInstant, to |-> NoInstant]
        /\ kind' = kind
    BY <1>8 DEF ResetChart, Selected
  <2>2. CASE kind = "area"
    BY <1>0, <2>1, <2>2, MetricsStay
  <2>3. CASE kind # "area"
    <3>1. PICK m, s, k : m = seedMetric /\ s = sel' /\ k = kind
      OBVIOUS
    <3>2. PICK p, f : p = OpeningPeriod /\ f = NoInstant
      OBVIOUS
    <3>3. m \in MetricNames /\ m \in Offered
      BY <3>1, SeedIsOffered
    <3>4. s = [metrics |-> <<m>>, nearby |-> {}, period |-> p, from |-> f, to |-> f]
      BY <2>1, <2>3, <3>1, <3>2
    <3>5. SelShape(s, k)
      BY <3>3, <3>4, OneMetricSelected
    <3>6. SelShape(sel', kind)
      BY <3>1, <3>5, Zenon
    <3> QED  BY <2>1, <3>6 DEF SelInv, SelShape, Offered
  <2> QED  BY <2>2, <2>3
<1> QED  BY <1>1, <1>2, <1>3, <1>4, <1>5, <1>6, <1>7, <1>8, PickMetricKeeps

\* The kind of the page and what is selected, left alone.
LEMMA SelectionStays ==
  ASSUME SelInv, UNCHANGED <<kind, sel>>
  PROVE  SelInv'
BY DEF SelInv, Offered

-----------------------------------------------------------------------------
PopupsInv ==
  /\ ~keyed => \E m \in Menus : opens \subseteq {m}
  /\ (notice # "") = (timers # {}) /\ \A s, t \in timers : s = t

\* The menus and the notice, left alone.
LEMMA PopupsStay ==
  ASSUME PopupsInv, UNCHANGED <<menuVars, noticeVars>>
  PROVE  PopupsInv'
BY DEF PopupsInv, menuVars, noticeVars

\* A gesture on a menu, or a step of the notice.
LEMMA PopupsMove ==
  ASSUME PopupsInv,
         \/ \E m \in Menus : PointAt(m) \/ KeyOn(m)
         \/ PressOutside \/ OpenSub \/ Choose \/ \E inMore \in BOOLEAN : EscapeMenu(inMore)
         \/ Copy \/ \E text \in {"done", "failed"} : Say(text)
         \/ \E t \in timers : NoticeEnds(t)
  PROVE  PopupsInv' /\ UNCHANGED <<kind, selVars>>
<1>1. ASSUME NEW m \in Menus, PointAt(m) PROVE PopupsInv' /\ UNCHANGED <<kind, selVars>>
  BY <1>1 DEF PointAt, MenuStep, PopupsInv, noticeVars, selVars
<1>2. ASSUME NEW m \in Menus, KeyOn(m) PROVE PopupsInv' /\ UNCHANGED <<kind, selVars>>
  BY <1>2 DEF KeyOn, MenuStep, PopupsInv, noticeVars, selVars
<1>3. CASE PressOutside
  BY <1>3 DEF PressOutside, MenuStep, PopupsInv, noticeVars, selVars
<1>4. CASE OpenSub
  BY <1>4 DEF OpenSub, MenuStep, PopupsInv, noticeVars, selVars
<1>5. CASE Choose
  BY <1>5 DEF Choose, MenuStep, PopupsInv, noticeVars, selVars
<1>6. ASSUME NEW inMore \in BOOLEAN, EscapeMenu(inMore) PROVE PopupsInv' /\ UNCHANGED <<kind, selVars>>
  BY <1>6 DEF EscapeMenu, MenuStep, PopupsInv, noticeVars, selVars
<1>7. CASE Copy
  BY <1>7 DEF Copy, NoticeStep, PopupsInv, menuVars, selVars
<1>8. ASSUME NEW text \in {"done", "failed"}, Say(text) PROVE PopupsInv' /\ UNCHANGED <<kind, selVars>>
  BY <1>8 DEF Say, NoticeStep, PopupsInv, menuVars, selVars
<1>9. ASSUME NEW t \in timers, NoticeEnds(t) PROVE PopupsInv' /\ UNCHANGED <<kind, selVars>>
  BY <1>9 DEF NoticeEnds, NoticeStep, PopupsInv, menuVars, selVars
<1> QED  BY <1>1, <1>2, <1>3, <1>4, <1>5, <1>6, <1>7, <1>8, <1>9

-----------------------------------------------------------------------------
ChartsInv == RunsInv /\ SelInv /\ PopupsInv

LEMMA ChartsInitInv == ChartsInit => ChartsInv
<1> SUFFICES ASSUME ChartsInit PROVE ChartsInv
  OBVIOUS
<1>1. SelInv
  <2>1. PICK m, s, k : /\ m = (IF kind = "area" THEN MapMetric ELSE seedMetric)
                       /\ s = sel /\ k = kind
    OBVIOUS
  <2>2. PICK p, f : p = OpeningPeriod /\ f = NoInstant
    OBVIOUS
  <2>3. m \in MetricNames /\ (k # "area" => m \in Offered)
    BY <2>1, SeedIsOffered DEF MetricNames
  <2>4. s = [metrics |-> <<m>>, nearby |-> {}, period |-> p, from |-> f, to |-> f]
    BY <2>1, <2>2 DEF ChartsInit
  <2>5. SelShape(s, k)
    BY <2>3, <2>4, OneMetricSelected
  <2>6. SelShape(sel, kind)
    BY <2>1, <2>5, Zenon
  <2> QED  BY <2>6 DEF SelInv, SelShape, ChartsInit
<1>2. RunsInv
  <2>1. PICK want : want = Lines(sel, areaKnown, FALSE)
    OBVIOUS
  <2>2. want = Lines(sel, areaKnown, covered) /\ docked = FALSE /\ gestures = 0
    BY <2>1 DEF ChartsInit
  <2> DEFINE up == want # {} /\ kind \in {"sensor", "area"}
             begun == [chart |-> "panel", run |-> 0, lines |-> want,
                       left |-> Cardinality(want), xs |-> {}]
  <2>3. /\ charts = [c \in ChartIds |-> IF up /\ c = "panel" THEN Loading(0) ELSE Nothing]
        /\ runs = IF up THEN {begun} ELSE {}
    BY <2>1 DEF ChartsInit, ChartIds
  <2>4. RunsTyped
    BY <2>2, <2>3 DEF RunsTyped, Loading, Nothing, ChartIds, Says
  <2>5. kind \in {"sensor", "area"} => Tells(want, FALSE)
    <3> SUFFICES ASSUME kind \in {"sensor", "area"} PROVE Tells(want, FALSE)
      OBVIOUS
    <3>1. charts["dock"] = Nothing /\ charts["panel"] = IF want # {} THEN Loading(0) ELSE Nothing
      BY <2>3 DEF ChartIds
    <3>2. \A r \in runs : r.lines = want /\ want # {}
      BY <2>3
    <3>3. want # {} => /\ begun \in runs /\ begun.chart = "panel" /\ begun.run = 0
                       /\ Loading(0).status = "loading" /\ Loading(0).run = 0 /\ Loading(0) # Nothing
      BY <2>3 DEF Loading, Nothing
    <3>4. Nothing.status = "none"
      BY DEF Nothing
    <3> HIDE DEF begun, up
    <3>5. /\ (charts["panel"] = Nothing) = (want = {} \/ ~Mounted("panel", FALSE))
          /\ charts["panel"].status = "loading" => \E r \in runs : r.chart = "panel" /\ r.run = charts["panel"].run
          /\ charts["panel"].status \notin {"ok", "empty", "unavailable"}
      BY <3>1, <3>3, <3>4 DEF Mounted
    <3>6. /\ (charts["dock"] = Nothing) = (want = {} \/ ~Mounted("dock", FALSE))
          /\ charts["dock"].status = "none"
      BY <3>1, <3>4 DEF Mounted
    <3> QED  BY <3>2, <3>5, <3>6 DEF Tells, ChartIds
  <2> QED  BY <2>2, <2>4, <2>5 DEF RunsInv
<1>3. PopupsInv
  BY DEF ChartsInit, PopupsInv, Menus
<1> QED  BY <1>1, <1>2, <1>3 DEF ChartsInv

LEMMA ChartsNextInv == ChartsInv /\ [ChartsNext]_chartVars => ChartsInv'
<1> SUFFICES ASSUME ChartsInv, [ChartsNext]_chartVars PROVE ChartsInv'
  OBVIOUS
<1> USE DEF ChartsInv
<1>1. CASE \/ \E m \in ChartMetrics : PickMetric(m) \/ TapGauge(m) \/ PageMetric(m)
           \/ \E k \in NearbyKeys : PickNearby(k)
           \/ \E p \in Periods : Segment(p)
           \/ \E p \in Periods \cup {CUSTOM} : SelectPeriod(p)
           \/ \E t \in Instants : SetFrom(t) \/ SetTo(t)
           \/ ResetChart
  <2>1. SelInv'
    BY <1>1, SelectionKeeps
  <2>2. PICK next, again : Selected(next, again)
    BY <1>1, Zenon DEF PickMetric, TapGauge, PageMetric, PickNearby, Segment, SelectPeriod, SetFrom, SetTo, ResetChart
  <2>3. RunsInv'
    BY <2>2, SelectedKeeps
  <2>4. UNCHANGED <<menuVars, noticeVars>>
    BY <2>2 DEF Selected
  <2> QED  BY <2>1, <2>3, <2>4, PopupsStay
<1>2. CASE OfferNearby
  <2>1. UNCHANGED <<menuVars, noticeVars>> /\ UNCHANGED <<kind, sel, areaKnown, docked, covered, charts, runs, gestures>>
    BY <1>2 DEF OfferNearby
  <2> QED  BY <2>1, RunsNotGestured, SelectionStays, PopupsStay
<1>3. CASE AreaLearned
  <2>1. UNCHANGED <<menuVars, noticeVars>> /\ UNCHANGED <<kind, sel>>
    BY <1>3 DEF AreaLearned
  <2> QED  BY <1>3, <2>1, AreaLearnedKeeps, SelectionStays, PopupsStay
<1>4. CASE DockMoves
  <2>1. UNCHANGED <<menuVars, noticeVars>> /\ UNCHANGED <<kind, sel>>
    BY <1>4 DEF DockMoves
  <2> QED  BY <1>4, <2>1, DockMovesKeeps, SelectionStays, PopupsStay
<1>5. CASE CardMoves
  <2>1. UNCHANGED <<menuVars, noticeVars>> /\ UNCHANGED <<kind, sel>>
    BY <1>5 DEF CardMoves
  <2> QED  BY <1>5, <2>1, CardMovesKeeps, SelectionStays, PopupsStay
<1>6. ASSUME NEW r \in runs, BodyFails(r) PROVE ChartsInv'
  <2>1. UNCHANGED <<menuVars, noticeVars>> /\ UNCHANGED <<kind, sel>>
    BY <1>6 DEF BodyFails
  <2> QED  BY <1>6, <2>1, BodyFailsKeeps, SelectionStays, PopupsStay
<1>7. ASSUME NEW r \in runs, NEW xs \in Bodies, BodyArrives(r, xs) PROVE ChartsInv'
  <2>1. UNCHANGED <<menuVars, noticeVars>> /\ UNCHANGED <<kind, sel>>
    BY <1>7 DEF BodyArrives
  <2> QED  BY <1>7, <2>1, BodyArrivesKeeps, SelectionStays, PopupsStay
<1>8. CASE \/ \E m \in Menus : PointAt(m) \/ KeyOn(m)
           \/ PressOutside \/ OpenSub \/ Choose \/ \E inMore \in BOOLEAN : EscapeMenu(inMore)
           \/ Copy \/ \E text \in {"done", "failed"} : Say(text)
           \/ \E t \in timers : NoticeEnds(t)
  <2>1. PopupsInv' /\ UNCHANGED <<kind, sel, areaKnown, docked, covered, charts, runs, gestures>>
    BY <1>8, PopupsMove DEF selVars
  <2> QED  BY <2>1, RunsNotGestured, SelectionStays
<1>9. CASE UNCHANGED chartVars
  <2>1. UNCHANGED <<menuVars, noticeVars>> /\ UNCHANGED <<kind, sel, areaKnown, docked, covered, charts, runs, gestures>>
    BY <1>9 DEF chartVars, selVars
  <2> QED  BY <2>1, RunsNotGestured, SelectionStays, PopupsStay
<1> QED  BY <1>1, <1>2, <1>3, <1>4, <1>5, <1>6, <1>7, <1>8, <1>9 DEF ChartsNext

\* What is read off a plot is what the lines are.
LEMMA LinesAreRead == SelInv => LinesReadTrue
<1> SUFFICES ASSUME SelInv PROVE LinesReadTrue
  OBVIOUS
<1> DEFINE ms == sel.metrics
           n == Len(ms)
           marked == {ms[i] : i \in DOMAIN ms}
           want == Lines(sel, areaKnown, covered)
<1>1. /\ ms \in Seq(MetricNames) /\ ms # <<>> /\ n \in Nat /\ n >= 1 /\ DOMAIN ms = 1 .. n
      /\ \A i, j \in 1 .. n : ms[i] = ms[j] => i = j
  BY DEF SelInv
<1>2. kind # "area" => \A i \in 1 .. n : ms[i] \in Offered
  BY DEF SelInv
<1>3. marked # {} /\ (kind = "sensor" => marked \subseteq Offered)
  <2>1. 1 \in DOMAIN ms
    BY <1>1
  <2>2. marked # {}
    BY <2>1
  <2>3. kind = "sensor" => \A i \in DOMAIN ms : ms[i] \in Offered
    BY <1>1, <1>2
  <2> QED  BY <2>2, <2>3
<1>4. Cardinality(marked) = n
  <2>1. IsFiniteSet(1 .. n) /\ Cardinality(1 .. n) = n
    BY <1>1, FS_Interval
  <2>2. ms \in [1 .. n -> marked] /\ \A x \in marked : \E i \in 1 .. n : ms[i] = x
    BY <1>1
  <2>3. ms \in Bijection(1 .. n, marked)
    BY <1>1, <2>2 DEF Bijection, Injection, Surjection, IsInjective
  <2>4. ExistsBijection(1 .. n, marked)
    BY <2>3 DEF ExistsBijection
  <2> HIDE DEF marked, n
  <2> QED  BY <2>1, <2>4, FS_Bijection
<1>5. ASSUME NEW l \in want
      PROVE  /\ \E i \in 1 .. n : l.metric = ms[i] /\ l.scale = scaleNames(ms)[i]
             /\ l.column # "own" => n = 1 /\ areaKnown
  BY <1>1 DEF Lines, Bandable
<1>6. \A a, b \in want : (a.scale = b.scale) = (UnitOf[a.metric] = UnitOf[b.metric])
  <2> SUFFICES ASSUME NEW a \in want, NEW b \in want
               PROVE  (a.scale = b.scale) = (UnitOf[a.metric] = UnitOf[b.metric])
    OBVIOUS
  <2>0. PICK chain : chain = ms
    OBVIOUS
  <2>1. PICK i \in 1 .. n : a.metric = ms[i] /\ a.scale = scaleNames(ms)[i]
    BY <1>5
  <2>2. PICK j \in 1 .. n : b.metric = ms[j] /\ b.scale = scaleNames(ms)[j]
    BY <1>5
  <2>3. (scaleNames(chain)[i] = scaleNames(chain)[j]) <=> (UnitOf[chain[i]] = UnitOf[chain[j]])
    BY <1>1, <2>0, ScalesAreUnits
  <2> QED  BY <2>0, <2>1, <2>2, <2>3
<1>7. (\E l \in want : l.column # "own") => Cardinality(marked) = 1 /\ areaKnown
  BY <1>4, <1>5
<1> QED  BY <1>3, <1>4, <1>6, <1>7 DEF LinesReadTrue

\* What the invariant says to the reader.
LEMMA ChartsInvTells == ChartsInv => ChartsTellTheTruth
<1> SUFFICES ASSUME ChartsInv PROVE ChartsTellTheTruth
  OBVIOUS
<1>1. ChartTellsSelection
  <2> SUFFICES ASSUME kind \in {"sensor", "area"}, NEW c \in DOMAIN charts
               PROVE  LET want == Lines(sel, areaKnown, covered)
                      IN /\ (charts[c] = Nothing) = (want = {} \/ ~Mounted(c, docked))
                         /\ charts[c].status = "loading" =>
                              \E r \in runs : r.chart = c /\ r.run = charts[c].run /\ r.lines = want
                         /\ charts[c].status \in {"ok", "empty", "unavailable"} => charts[c].of = want
    BY DEF ChartTellsSelection
  <2>1. Tells(Lines(sel, areaKnown, covered), docked) /\ c \in ChartIds
    BY DEF ChartsInv, RunsInv, RunsTyped
  <2> QED  BY <2>1 DEF Tells
<1>2. LinesReadTrue
  BY LinesAreRead DEF ChartsInv
<1>3. PopupsBehave
  <2>1. ASSUME NEW m \in Menus, opens \subseteq {m}
        PROVE  Cardinality(opens) <= 1
    <3>1. IsFiniteSet({m}) /\ Cardinality({m}) = 1
      BY FS_Singleton
    <3>2. PICK few : few = opens
      OBVIOUS
    <3>3. Cardinality(few) <= Cardinality({m})
      BY <2>1, <3>1, <3>2, FS_Subset
    <3> QED  BY <3>1, <3>2, <3>3
  <2> QED  BY <2>1 DEF ChartsInv, PopupsInv, PopupsBehave
<1> QED  BY <1>1, <1>2, <1>3 DEF ChartsTellTheTruth

\* The charts and their controls (SensorChart.svelte, ChartPanel.svelte, Chart.svelte):
\* through any selections, docks, cards and answers, a chart shows, asks for or has failed
\* to get exactly the lines that are selected, two lines share a scale exactly when they
\* share a unit, the pointer has one menu open, and a notice stands while its timer runs.
THEOREM ChartsAlwaysTrue == ChartsSpec => []ChartsTellTheTruth
<1> QED  BY ChartsInitInv, ChartsNextInv, ChartsInvTells, PTL DEF ChartsSpec

-----------------------------------------------------------------------------
(***************************************************************************)
(* The shape of the map's data.  A pass that still has something to land,  *)
(* or that a landing follows, carries the key it was asked with: only a    *)
(* free slot and the source toggle's own pass carry none.                  *)
(***************************************************************************)
Keyed(ps) == \A q \in PassIds : \/ ps[q].key \in MarkerKeys
                                \/ ps[q].m = "none" /\ ps[q].by \in {"none", "click"}
Flights == [by : {"count", "link"}, key : (Slugs \cup {NoSlug}) \X Windows]
FlightTables == [ListIds -> Flights \cup {NoList}]
Hints == {"", "unavailable", "noSources", "area", "locate"}
Openings == {"scales", "placing", "placed", "unplaced", "locating", "done"}
Registries == [body : Slugs \cup {NoSlug}, area : Slugs \cup {NoSlug}]

MapShape ==
  /\ MapInv /\ Keyed(passes)
  /\ timer \in BOOLEAN /\ opening \in Openings /\ hint \in Hints
  /\ tierKey \in MarkerKeys \cup {NoKey} /\ hexUrl \in GridURLs \cup {NoKey}
  /\ hexAbort \in 0 .. MaxPasses
  /\ registry \in Registries /\ lists \in FlightTables

LEMMA MapInitShape == MapInit => MapShape
<1> SUFFICES ASSUME MapInit PROVE MapShape
  OBVIOUS
<1>1. passes = [p \in PassIds |-> NoPass] /\ lists = [l \in ListIds |-> NoList]
  BY DEF MapInit
<1>2. Keyed(passes) /\ lists \in FlightTables
  BY <1>1 DEF Keyed, NoPass, FlightTables
<1>3. registry \in Registries /\ hexAbort \in 0 .. MaxPasses
  <2>1. registry = [body |-> NoSlug, area |-> NoSlug] /\ hexAbort = 0
    BY DEF MapInit
  <2>2. 0 \in 0 .. MaxPasses
    BY MapDataAssumption
  <2> QED
    BY <2>1, <2>2 DEF Registries
<1>4. timer \in BOOLEAN /\ opening \in Openings /\ hint \in Hints
  BY DEF MapInit, Openings, Hints
<1> QED
  BY <1>2, <1>3, <1>4, MapInitInv DEF MapInit, MapShape

LEMMA KeepKeyed ==
  ASSUME NEW ps \in PassTables, Keyed(ps)
  PROVE  Keyed(Keep(ps))
<1>1. \A q \in PassIds : Keep(ps)[q] \in {ps[q], NoPass}
  BY DEF Keep
<1> QED
  BY <1>1 DEF Keyed, NoPass

\* refreshHexes changes no key and asks for no markers; its controller is a pass.
LEMMA HexCallKeyed ==
  ASSUME NEW ps \in PassTables, NEW p \in PassIds, Keyed(ps), hexAbort \in 0 .. MaxPasses
  PROVE  Keyed(HexCall(ps, p).passes) /\ HexCall(ps, p).abort \in 0 .. MaxPasses
<1> DEFINE call == HexCall(ps, p)
<1>1. CASE GridURL = hexUrl
  <2>1. call = [passes |-> [ps EXCEPT ![p].h = "none"], abort |-> hexAbort]
    BY <1>1 DEF HexCall
  <2>2. call.passes = [ps EXCEPT ![p].h = "none"] /\ call.abort = hexAbort
    BY <2>1
  <2> HIDE DEF call
  <2>3. \A q \in PassIds : /\ call.passes[q].key = ps[q].key /\ call.passes[q].m = ps[q].m
                           /\ call.passes[q].by = ps[q].by
    BY <2>2 DEF PassTables, PassRecords
  <2> QED
    BY <2>2, <2>3 DEF Keyed, call
<1>2. CASE GridURL # hexUrl
  <2> DEFINE after == [q \in PassIds |->
                      CASE q = p -> [ps[q] EXCEPT !.h = "asked", !.url = GridURL]
                        [] q = hexAbort /\ q # p /\ ps[q].h = "asked" -> [ps[q] EXCEPT !.h = "none"]
                        [] OTHER -> ps[q]]
  <2>1. call = [passes |-> after, abort |-> p]
    BY <1>2 DEF HexCall
  <2> HIDE DEF call, after
  <2>2. call.passes = after /\ call.abort = p
    BY <2>1
  <2>3. \A q \in PassIds : /\ after[q].key = ps[q].key /\ after[q].m = ps[q].m
                           /\ after[q].by = ps[q].by
    BY DEF after, PassTables, PassRecords
  <2>4. p \in 0 .. MaxPasses
    BY MapDataAssumption DEF PassIds
  <2>5. Keyed(call.passes) /\ call.abort \in 0 .. MaxPasses
    BY <2>2, <2>3, <2>4 DEF Keyed
  <2> QED
    BY <2>5 DEF call
<1> QED
  BY <1>1, <1>2

\* loadAreaSensors' claim and its flight.
LEMMA AreaListShape ==
  ASSUME ViewTyped', lists \in FlightTables, NEW force \in BOOLEAN,
         AreaList(force) \/ UNCHANGED lists
  PROVE  lists' \in FlightTables
<1>1. listKeyFor \in (Slugs \cup {NoSlug}) \X Windows
  BY DEF ViewTyped, listKeyFor
<1>2. [by |-> "count", key |-> listKeyFor] \in Flights
  BY <1>1 DEF Flights
<1> QED
  BY <1>2 DEF AreaList, FlightTables

\* What a handler's calls leave is keyed.
LEMMA PassShape ==
  ASSUME MapShape, ViewTyped', NEW by \in {"first", "move", "forced", "click", "link"},
         NEW force \in BOOLEAN, NEW hexes \in {"now", "later", "none"},
         Pass(by, force, hexes)
  PROVE  /\ Keyed(passes') /\ hexAbort' \in 0 .. MaxPasses /\ hint' \in Hints
         /\ lists' \in FlightTables /\ UNCHANGED <<tierKey, hexUrl, registry>>
<1>1. PICK p \in PassIds :
        LET chosenPass == [by |-> by, m |-> IF force \/ MarkerKey # tierKey THEN "asked" ELSE "none",
                    key |-> MarkerKey, h |-> IF hexes = "later" THEN "later" ELSE "none", url |-> NoKey]
            call == HexCall([passes EXCEPT ![p] = chosenPass], p)
        IN /\ ShowHint(mapHint(fellBack', anyTicked'))
           /\ IF chosenPass.m = "asked" THEN AreaList(force) ELSE UNCHANGED <<listKey, lists>>
           /\ IF hexes = "now"
              THEN passes' = Keep(call.passes) /\ hexAbort' = call.abort
              ELSE passes' = Keep([passes EXCEPT ![p] = chosenPass]) /\ UNCHANGED hexAbort
           /\ UNCHANGED <<tierKey, hexUrl, registry>>
  BY DEF Pass
<1> DEFINE chosenPass == [by |-> by, m |-> IF force \/ MarkerKey # tierKey THEN "asked" ELSE "none",
                   key |-> MarkerKey, h |-> IF hexes = "later" THEN "later" ELSE "none", url |-> NoKey]
           tried == [passes EXCEPT ![p] = chosenPass]
<1>2. chosenPass \in PassRecords /\ chosenPass.key \in MarkerKeys
  BY KeysTyped DEF PassRecords
<1>3. tried \in PassTables
  BY <1>2 DEF MapShape, MapInv, PassTables
<1>4. \A q \in PassIds : tried[q] = IF q = p THEN chosenPass ELSE passes[q]
  BY DEF MapShape, MapInv, PassTables
<1> HIDE DEF chosenPass
<1>5. Keyed(tried)
  BY <1>2, <1>4 DEF Keyed, MapShape
<1>6. Keyed(passes') /\ hexAbort' \in 0 .. MaxPasses
  <2>1. CASE hexes = "now"
    <3> DEFINE call == HexCall(tried, p)
    <3>1. passes' = Keep(call.passes) /\ hexAbort' = call.abort
      BY <1>1, <2>1 DEF chosenPass
    <3> HIDE DEF tried
    <3>2. Keyed(call.passes) /\ call.abort \in 0 .. MaxPasses
      BY <1>3, <1>5, HexCallKeyed DEF MapShape
    <3>3. OneAskedBut(tried, p, hexAbort)
      BY <1>4 DEF MapShape, MapInv, OneGridFetch, OneAskedBut
    <3>4. call.passes \in PassTables
      BY <1>3, <3>3, HexCallKeeps
    <3> HIDE DEF call
    <3> QED
      BY <3>1, <3>2, <3>4, KeepKeyed
  <2>2. CASE hexes # "now"
    <3>1. passes' = Keep(tried) /\ hexAbort' = hexAbort
      BY <1>1, <2>2 DEF chosenPass
    <3> HIDE DEF tried
    <3> QED
      BY <1>3, <1>5, <3>1, KeepKeyed DEF MapShape
  <2> QED
    BY <2>1, <2>2
<1>7. AreaList(force) \/ UNCHANGED lists
  BY <1>1
<1>8. lists' \in FlightTables
  BY <1>7, AreaListShape DEF MapShape
<1>9. hint' \in Hints
  BY <1>1 DEF ShowHint, mapHint, Hints, MapShape
<1> QED
  BY <1>1, <1>6, <1>8, <1>9

LEMMA AfterMarkersShape ==
  ASSUME MapShape, ViewTyped', NEW ps \in PassTables, NEW p \in PassIds, AfterMarkers(ps, p),
         \A q \in PassIds : ps[q].h = passes[q].h,
         Keyed(ps)
  PROVE  Keyed(passes') /\ hexAbort' \in 0 .. MaxPasses
<1>1. OneAskedBut(ps, p, hexAbort)
  BY DEF MapShape, MapInv, OneGridFetch, OneAskedBut
<1>2. CASE ps[p].h = "later"
  <2> DEFINE call == HexCall(ps, p)
  <2>1. passes' = Keep(call.passes) /\ hexAbort' = call.abort
    BY <1>2 DEF AfterMarkers
  <2>2. Keyed(call.passes) /\ call.abort \in 0 .. MaxPasses
    BY HexCallKeyed DEF MapShape
  <2>3. call.passes \in PassTables
    BY <1>1, HexCallKeeps
  <2> HIDE DEF call
  <2> QED
    BY <2>1, <2>2, <2>3, KeepKeyed
<1>3. CASE ps[p].h # "later"
  <2>1. passes' = Keep(ps) /\ hexAbort' = hexAbort
    BY <1>3 DEF AfterMarkers
  <2> QED
    BY <2>1, KeepKeyed DEF MapShape
<1> QED
  BY <1>2, <1>3

LEMMA MapNextShape == MapShape /\ [MapNext]_mapVars => MapShape'
<1> SUFFICES ASSUME MapShape, [MapNext]_mapVars PROVE MapShape'
  OBVIOUS
<1> USE DEF Act, Ripe, Openings, Hints
<1>a. MapInv' /\ ViewTyped'
  BY MapNextInv DEF MapShape, MapInv
\* A handler that makes a pass.
<1>b. ASSUME NEW by \in {"first", "move", "forced", "click", "link"},
             NEW force \in BOOLEAN, NEW hexes \in {"now", "later", "none"}, Pass(by, force, hexes),
             timer' \in BOOLEAN, opening' \in Openings
      PROVE  MapShape'
  BY <1>a, <1>b, PassShape DEF MapShape
<1>1. CASE UNCHANGED mapVars
  BY <1>a, <1>1 DEF MapShape, mapVars, Keyed
<1>2. ASSUME NEW ok \in BOOLEAN, ScalesSettle(ok) PROVE MapShape'
  BY <1>a, <1>2 DEF MapShape, ScalesSettle, Keyed, areaListVars
<1>3. ASSUME NEW c \in Cameras, NEW s \in Slugs \cup {NoSlug}, Place(c, s) PROVE MapShape'
  <2>1. timer' \in BOOLEAN /\ opening' \in Openings
    BY <1>3 DEF Place, MapShape
  <2> QED
    BY <1>b, <1>3, <2>1 DEF Place
<1>4. CASE PlaceNowhere
  BY <1>b, <1>4 DEF PlaceNowhere, MapShape
<1>5. CASE LateLocateFails
  BY <1>a, <1>5 DEF MapShape, LateLocateFails, Keyed, areaListVars
<1>6. CASE LocateFails
  BY <1>a, <1>6 DEF MapShape, LocateFails, Keyed, areaListVars, ShowHint
<1>8. ASSUME NEW c \in Cameras, NEW s \in Slugs, LateLocate(c, s) PROVE MapShape'
  BY <1>b, <1>8 DEF LateLocate
<1>9. ASSUME NEW c \in Cameras, NEW s \in Slugs, ShowArea(c, s) PROVE MapShape'
  BY <1>b, <1>9 DEF ShowArea, MapShape
<1>10. ASSUME NEW c \in Cameras, NEW s \in Slugs, ReachSensor(c, s) PROVE MapShape'
  <2>1. timer' \in BOOLEAN /\ opening' \in Openings
    BY <1>10 DEF ReachSensor, MapShape
  <2> QED
    BY <1>b, <1>10, <2>1 DEF ReachSensor
<1>11. ASSUME NEW c \in Cameras, Move(c) PROVE MapShape'
  BY <1>a, <1>11 DEF MapShape, Move, Keyed, areaListVars
<1>12. ASSUME NEW s \in Slugs, SelectArea(s) PROVE MapShape'
  BY <1>b, <1>12 DEF SelectArea, MapShape
<1>13. ASSUME NEW w \in Windows, PickWindow(w) PROVE MapShape'
  BY <1>b, <1>13 DEF PickWindow, MapShape
<1>14. CASE MoveEnd
  BY <1>b, <1>14 DEF MoveEnd, MapShape
<1>15. CASE MetricChange
  BY <1>b, <1>15 DEF MetricChange, MapShape
<1>16. CASE ToggleSources
  <2>1. PICK p \in PassIds :
          LET call == HexCall([passes EXCEPT ![p] = [NoPass EXCEPT !.by = "click"]], p)
          IN passes' = Keep(call.passes) /\ hexAbort' = call.abort
    BY <1>16 DEF ToggleSources
  <2> DEFINE clicked_ == [passes EXCEPT ![p] = [NoPass EXCEPT !.by = "click"]]
             call == HexCall(clicked_, p)
  <2>2. /\ [NoPass EXCEPT !.by = "click"] \in PassRecords
        /\ [NoPass EXCEPT !.by = "click"].by = "click" /\ [NoPass EXCEPT !.by = "click"].m = "none"
    BY DEF NoPass, PassRecords
  <2>3. clicked_ \in PassTables /\ \A q \in PassIds : q # p => clicked_[q] = passes[q]
    BY <2>2 DEF MapShape, MapInv, PassTables
  <2>4. clicked_[p].by = "click" /\ clicked_[p].m = "none" /\ clicked_[p].h = "none"
    BY <2>2 DEF MapShape, MapInv, PassTables, NoPass
  <2>5. passes' = Keep(call.passes) /\ hexAbort' = call.abort
    BY <2>1
  <2> HIDE DEF clicked_
  <2>6. Keyed(clicked_) /\ OneAskedBut(clicked_, p, hexAbort)
    BY <2>3, <2>4 DEF Keyed, MapShape, MapInv, OneGridFetch, OneAskedBut
  <2>7. Keyed(call.passes) /\ call.abort \in 0 .. MaxPasses
    BY <2>3, <2>6, HexCallKeyed DEF MapShape
  <2>8. call.passes \in PassTables
    BY <1>a, <2>3, <2>6, HexCallKeeps
  <2> HIDE DEF call
  <2>9. Keyed(passes') /\ hexAbort' \in 0 .. MaxPasses
    BY <2>5, <2>7, <2>8, KeepKeyed
  <2>10. hint' \in Hints /\ UNCHANGED <<tierKey, hexUrl, areaListVars, timer, opening>>
    BY <1>16 DEF ToggleSources, ShowHint, mapHint, MapShape
  <2> QED
    BY <1>a, <2>9, <2>10 DEF MapShape, areaListVars
<1>17. ASSUME NEW p \in PassIds, MarkersAnswer(p) \/ MarkersFail(p) PROVE MapShape'
  <2> DEFINE ps == [passes EXCEPT ![p].m = "none"]
  <2>1. /\ ps \in PassTables
        /\ \A q \in PassIds : /\ ps[q].h = passes[q].h /\ ps[q].by = passes[q].by
                              /\ ps[q].key = passes[q].key /\ ps[q].m \in {"none", passes[q].m}
    BY DEF MapShape, MapInv, PassTables, PassRecords
  <2>2. AfterMarkers(ps, p)
    BY <1>17 DEF MarkersAnswer, MarkersFail
  <2> HIDE DEF ps
  <2>3. Keyed(ps)
    BY <2>1 DEF MapShape, Keyed
  <2>4. Keyed(passes') /\ hexAbort' \in 0 .. MaxPasses
    BY <1>a, <2>1, <2>2, <2>3, AfterMarkersShape
  <2>5. passes[p].key \in MarkerKeys
    BY <1>17 DEF MarkersAnswer, MarkersFail, MapShape, Keyed
  <2>6. passes[p].key[2] \in Slugs \cup {NoSlug}
    BY <2>5 DEF MarkerKeys
  <2>a. tierKey' \in {tierKey, passes[p].key}
    BY <1>17 DEF MarkersAnswer, MarkersFail
  <2>b. registry' \in {registry, [body |-> passes[p].key[2], area |-> slug]}
    BY <1>17 DEF MarkersAnswer, MarkersFail, areaListVars
  <2>c. slug \in Slugs \cup {NoSlug}
    BY DEF MapShape, MapInv, ViewTyped
  <2>d. [body |-> passes[p].key[2], area |-> slug] \in Registries
    BY <2>6, <2>c DEF Registries
  <2>7. tierKey' \in MarkerKeys \cup {NoKey} /\ registry' \in Registries
    BY <2>5, <2>a, <2>b, <2>d DEF MapShape
  <2>8. hint' \in Hints /\ UNCHANGED <<timer, opening, hexUrl, lists>>
    BY <1>17 DEF MarkersAnswer, MarkersFail, MapShape, ShowHint, viewVars, areaListVars
  <2> QED
    BY <1>a, <2>4, <2>7, <2>8 DEF MapShape
<1>19. ASSUME NEW p \in PassIds, HexAnswer(p) \/ HexFail(p) PROVE MapShape'
  <2> DEFINE ps == [passes EXCEPT ![p].h = "none"]
  <2>1. /\ ps \in PassTables
        /\ \A q \in PassIds : /\ ps[q].by = passes[q].by /\ ps[q].m = passes[q].m
                              /\ ps[q].key = passes[q].key
    BY DEF MapShape, MapInv, PassTables, PassRecords
  <2>2. passes' = Keep(ps) /\ hexUrl' \in {hexUrl, passes[p].url}
    BY <1>19 DEF HexAnswer, HexFail
  <2> HIDE DEF ps
  <2>3. Keyed(passes')
    BY <2>1, <2>2, KeepKeyed DEF MapShape, Keyed
  <2>4. passes[p].url \in GridURLs \cup {NoKey}
    BY DEF MapShape, MapInv, PassTables, PassRecords
  <2>5. UNCHANGED <<timer, opening, hint, tierKey, hexAbort, registry, lists>>
    BY <1>19 DEF HexAnswer, HexFail, viewVars, areaListVars
  <2> QED
    BY <1>a, <2>2, <2>3, <2>4, <2>5 DEF MapShape
<1>20. ASSUME NEW p \in PassIds, Settle(p) PROVE MapShape'
  <2>1. /\ passes' = [passes EXCEPT ![p] = NoPass]
        /\ UNCHANGED <<hint, tierKey, hexUrl, hexAbort, registry>>
    BY <1>20 DEF Settle
  <2>2. \A q \in PassIds : passes'[q] \in {passes[q], NoPass}
    BY <2>1 DEF MapShape, MapInv, PassTables
  <2>a. Keyed(passes)
    BY DEF MapShape
  <2>3. Keyed(passes')
    BY <2>2, <2>a DEF Keyed, NoPass
  <2>4. timer' \in BOOLEAN /\ opening' \in Openings
    BY <1>20 DEF Settle, MapShape
  <2>5. passes[p].key \in MarkerKeys
    BY <1>20 DEF Settle, MapShape, Keyed
  <2>6. [by |-> "link", key |-> <<passes[p].key[2], window>>] \in Flights
    BY <2>5 DEF MarkerKeys, Flights, MapShape, MapInv, ViewTyped
  <2>7. lists' \in FlightTables
    BY <1>20, <2>6 DEF Settle, MapShape, FlightTables
  <2> QED
    BY <1>a, <2>1, <2>3, <2>4, <2>7 DEF MapShape
<1>21. ASSUME NEW l \in ListIds, ListAnswer(l) \/ ListFail(l) PROVE MapShape'
  <2>1. lists[l] \in Flights
    BY <1>21 DEF ListAnswer, ListFail, MapShape, FlightTables
  <2>a. registry' \in {registry, [body |-> lists[l].key[1], area |-> lists[l].key[1]]}
    BY <1>21 DEF ListAnswer, ListFail
  <2>b. lists[l].key[1] \in Slugs \cup {NoSlug}
    BY <2>1 DEF Flights
  <2>c. [body |-> lists[l].key[1], area |-> lists[l].key[1]] \in Registries
    BY <2>b DEF Registries
  <2>d. lists' = [lists EXCEPT ![l] = NoList]
    BY <1>21 DEF ListAnswer, ListFail
  <2>2. registry' \in Registries /\ lists' \in FlightTables
    BY <2>a, <2>c, <2>d DEF MapShape, FlightTables
  <2>3. UNCHANGED <<timer, opening, hint, tierKey, hexAbort, passes, hexUrl>>
    BY <1>21 DEF ListAnswer, ListFail, viewVars
  <2> QED
    BY <1>a, <2>2, <2>3 DEF MapShape, Keyed
<1> QED
  BY <1>1, <1>2, <1>3, <1>4, <1>5, <1>6, <1>8, <1>9, <1>10, <1>11, <1>12, <1>13, <1>14, <1>15,
     <1>16, <1>17, <1>19, <1>20, <1>21 DEF MapNext

\* mapdata.js's state keeps its shape: the keys it dedups on are keys it asked with,
\* and a list's or a pass's landing never meets a null key.
THEOREM MapTypeCorrect == MapSpec => []MapTypeOK
<1>1. MapShape => MapTypeOK
  BY DEF MapShape, MapInv, MapTypeOK, ViewTyped, PassTables, PassRecords, Registries, Hints, Openings
<1> QED
  BY <1>1, MapInitShape, MapNextShape, PTL DEF MapSpec

-----------------------------------------------------------------------------
\* The shape of the shared view, its filters and its history.
ViewShape ==
  /\ ViewInv
  /\ painted \in Metrics /\ sourceBoxes \in (SUBSET SOURCES) \cup {{Null}}
  /\ Len(entries) <= MaxEntries
  /\ echo \in BOOLEAN /\ lag \in BOOLEAN /\ faulty \in BOOLEAN /\ status \in STATUSES

LEMMA ViewInitShape == ViewStateInit => ViewShape
<1> SUFFICES ASSUME ViewStateInit PROVE ViewShape
  OBVIOUS
<1>1. ViewInv
  BY ViewInitInv
<1>2. painted \in Metrics
  BY <1>1, SharedViewTyped DEF ViewStateInit, ViewInv
<1>3. Len(entries) = 1 /\ 1 <= MaxEntries
  BY ViewStateAssumption DEF ViewStateInit
<1>4. echo \in BOOLEAN /\ lag \in BOOLEAN /\ faulty \in BOOLEAN /\ status \in STATUSES
  BY DEF ViewStateInit, STATUSES
<1>5. sourceBoxes \in (SUBSET SOURCES) \cup {{Null}}
  BY DEF ViewStateInit
<1>6. Len(entries) <= MaxEntries
  BY <1>3
<1> QED
  BY <1>1, <1>2, <1>4, <1>5, <1>6 DEF ViewShape

\* A write makes no more entries than there is room for.
LEMMA WriteShape ==
  ASSUME ViewShape, NEW push \in BOOLEAN, NEW chosenView \in Views, write(push, chosenView)
  PROVE  Len(entries') <= MaxEntries /\ lag' \in BOOLEAN
<1>1. serialiseHash(chosenView) \in Hashes
  BY HashRoundTrip
<1>2. CASE lag' = TRUE /\ UNCHANGED <<entries, at>>
  BY <1>2 DEF ViewShape
<1>3. CASE /\ push /\ at < MaxEntries /\ lag' = FALSE /\ at' = at + 1
           /\ entries' = Append(SubSeq(entries, 1, at), serialiseHash(chosenView))
  <2>1. SubSeq(entries, 1, at) \in Seq(Hashes) /\ Len(SubSeq(entries, 1, at)) = at
    BY DEF ViewShape, ViewInv
  <2>2. Len(entries') = at + 1
    BY <1>1, <1>3, <2>1
  <2>3. at \in Nat /\ MaxEntries \in Nat
    BY ViewStateAssumption DEF ViewShape, ViewInv
  <2>4. at < MaxEntries /\ lag' = FALSE
    BY <1>3
  <2>5. at + 1 <= MaxEntries
    BY <2>3, <2>4
  <2>6. lag' \in BOOLEAN
    BY <2>4
  <2> QED
    BY <2>2, <2>5, <2>6
<1>4. CASE /\ lag' = FALSE /\ entries' = [entries EXCEPT ![at] = serialiseHash(chosenView)]
  <2>1. Len(entries') = Len(entries)
    BY <1>1, <1>4 DEF ViewShape, ViewInv
  <2> QED
    BY <1>4, <2>1 DEF ViewShape
<1> QED
  BY <1>2, <1>3, <1>4 DEF write

LEMMA ViewNextShape == ViewShape /\ [ViewStateNext]_viewStateVars => ViewShape'
<1> SUFFICES ASSUME ViewShape, [ViewStateNext]_viewStateVars PROVE ViewShape'
  OBVIOUS
<1> USE DEF Step, filterVars
<1>0. ViewInv' /\ ViewInv
  BY ViewNextInv DEF ViewShape
<1>a. metric \in Metrics /\ sensorId \in Ids \cup {Null} /\ sources \in SUBSET SOURCES
  BY <1>0, SharedViewTyped DEF ViewInv
<1>1. ASSUME NEW m \in Metrics, SetMetric(m) PROVE ViewShape'
  <2>1. [SharedView EXCEPT !.metric = m] \in Views
    BY <1>a DEF SharedView, Views
  <2>2. Len(entries') <= MaxEntries /\ lag' \in BOOLEAN
    BY <1>1, <2>1, WriteShape DEF SetMetric
  <2> QED
    BY <1>0, <1>1, <2>2 DEF SetMetric, ViewShape
<1>2. ASSUME NEW id \in Ids, OpenSensor(id) PROVE ViewShape'
  <2>1. [SharedView EXCEPT !.sensor = id] \in Views
    BY <1>a DEF SharedView, Views
  <2>2. Len(entries') <= MaxEntries /\ lag' \in BOOLEAN
    BY <1>2, <2>1, WriteShape DEF OpenSensor
  <2> QED
    BY <1>0, <1>2, <2>2 DEF OpenSensor, ViewShape
<1>3. CASE CloseSensor
  <2>1. [SharedView EXCEPT !.sensor = Null] \in Views
    BY <1>a DEF SharedView, Views
  <2>2. Len(entries') <= MaxEntries /\ lag' \in BOOLEAN
    BY <1>3, <2>1, WriteShape DEF CloseSensor
  <2> QED
    BY <1>0, <1>3, <2>2 DEF CloseSensor, ViewShape
<1>4. ASSUME NEW s \in SOURCES, ToggleSource(s) PROVE ViewShape'
  <2>1. sources' \in SUBSET SOURCES
    BY <1>4, <1>a DEF ToggleSource
  <2>2. [SharedView EXCEPT !.sources = sources'] \in Views
    BY <1>a, <2>1 DEF SharedView, Views
  <2>3. Len(entries') <= MaxEntries /\ lag' \in BOOLEAN
    <3>1. CASE sources' # sources
      BY <1>4, <2>2, <3>1, WriteShape DEF ToggleSource
    <3>2. CASE sources' = sources
      BY <1>4, <3>2 DEF ToggleSource, ViewShape
    <3> QED  BY <3>1, <3>2
  <2>4. sourceBoxes' \in SUBSET SOURCES
    <3>1. sourceBoxes \in SUBSET SOURCES
      BY <1>4 DEF ToggleSource, ViewShape
    <3> QED  BY <1>4, <3>1 DEF ToggleSource
  <2> QED
    BY <1>0, <1>4, <2>3, <2>4 DEF ToggleSource, ViewShape
<1>5. CASE BuildMenu
  BY <1>0, <1>a, <1>5 DEF BuildMenu, ViewShape
<1>6. ASSUME NEW s \in STATUSES, SetStatus(s) PROVE ViewShape'
  BY <1>0, <1>6 DEF SetStatus, ViewShape
<1>7. CASE SetShowFaulty
  BY <1>0, <1>7 DEF SetShowFaulty, ViewShape
<1>8. ASSUME NEW i \in 1 .. MaxEntries, GoTo(i) PROVE ViewShape'
  <2>1. echo' \in BOOLEAN /\ lag' \in BOOLEAN
    BY <1>8 DEF GoTo, ViewShape
  <2> QED
    BY <1>0, <1>8, <2>1 DEF GoTo, ViewShape
<1>9. ASSUME NEW hash \in Hashes, TypeHash(hash) PROVE ViewShape'
  <2>1. SubSeq(entries, 1, at) \in Seq(Hashes) /\ Len(SubSeq(entries, 1, at)) = at /\ at \in Nat
    BY <1>0 DEF ViewInv
  <2>2. Len(entries') = at + 1
    BY <1>9, <2>1 DEF TypeHash
  <2>3. Len(entries') <= MaxEntries
    BY <1>9, <2>1, <2>2, ViewStateAssumption DEF TypeHash
  <2> QED
    BY <1>0, <1>9, <2>3 DEF TypeHash, ViewShape
<1>10. CASE onHashChange
  <2>1. parseHash(entries[at]) \in Views
    BY <1>0, ParsedIsView DEF ViewInv
  <2>2. painted' \in Metrics
    BY <1>10, <2>1 DEF onHashChange, Views
  <2> QED
    BY <1>0, <1>10, <2>2 DEF onHashChange, ViewShape
<1>11. CASE UNCHANGED viewStateVars
  BY <1>0, <1>11 DEF viewStateVars, ViewShape
<1> QED
  BY <1>1, <1>2, <1>3, <1>4, <1>5, <1>6, <1>7, <1>8, <1>9, <1>10, <1>11 DEF ViewStateNext

\* viewstate.svelte.js's stores and the browser's history keep their shape.
THEOREM ViewStateTypeCorrect == ViewStateSpec => []ViewStateTypeOK
<1>1. ViewShape => ViewStateTypeOK
  <2> SUFFICES ASSUME ViewShape PROVE ViewStateTypeOK
    OBVIOUS
  <2>1. metric \in Metrics /\ sensorId \in Ids \cup {Null} /\ sources \in SUBSET SOURCES
    BY SharedViewTyped DEF ViewShape, ViewInv
  <2>2. {echo, lag, faulty} \subseteq BOOLEAN
    BY DEF ViewShape
  <2> QED
    BY <2>1, <2>2 DEF ViewShape, ViewInv, ViewStateTypeOK
<1> QED
  BY <1>1, ViewInitShape, ViewNextShape, PTL DEF ViewStateSpec

-----------------------------------------------------------------------------
(***************************************************************************)
(* The shape of what is remembered: under either name a key holds what its *)
(* reader accepts, or what somebody else left there.                       *)
(***************************************************************************)
Storable(key) == Accepted(key) \cup {Garbled, Unset}
RememberedShape ==
  /\ RememberedInv
  /\ storage \in {"open", "full", "blocked"} /\ visit \in {"away", "opening", "open"}
  /\ \A key \in Keys : disk[key] \in Storable(key) /\ legacy[key] \in Storable(key)
  /\ star \in Stars \cup {Unset} /\ theme \in {"light", "dark", Unset}
  /\ eye \in Places \cup {Home, Outside}
  /\ explicit \in BOOLEAN /\ saveDue \in BOOLEAN /\ callout \in BOOLEAN

LEMMA AcceptedAre ==
  /\ Accepted("favourite") = Stars /\ Accepted("view") = Places
  /\ Accepted("theme") = {"light", "dark"} /\ Accepted("hint") = {"seen"}
BY DEF Accepted

LEMMA AcceptedSome == \A key \in Keys : key # "view" => (CHOOSE a \in Accepted(key) : TRUE) \in Accepted(key)
<1>1. ASSUME NEW key \in Keys, key # "view" PROVE Accepted(key) # {}
  BY <1>1, AcceptedAre, RememberedAssumption DEF Keys
<1> QED
  BY <1>1

LEMMA ReadsAccepted == \A key : read(key) \in Accepted(key) \cup {Unset}
BY DEF read

LEMMA RememberedInitShape == RememberedInit => RememberedShape
<1> SUFFICES ASSUME RememberedInit PROVE RememberedShape
  OBVIOUS
<1>1. PICK v \in Places \cup {Garbled, Unset} : \E old \in {"new", "old", "both"} :
        LET kept == [key \in Keys |-> IF key = "view" THEN v
                                      ELSE IF v = Unset THEN Unset
                                      ELSE CHOOSE a \in Accepted(key) : TRUE]
            none == [key \in Keys |-> Unset]
        IN /\ disk = IF old = "old" THEN none ELSE kept
           /\ legacy = IF old = "new" THEN none ELSE kept
  BY DEF RememberedInit
<1> DEFINE kept == [key \in Keys |-> IF key = "view" THEN v
                                     ELSE IF v = Unset THEN Unset
                                     ELSE CHOOSE a \in Accepted(key) : TRUE]
           none == [key \in Keys |-> Unset]
<1>2. disk \in {kept, none} /\ legacy \in {kept, none}
  BY <1>1
<1>3. \A key \in Keys : none[key] \in Storable(key)
  BY DEF Storable
<1>4. \A key \in Keys : kept[key] \in Storable(key)
  BY AcceptedAre, AcceptedSome DEF Storable
<1> HIDE DEF kept, none
<1>5. \A key \in Keys : disk[key] \in Storable(key) /\ legacy[key] \in Storable(key)
  BY <1>2, <1>3, <1>4
<1> QED
  BY <1>5, RememberedInitInv DEF RememberedInit, RememberedShape

\* What a key is given is one of the values its reader accepts.
LEMMA SetItemShape ==
  ASSUME RememberedShape, NEW key \in Keys, NEW value \in Accepted(key), setItem(key, value)
  PROVE  \A k \in Keys : disk'[k] \in Storable(k) /\ legacy'[k] \in Storable(k)
<1>1. value \in Storable(key) /\ Unset \in Storable(key)
  BY DEF Storable
<1> QED
  BY <1>1 DEF setItem, diskVars, RememberedShape, RememberedInv

LEMMA RemoveItemsShape ==
  ASSUME RememberedShape, NEW keys, removeItems(keys)
  PROVE  \A k \in Keys : disk'[k] \in Storable(k) /\ legacy'[k] \in Storable(k)
<1>1. \A k \in Keys : Unset \in Storable(k)
  BY DEF Storable
<1> QED
  BY <1>1 DEF removeItems, diskVars, RememberedShape

LEMMA RememberedNextShape == RememberedShape /\ [RememberedNext]_rememberedVars => RememberedShape'
<1> SUFFICES ASSUME RememberedShape, [RememberedNext]_rememberedVars PROVE RememberedShape'
  OBVIOUS
<1> USE DEF Deed
<1>a. RememberedInv'
  BY RememberedNextInv DEF RememberedShape
<1>b. {"favourite", "view", "theme", "hint"} \subseteq Keys
  BY DEF Keys
<1>c. UNCHANGED diskVars => \A k \in Keys : disk'[k] \in Storable(k) /\ legacy'[k] \in Storable(k)
  BY DEF diskVars, RememberedShape
<1>1. CASE Arrive
  <2>1. \A k \in Keys : disk'[k] \in Storable(k) /\ legacy'[k] \in Storable(k)
    BY <1>1, <1>b, <1>c, AcceptedAre, SetItemShape DEF Arrive
  <2>2. star' \in Stars \cup {Unset} /\ theme' \in {"light", "dark", Unset}
    BY <1>1, AcceptedAre, ReadsAccepted DEF Arrive
  <2>3. callout' \in BOOLEAN
    BY <1>1 DEF Arrive
  <2> QED
    BY <1>a, <1>1, <2>1, <2>2, <2>3 DEF Arrive, RememberedShape
<1>2. CASE Opening
  <2>1. eye' \in Places \cup {Home, Outside}
    BY <1>2, AcceptedAre, ReadsAccepted DEF Opening, OpeningPlaces
  <2> QED
    BY <1>a, <1>2, <1>c, <2>1 DEF Opening, RememberedShape
<1>3. CASE CalloutEnds
  BY <1>a, <1>c, <1>3 DEF CalloutEnds, RememberedShape
<1>4. CASE LeavePage
  BY <1>a, <1>c, <1>4 DEF LeavePage, RememberedShape
<1>5. CASE SaveView
  <2>1. \A k \in Keys : disk'[k] \in Storable(k) /\ legacy'[k] \in Storable(k)
    BY <1>5, <1>b, <1>c, AcceptedAre, SetItemShape DEF SaveView
  <2> QED
    BY <1>a, <1>5, <2>1 DEF SaveView, RememberedShape
<1>6. CASE ClearKeys
  <2>1. \A k \in Keys : disk'[k] \in Storable(k) /\ legacy'[k] \in Storable(k)
    BY <1>6, RemoveItemsShape DEF ClearKeys
  <2> QED
    BY <1>a, <1>6, <2>1 DEF ClearKeys, pageVars, RememberedShape
<1>7. ASSUME NEW c \in Places \cup {Outside}, NEW button \in BOOLEAN, ReaderMoves(c, button)
      PROVE  RememberedShape'
  <2>1. callout' \in BOOLEAN
    BY <1>7 DEF ReaderMoves, RememberedShape
  <2> QED
    BY <1>a, <1>c, <1>7, <2>1 DEF ReaderMoves, RememberedShape
<1>8. ASSUME NEW c \in Places, PageMoves(c) PROVE RememberedShape'
  BY <1>a, <1>c, <1>8 DEF PageMoves, RememberedShape
<1>9. ASSUME NEW id \in Stars, ToggleStar(id) PROVE RememberedShape'
  <2>1. \A k \in Keys : disk'[k] \in Storable(k) /\ legacy'[k] \in Storable(k)
    BY <1>9, <1>b, AcceptedAre, SetItemShape, RemoveItemsShape DEF ToggleStar
  <2> QED
    BY <1>a, <1>9, <2>1 DEF ToggleStar, RememberedShape
<1>10. ASSUME NEW t \in {"light", "dark", Unset}, PickTheme(t) PROVE RememberedShape'
  <2>1. \A k \in Keys : disk'[k] \in Storable(k) /\ legacy'[k] \in Storable(k)
    <3>1. CASE t = Unset
      BY <1>10, <3>1, RemoveItemsShape DEF PickTheme
    <3>2. CASE t # Unset
      BY <1>10, <1>b, <3>2, AcceptedAre, SetItemShape DEF PickTheme
    <3> QED  BY <3>1, <3>2
  <2> QED
    BY <1>a, <1>10, <2>1 DEF PickTheme, RememberedShape
<1>11. CASE UNCHANGED rememberedVars
  BY <1>a, <1>c, <1>11 DEF rememberedVars, RememberedShape
<1> QED
  BY <1>1, <1>2, <1>3, <1>4, <1>5, <1>6, <1>7, <1>8, <1>9, <1>10, <1>11 DEF RememberedNext

\* storage.js and its readers: nothing unread by its own reader is ever written, and
\* the page only ever shows what a reader accepted.
THEOREM RememberedTypeCorrect == RememberedSpec => []RememberedTypeOK
<1>1. RememberedShape => RememberedTypeOK
  <2> SUFFICES ASSUME RememberedShape PROVE RememberedTypeOK
    OBVIOUS
  <2>1. \A key \in Keys : {disk[key], legacy[key]} \subseteq Accepted(key) \cup {Garbled, Unset}
    BY DEF RememberedShape, Storable
  <2>2. {explicit, saveDue, callout} \subseteq BOOLEAN
    BY DEF RememberedShape
  <2> QED
    BY <2>1, <2>2 DEF RememberedShape, RememberedTypeOK
<1> QED
  BY <1>1, RememberedInitShape, RememberedNextShape, PTL DEF RememberedSpec

-----------------------------------------------------------------------------
\* The shape of the charts, their pickers, the menus and the notice.
ChartsShape ==
  /\ ChartsInv
  /\ sel.nearby \subseteq NearbyKeys /\ sel.period \in Periods \cup {CUSTOM}
  /\ areaKnown \in BOOLEAN /\ offered \in BOOLEAN /\ docked \in BOOLEAN /\ covered \in BOOLEAN
  /\ subView \in BOOLEAN /\ keyed \in BOOLEAN
  /\ opens \subseteq Menus /\ notice \in {"", "done", "failed"}
  /\ copies \in Nat /\ said \in Nat /\ copies + said <= MaxCopies

LEMMA ChartsInitShape == ChartsInit => ChartsShape
<1> SUFFICES ASSUME ChartsInit PROVE ChartsShape
  OBVIOUS
<1>1. ChartsInv
  BY ChartsInitInv
<1>2. sel.nearby = {} /\ sel.period = OpeningPeriod
  BY DEF ChartsInit
<1>3. areaKnown \in BOOLEAN /\ offered \in BOOLEAN /\ docked \in BOOLEAN /\ covered \in BOOLEAN
  BY DEF ChartsInit
<1>4. subView \in BOOLEAN /\ keyed \in BOOLEAN /\ opens \subseteq Menus /\ notice \in {"", "done", "failed"}
  BY DEF ChartsInit
<1>5. copies = 0 /\ said = 0
  BY DEF ChartsInit
<1>6. copies \in Nat /\ said \in Nat /\ copies + said <= MaxCopies
  BY <1>5 DEF MaxCopies
<1> QED
  BY <1>1, <1>2, <1>3, <1>4, <1>6, ChartsAssumption DEF ChartsShape

\* The gestures on the selection keep it one of the pickers' own.
LEMMA SelectionShape ==
  ASSUME ChartsShape,
         \/ \E m \in ChartMetrics : PickMetric(m) \/ TapGauge(m) \/ PageMetric(m)
         \/ \E k \in NearbyKeys : PickNearby(k)
         \/ \E p \in Periods : Segment(p)
         \/ \E p \in Periods \cup {CUSTOM} : SelectPeriod(p)
         \/ \E t \in Instants : SetFrom(t) \/ SetTo(t)
         \/ ResetChart
  PROVE  /\ sel'.nearby \subseteq NearbyKeys /\ sel'.period \in Periods \cup {CUSTOM}
         /\ UNCHANGED <<areaKnown, offered, docked, covered, menuVars, noticeVars>>
<1>0. PICK ms, near, per, from, to :
        sel = [metrics |-> ms, nearby |-> near, period |-> per, from |-> from, to |-> to]
  BY DEF ChartsShape, ChartsInv, SelInv
<1>1. PICK next, again : Selected(next, again)
  BY Zenon DEF PickMetric, TapGauge, PageMetric, PickNearby, Segment, SelectPeriod, SetFrom, SetTo, ResetChart
<1>2. sel.nearby = near /\ sel.period = per /\ near \subseteq NearbyKeys /\ per \in Periods \cup {CUSTOM}
  BY <1>0 DEF ChartsShape
<1>3. ASSUME NEW m, PickMetric(m) \/ TapGauge(m) \/ PageMetric(m)
      PROVE  sel'.nearby = sel.nearby /\ sel'.period = sel.period
  <2>1. PICK graphed : sel' = [sel EXCEPT !.metrics = graphed]
    BY <1>3 DEF PickMetric, TapGauge, PageMetric, Selected
  <2> QED  BY <1>0, <2>1
<1>4. ASSUME NEW k \in NearbyKeys, PickNearby(k)
      PROVE  sel'.nearby \subseteq NearbyKeys /\ sel'.period = sel.period
  <2>1. PICK set : /\ sel' = [sel EXCEPT !.nearby = set]
                   /\ set = IF k \in sel.nearby THEN sel.nearby \ {k} ELSE sel.nearby \cup {k}
    BY <1>4 DEF PickNearby, Selected
  <2>2. set \subseteq NearbyKeys
    BY <1>2, <2>1
  <2> QED  BY <1>0, <2>1, <2>2
<1>5. ASSUME NEW p \in Periods \cup {CUSTOM}, Segment(p) \/ SelectPeriod(p)
      PROVE  sel'.nearby = sel.nearby /\ sel'.period = p
  <2>1. \/ sel' = [sel EXCEPT !.period = p, !.from = NoInstant, !.to = NoInstant]
        \/ sel' = [sel EXCEPT !.period = p]
    BY <1>5 DEF Segment, SelectPeriod, Selected
  <2> QED  BY <1>0, <2>1
<1>6. ASSUME NEW t, SetFrom(t) \/ SetTo(t)
      PROVE  sel'.nearby = sel.nearby /\ sel'.period = sel.period
  <2>1. sel' = [sel EXCEPT !.from = t] \/ sel' = [sel EXCEPT !.to = t]
    BY <1>6 DEF SetFrom, SetTo, Selected
  <2> QED  BY <1>0, <2>1
<1>7. ASSUME ResetChart PROVE sel'.nearby = {} /\ sel'.period = OpeningPeriod
  <2>1. PICK graphed : sel' = [metrics |-> graphed, nearby |-> {},
                            period |-> OpeningPeriod, from |-> NoInstant, to |-> NoInstant]
    BY <1>7 DEF ResetChart, Selected
  <2> QED  BY <2>1
<1>8. sel'.nearby \subseteq NearbyKeys /\ sel'.period \in Periods \cup {CUSTOM}
  BY <1>2, <1>3, <1>4, <1>5, <1>6, <1>7, ChartsAssumption
<1> QED
  BY <1>1, <1>8 DEF Selected

LEMMA ChartsNextShape == ChartsShape /\ [ChartsNext]_chartVars => ChartsShape'
<1> SUFFICES ASSUME ChartsShape, [ChartsNext]_chartVars PROVE ChartsShape'
  OBVIOUS
<1>a. ChartsInv'
  BY ChartsNextInv DEF ChartsShape
<1>1. CASE \/ \E m \in ChartMetrics : PickMetric(m) \/ TapGauge(m) \/ PageMetric(m)
           \/ \E k \in NearbyKeys : PickNearby(k)
           \/ \E p \in Periods : Segment(p)
           \/ \E p \in Periods \cup {CUSTOM} : SelectPeriod(p)
           \/ \E t \in Instants : SetFrom(t) \/ SetTo(t)
           \/ ResetChart
  BY <1>a, <1>1, SelectionShape DEF ChartsShape, menuVars, noticeVars
<1>2. CASE OfferNearby
  BY <1>a, <1>2 DEF OfferNearby, ChartsShape, menuVars, noticeVars
<1>3. CASE AreaLearned
  BY <1>a, <1>3 DEF AreaLearned, ChartsShape, menuVars, noticeVars
<1>4. CASE DockMoves
  BY <1>a, <1>4 DEF DockMoves, ChartsShape, menuVars, noticeVars
<1>5. CASE CardMoves
  BY <1>a, <1>5 DEF CardMoves, ChartsShape, menuVars, noticeVars
<1>6. ASSUME NEW r \in runs, BodyFails(r) PROVE ChartsShape'
  BY <1>a, <1>6 DEF BodyFails, ChartsShape, menuVars, noticeVars
<1>7. ASSUME NEW r \in runs, NEW xs \in Bodies, BodyArrives(r, xs) PROVE ChartsShape'
  BY <1>a, <1>7 DEF BodyArrives, ChartsShape, menuVars, noticeVars
<1>8. ASSUME \/ \E m \in Menus : PointAt(m) \/ KeyOn(m)
             \/ PressOutside \/ OpenSub \/ Choose \/ \E inMore \in BOOLEAN : EscapeMenu(inMore)
      PROVE  ChartsShape'
  <2>1. UNCHANGED <<kind, selVars, noticeVars>>
    BY <1>8 DEF PointAt, KeyOn, PressOutside, OpenSub, Choose, EscapeMenu, MenuStep
  <2>2. opens' \subseteq Menus
    BY <1>8 DEF PointAt, KeyOn, PressOutside, OpenSub, Choose, EscapeMenu, ChartsShape
  <2>3. subView' \in BOOLEAN /\ keyed' \in BOOLEAN
    BY <1>8 DEF PointAt, KeyOn, PressOutside, OpenSub, Choose, EscapeMenu, ChartsShape
  <2> QED
    BY <1>a, <2>1, <2>2, <2>3 DEF ChartsShape, selVars, noticeVars
<1>9. ASSUME \/ Copy \/ \E text \in {"done", "failed"} : Say(text)
             \/ \E t \in timers : NoticeEnds(t)
      PROVE  ChartsShape'
  <2>1. UNCHANGED <<kind, selVars, menuVars>>
    BY <1>9 DEF Copy, Say, NoticeEnds, NoticeStep
  <2>2. copies \in Nat /\ said \in Nat /\ copies + said <= 3
    BY DEF ChartsShape, MaxCopies
  <2>3. \/ copies' = copies + 1 /\ said' = said /\ copies + said < 3 /\ notice' = notice
        \/ copies' = copies - 1 /\ said' = said + 1 /\ copies > 0 /\ notice' \in {"done", "failed"}
        \/ copies' = copies /\ said' = said /\ notice' = ""
    BY <1>9 DEF Copy, Say, NoticeEnds, MaxCopies
  <2>a. PICK c, s, d, t : c = copies /\ s = said /\ d = copies' /\ t = said'
    OBVIOUS
  <2>b. c \in Nat /\ s \in Nat /\ c + s <= 3
    BY <2>2, <2>a
  <2>c. \/ d = c + 1 /\ t = s /\ c + s < 3
        \/ d = c - 1 /\ t = s + 1 /\ c > 0
        \/ d = c /\ t = s
    BY <2>3, <2>a
  <2>d. d \in Nat /\ t \in Nat /\ d + t <= 3
    BY ONLY <2>b, <2>c
  <2>4. copies' \in Nat /\ said' \in Nat /\ copies' + said' <= 3
    BY <2>a, <2>d
  <2>5. notice' \in {"", "done", "failed"}
    BY <2>3 DEF ChartsShape
  <2> QED
    BY <1>a, <2>1, <2>4, <2>5 DEF ChartsShape, selVars, menuVars, MaxCopies
<1>10. CASE UNCHANGED chartVars
  BY <1>a, <1>10 DEF chartVars, selVars, menuVars, noticeVars, ChartsShape
<1> QED
  BY <1>1, <1>2, <1>3, <1>4, <1>5, <1>6, <1>7, <1>8, <1>9, <1>10 DEF ChartsNext

\* SensorChart.svelte and ChartPanel.svelte, their pickers, menus and notice keep their
\* shape whatever is picked and whatever answers.
THEOREM ChartsTypeCorrect == ChartsSpec => []ChartsTypeOK
<1>1. ChartsShape => ChartsTypeOK
  <2> SUFFICES ASSUME ChartsShape PROVE ChartsTypeOK
    OBVIOUS
  <2>1. \A c \in DOMAIN charts : charts[c].status \in {"none", "loading", "ok", "empty", "unavailable"}
    BY DEF ChartsShape, ChartsInv, RunsInv, RunsTyped, Says
  <2>2. {areaKnown, offered, docked, covered, subView, keyed} \subseteq BOOLEAN
    BY DEF ChartsShape
  <2>a. copies \in Nat /\ said \in Nat /\ copies + said <= 3
    BY DEF ChartsShape, MaxCopies
  <2>3. copies \in 0 .. MaxCopies
    BY ONLY <2>a DEF MaxCopies
  <2> QED
    BY <2>1, <2>2, <2>3 DEF ChartsShape, ChartsTypeOK
<1> QED
  BY <1>1, ChartsInitShape, ChartsNextShape, PTL DEF ChartsSpec

-----------------------------------------------------------------------------
(***************************************************************************)
(* The parts together.                                                     *)
(***************************************************************************)

\* A step of the browser is a step of the part that moves, or moves nothing of it.
LEMMA BrowserSteps ==
  ASSUME [BrowserNext]_browserVars
  PROVE  /\ [ReplayNext]_replayVars /\ [MapNext]_mapVars /\ [OverlaysNext]_overlayVars
         /\ [ChromeNext]_chromeVars /\ [SheetsNext]_sheetVars /\ [ViewStateNext]_viewStateVars
         /\ [RememberedNext]_rememberedVars /\ [CellsNext]_cellVars /\ [ChartsNext]_chartVars
         /\ [ListsNext]_listVars /\ [StationsNext]_stationVars /\ [BootNext]_bootVars
         /\ [OblastTableNext]_tableVars /\ [KitRefreshNext]_kitVars
         /\ [KitCameraNext]_cameraVars /\ [KitHandsNext]_handVars
<1>1. CASE UNCHANGED browserVars
  BY <1>1 DEF browserVars
<1>2. CASE BrowserNext
  BY <1>2 DEF BrowserNext, Others
<1> QED  BY <1>1, <1>2

\* A behaviour of the browser is one of each of its parts.
LEMMA BrowserIsParts ==
  BrowserSpec => /\ ReplaySpec /\ MapSpec /\ OverlaysSpec /\ ChromeSpec /\ SheetsSpec
                 /\ ViewStateSpec /\ RememberedSpec /\ CellsSpec /\ ChartsSpec /\ ListsSpec
                 /\ StationsSpec /\ BootSpec /\ OblastTableSpec /\ KitRefreshSpec
                 /\ KitCameraSpec /\ KitHandsSpec
<1>1. BrowserInit => /\ ReplayInit /\ MapInit /\ OverlaysInit /\ ChromeInit /\ SheetsInit
                     /\ ViewStateInit /\ RememberedInit /\ CellsInit /\ ChartsInit /\ ListsInit
                     /\ StationsInit /\ BootInit /\ OblastTableInit /\ KitRefreshInit
                     /\ KitCameraInit /\ KitHandsInit
  BY DEF BrowserInit
<1> QED
  BY <1>1, BrowserSteps, PTL
  DEF BrowserSpec, ReplaySpec, MapSpec, OverlaysSpec, ChromeSpec, SheetsSpec, ViewStateSpec,
      RememberedSpec, CellsSpec, ChartsSpec, ListsSpec, StationsSpec, BootSpec,
      OblastTableSpec, KitRefreshSpec, KitCameraSpec, KitHandsSpec

\* The design kit's page, whichever of its parts moves: the table keeps the reader's
\* rules (oblast-table.js), the line names the source of what is on screen
\* (airbg-data.js), the camera moves by as many units of the drawing as it is given pixels
\* (map-render.js, map-zoom.js) and a drag is never a click (map-pan.js).
THEOREM KitPagesAlwaysHold == BrowserSpec => []KitPagesHold
<1>1. TableKeepsItsRules /\ SourceIsNamed /\ CameraKeepsPlace /\ DragsAreNotClicks => KitPagesHold
  BY DEF KitPagesHold
<1> QED
  BY <1>1, BrowserIsParts, TableAlwaysKeepsRules, RefreshAlwaysNamed, CameraAlwaysKeepsPlace,
     DragsAreNeverClicks, PTL

\* The shape of every part's state, whichever part moves: between them the parts'
\* theorems say it of BrowserSpec, which is a behaviour of each of them.
THEOREM BrowserTypeCorrect == BrowserSpec => []BrowserTypeOK
<1>1. ReplayTypeOK /\ MapTypeOK /\ OverlaysTypeOK /\ ChromeTypeOK /\ SheetsTypeOK
        /\ ViewStateTypeOK /\ RememberedTypeOK /\ CellsTypeOK /\ ChartsTypeOK /\ ListsTypeOK
      => BrowserTypeOK
  BY DEF BrowserTypeOK
<1> QED
  BY <1>1, BrowserIsParts, ReplayTypeCorrect, MapTypeCorrect, OverlaysTypeCorrect,
     ChromeTypeCorrect, SheetsTypeCorrect, ViewStateTypeCorrect, RememberedTypeCorrect,
     CellsTypeCorrect, ChartsTypeCorrect, ListsTypeCorrect, PTL

\* What the page shows is what was read: the cells and columns of the map, the charts
\* with their captions and notices, the rows and the finder's answers, and the counts,
\* panel, strip and markers that are all made of one body of devices.
THEOREM PagesAlwaysTellTheTruth == BrowserSpec => []PagesTellTheTruth
<1>1. DrawnFromReadings /\ ChartsTellTheTruth /\ ListsAnswer /\ StationsAgree => PagesTellTheTruth
  BY DEF PagesTellTheTruth
<1> QED
  BY <1>1, BrowserIsParts, MarksAlwaysTell, ChartsAlwaysTrue, ListsAlwaysAnswer, StationsAlwaysAgree, PTL
=============================================================================
