------------------------------- MODULE MapData -------------------------------
(***************************************************************************)
(* What the map island asks the server for and what it draws of the        *)
(* answers: refresh, refreshHexes and loadAreaSensors of                   *)
(* web/src/lib/mapdata.js, the opening sequence and the subscriptions of   *)
(* mapload.js, the placements of placement.js and the clicks and the       *)
(* debounced moveend of islands/map.js, interleaved at their awaits.       *)
(*                                                                         *)
(* A pass is one run of a handler: at most one refresh call (m) and one    *)
(* refreshHexes call (h).  What is drawn is the body of tierKey and the    *)
(* body of hexUrl; a deferring handler holds both paints until both calls  *)
(* are through, and which of the two bodies is drawn first is left out.    *)
(***************************************************************************)
EXTENDS Integers, FiniteSets

CONSTANTS Cameras,    \* zoom and centre, as far as requests tell them apart
          TierOf,     \* the tier tierFor gives a camera's zoom
          Slugs, NoSlug,
          Pages,      \* cfg.slug: the area of an area page, NoSlug on the home page
          Windows,
          NoKey,      \* null, of keys, URLs and paints
          MaxPasses,  \* bound: handler runs in flight at once
          MaxLists,   \* bound: area lists in flight at once
          MaxActs     \* bound: what the reader does in one visit

ASSUME MapDataAssumption ==
  /\ TierOf \in [Cameras -> {"country", "city", "sensors"}]
  /\ NoSlug \notin Slugs /\ Pages \subseteq Slugs \cup {NoSlug}
  /\ MaxPasses \in Nat \ {0} /\ MaxLists \in Nat /\ MaxActs \in Nat

VARIABLES
  page,                  \* cfg.slug
  acts,                  \* what the reader has done so far
  camera, slug, window,  \* the view, state.slug and state.window
  anyTicked,             \* some network is ticked in the layers menu
  opening,               \* how far initData and what follows it has come
  timer,                 \* the debounced moveend is due
  tierKey,               \* state.tier: the key refresh dedups on
  fellBack,              \* state.fellBack
  hint, sticky,          \* the banner; hintController's stickyError is set
  passes,                \* handler runs in flight
  hexUrl, hexAbort,      \* URL of state.hexBody; the pass holding state.hexAbort
  registry, listKey,     \* the sensors registry and state.listKey
  lists                  \* loadAreaSensors and deep-link lists in flight

mapVars == <<page, acts, camera, slug, window, anyTicked, opening, timer, tierKey, fellBack, hint,
             sticky, passes, hexUrl, hexAbort, registry, listKey, lists>>
viewVars == <<page, acts, camera, slug, window, anyTicked, opening, timer>>
areaListVars == <<registry, listKey, lists>>

PassIds == 1 .. MaxPasses
ListIds == 1 .. MaxLists
NoPass == [by |-> "none", m |-> "none", key |-> NoKey, h |-> "none", url |-> NoKey]
NoList == [by |-> "none", key |-> NoKey]

MapInit ==
  /\ page \in Pages /\ acts = 0
  /\ camera \in Cameras /\ slug = page /\ window \in Windows
  /\ anyTicked \in BOOLEAN
  /\ opening = "scales" /\ timer = FALSE
  /\ tierKey = NoKey /\ fellBack = FALSE /\ hint = "" /\ sticky = FALSE
  /\ passes = [p \in PassIds |-> NoPass]
  /\ hexUrl = NoKey /\ hexAbort = 0
  /\ registry = [body |-> NoSlug, area |-> NoSlug] /\ listKey = NoKey
  /\ lists = [l \in ListIds |-> NoList]

-----------------------------------------------------------------------------
(* The two calls.  The primed view is the one they read: a handler that    *)
(* moves the camera or adopts a slug does so before it calls refresh.      *)

Tier == TierOf[camera']
Effective == IF Tier = "sensors" /\ slug' = NoSlug THEN "city" ELSE Tier
MarkerKey == <<Effective, slug', window'>>
GridURL == <<camera', window'>>
listKeyFor == <<slug', window'>>
mapHint(back, some) == IF ~some THEN "noSources" ELSE IF back THEN "area" ELSE ""
\* Mutant of ShowHint: an empty text does not clear the banner.
ShowHint_Some(text) == hint' = IF sticky \/ text = "" THEN hint ELSE text
\* A routine hint replaces another; over the sticky error it is not shown.
ShowHint(text) == hint' = IF sticky THEN hint ELSE text

\* A new handler run takes the first free slot.
Free(p) == passes[p] = NoPass /\ \A q \in 1 .. p - 1 : passes[q] # NoPass
Act == acts < MaxActs /\ acts' = acts + 1
\* Both calls are through.  The opening and a deep link go on from there.
Through(pass) == pass.m = "none" /\ pass.h = "none"
Ripe(pass) == pass.by \in {"first", "link"} /\ Through(pass)
Quiet == \A p \in PassIds : ~Ripe(passes[p])
Keep(ps) == [p \in PassIds |-> IF Through(ps[p]) /\ ~Ripe(ps[p]) THEN NoPass ELSE ps[p]]

\* Mutant of HexCall: the request in flight is left running.
HexCall_Beside(ps, p) ==
  IF GridURL = hexUrl
  THEN [passes |-> [ps EXCEPT ![p].h = "none"], abort |-> hexAbort]
  ELSE [passes |-> [ps EXCEPT ![p].h = "asked", ![p].url = GridURL], abort |-> p]
\* refreshHexes up to its await, for pass p of ps: the held body is repainted,
\* or the call in flight is aborted and a new one made.
HexCall(ps, p) ==
  IF GridURL = hexUrl
  THEN [passes |-> [ps EXCEPT ![p].h = "none"], abort |-> hexAbort]
  ELSE [passes |-> [q \in PassIds |->
                      CASE q = p -> [ps[q] EXCEPT !.h = "asked", !.url = GridURL]
                        [] q = hexAbort /\ q # p /\ ps[q].h = "asked" -> [ps[q] EXCEPT !.h = "none"]
                        [] OTHER -> ps[q]],
        abort |-> p]

\* loadAreaSensors up to its await: the claim is made before the request.
AreaList(force) ==
  IF Effective # "sensors" /\ page # NoSlug /\ slug' # NoSlug /\ (force \/ listKeyFor # listKey)
  THEN /\ listKey' = listKeyFor
       /\ \E l \in ListIds : /\ lists[l] = NoList
                             /\ lists' = [lists EXCEPT ![l] = [by |-> "count", key |-> listKeyFor]]
  ELSE UNCHANGED <<listKey, lists>>

\* refresh and, with hexes "now", refreshHexes beside it, up to their awaits.
\* hexes "later" is the handler that awaits refresh before it calls refreshHexes.
Pass(by, force, hexes) ==
  \E p \in PassIds :
    LET ask == [by |-> by, m |-> IF force \/ MarkerKey # tierKey THEN "asked" ELSE "none",
                key |-> MarkerKey, h |-> IF hexes = "later" THEN "later" ELSE "none", url |-> NoKey]
        call == HexCall([passes EXCEPT ![p] = ask], p)
    IN /\ Free(p)
       /\ fellBack' = (Effective # Tier)
       /\ ShowHint(mapHint(fellBack', anyTicked'))
       /\ IF ask.m = "asked" THEN AreaList(force) ELSE UNCHANGED <<listKey, lists>>
       /\ IF hexes = "now"
          THEN passes' = Keep(call.passes) /\ hexAbort' = call.abort
          ELSE passes' = Keep([passes EXCEPT ![p] = ask]) /\ UNCHANGED hexAbort
       /\ UNCHANGED <<tierKey, sticky, hexUrl, registry>>

-----------------------------------------------------------------------------
(* The opening: initData, the placement and the slow lookup after it.      *)

ScalesSettle(ok) ==
  /\ opening = "scales" /\ Quiet
  /\ opening' = "placing"
  /\ sticky' = ~ok /\ hint' = IF ok THEN hint ELSE "unavailable"
  /\ UNCHANGED <<page, acts, camera, slug, window, anyTicked, timer, tierKey, fellBack, passes, hexUrl, hexAbort,
                 areaListVars>>

\* The deep link, the favourite, the saved view or the geoip lookup moved the
\* camera (the last two of the home page only), or nothing did in time.
Place(c, s) ==
  /\ opening = "placing" /\ Quiet
  /\ opening' = "placed" /\ camera' = c /\ timer' = (timer \/ c # camera)
  /\ slug' = IF s = NoSlug THEN slug ELSE s
  /\ UNCHANGED <<page, acts, window, anyTicked>>
  /\ Pass("first", FALSE, "now")

PlaceNowhere ==
  /\ opening = "placing" /\ Quiet
  /\ opening' = "unplaced"
  /\ UNCHANGED <<page, acts, camera, slug, window, anyTicked, timer>>
  /\ Pass("first", FALSE, "now")

\* locateVisitor without the timeout: the late answer moves the map.
LateLocate(c, s) ==
  /\ opening = "locating" /\ Quiet
  /\ opening' = "done" /\ camera' = c /\ slug' = s /\ timer' = TRUE
  /\ UNCHANGED <<page, acts, window, anyTicked>>
  /\ Pass("forced", TRUE, "none")

LateLocateFails ==
  /\ opening = "locating" /\ Quiet
  /\ opening' = "done"
  /\ UNCHANGED <<page, acts, camera, slug, window, anyTicked, timer, tierKey, fellBack, hint, sticky, passes,
                 hexUrl, hexAbort, areaListVars>>

-----------------------------------------------------------------------------
(* The reader.                                                             *)

Move(c) ==
  /\ c # camera /\ Quiet /\ Act
  /\ camera' = c /\ timer' = TRUE
  /\ UNCHANGED <<page, slug, window, anyTicked, opening, tierKey, fellBack, hint, sticky, passes,
                 hexUrl, hexAbort, areaListVars>>

\* onMoveEnd, once the moves have paused for the debounce.
MoveEnd ==
  /\ timer /\ Quiet
  /\ timer' = FALSE
  /\ UNCHANGED <<page, acts, camera, slug, window, anyTicked, opening>>
  /\ Pass("move", FALSE, "now")

\* showArea, the finder's pick: fly there, adopt the slug, force a refresh.
ShowArea(c, s) ==
  /\ Quiet /\ Act
  /\ camera' = c /\ slug' = s /\ timer' = TRUE
  /\ UNCHANGED <<page, window, anyTicked, opening>>
  /\ Pass("forced", TRUE, "none")

\* A click on an area marker, or on a province outline of an unscoped map.
SelectArea(s) ==
  /\ Quiet /\ Act
  /\ slug' = s
  /\ UNCHANGED <<page, camera, window, anyTicked, opening, timer>>
  /\ Pass("click", FALSE, "none")

\* A sensor the map has not loaded, found by a cell click (openDeepLinkedSensor
\* with its answer in hand) or by the locate button (showNearestSensor).
ReachSensor(c, s) ==
  /\ Quiet /\ Act
  /\ camera' = c /\ slug' = s /\ timer' = (timer \/ c # camera)
  /\ UNCHANGED <<page, window, anyTicked, opening>>
  /\ Pass("link", TRUE, "later")

\* The locate button with no answer: the handler has nothing but a hint to show.
LocateFails ==
  /\ Quiet /\ Act
  /\ ShowHint("locate")
  /\ UNCHANGED <<page, camera, slug, window, anyTicked, opening, timer, tierKey, fellBack, sticky, passes,
                 hexUrl, hexAbort, areaListVars>>

\* A pick in the window menu, or the refresh button with the window unchanged.
PickWindow(w) ==
  /\ Quiet /\ Act
  /\ window' = w
  /\ UNCHANGED <<page, camera, slug, anyTicked, opening, timer>>
  /\ Pass("forced", TRUE, "later")

\* onMetricChange: both layers at once, neither awaited.
MetricChange ==
  /\ Quiet /\ Act
  /\ UNCHANGED <<page, camera, slug, window, anyTicked, opening, timer>>
  /\ Pass("forced", TRUE, "now")

\* A source toggle: both layers repainted from the bodies in hand (the grid is
\* asked for if the view has moved) and the hint chosen again; no refresh.
ToggleSources ==
  /\ Quiet /\ Act
  /\ anyTicked' = ~anyTicked
  /\ UNCHANGED <<page, camera, slug, window, opening, timer>>
  /\ ShowHint(mapHint(fellBack, anyTicked'))
  /\ \E p \in PassIds :
       LET call == HexCall([passes EXCEPT ![p] = [NoPass EXCEPT !.by = "click"]], p)
       IN Free(p) /\ passes' = Keep(call.passes) /\ hexAbort' = call.abort
  /\ UNCHANGED <<tierKey, fellBack, sticky, hexUrl, areaListVars>>

-----------------------------------------------------------------------------
(* The answers.                                                            *)

\* The rest of a handler that awaited refresh: refreshHexes for the view of now.
AfterMarkers(ps, p) ==
  LET call == HexCall(ps, p)
  IN IF ps[p].h = "later" THEN passes' = Keep(call.passes) /\ hexAbort' = call.abort
                          ELSE passes' = Keep(ps) /\ UNCHANGED hexAbort

MarkersAnswer(p) ==
  /\ Quiet /\ passes[p].m = "asked"
  /\ UNCHANGED viewVars
  /\ tierKey' = passes[p].key
  /\ IF passes[p].key[1] = "sensors"
     THEN registry' = [body |-> passes[p].key[2], area |-> slug] /\ listKey' = listKeyFor
     ELSE UNCHANGED <<registry, listKey>>
  /\ AfterMarkers([passes EXCEPT ![p].m = "none"], p)
  /\ UNCHANGED <<fellBack, hint, sticky, hexUrl, lists>>

MarkersFail(p) ==
  /\ Quiet /\ passes[p].m = "asked"
  /\ UNCHANGED viewVars
  /\ ShowHint("unavailable")
  /\ AfterMarkers([passes EXCEPT ![p].m = "none"], p)
  /\ UNCHANGED <<tierKey, fellBack, sticky, hexUrl, areaListVars>>

HexAnswer(p) ==
  /\ Quiet /\ passes[p].h = "asked"
  /\ hexUrl' = passes[p].url
  /\ passes' = Keep([passes EXCEPT ![p].h = "none"])
  /\ UNCHANGED <<viewVars, tierKey, fellBack, hint, sticky, hexAbort, areaListVars>>

HexFail(p) ==
  /\ Quiet /\ passes[p].h = "asked"
  /\ passes' = Keep([passes EXCEPT ![p].h = "none"])
  /\ UNCHANGED <<viewVars, tierKey, fellBack, hint, sticky, hexUrl, hexAbort, areaListVars>>

\* A list lands: a count list only while its claim stands, a deep link's always.
ListAnswer(l) ==
  /\ Quiet /\ lists[l] # NoList
  /\ lists' = [lists EXCEPT ![l] = NoList]
  /\ registry' = IF lists[l].by = "count" /\ listKey # lists[l].key THEN registry
                 ELSE [body |-> lists[l].key[1], area |-> lists[l].key[1]]
  /\ UNCHANGED <<viewVars, tierKey, fellBack, hint, sticky, passes, hexUrl, hexAbort, listKey>>

ListFail(l) ==
  /\ Quiet /\ lists[l] # NoList
  /\ lists' = [lists EXCEPT ![l] = NoList]
  /\ listKey' = IF lists[l].by = "count" /\ listKey = lists[l].key THEN NoKey ELSE listKey
  /\ UNCHANGED <<viewVars, tierKey, fellBack, hint, sticky, passes, hexUrl, hexAbort, registry>>

\* Both calls are through: the opening cancels the moveend its own jump queued,
\* a deep link fills the registry the aggregate tiers left without its sensor.
Settle(p) ==
  /\ Ripe(passes[p])
  /\ passes' = [passes EXCEPT ![p] = NoPass]
  /\ IF passes[p].by = "first"
     THEN /\ timer' = FALSE
          /\ opening' = IF opening = "unplaced" /\ page = NoSlug THEN "locating" ELSE "done"
     ELSE UNCHANGED <<timer, opening>>
  /\ IF passes[p].by = "link" /\ registry.body # passes[p].key[2]
     THEN \E l \in ListIds :
            /\ lists[l] = NoList
            /\ lists' = [lists EXCEPT ![l] = [by |-> "link", key |-> <<passes[p].key[2], window>>]]
     ELSE UNCHANGED lists
  /\ UNCHANGED <<page, acts, camera, slug, window, anyTicked, tierKey, fellBack, hint, sticky, hexUrl,
                 hexAbort, registry, listKey>>

MapNext ==
  \/ \E ok \in BOOLEAN : ScalesSettle(ok)
  \/ \E c \in Cameras, s \in Slugs \cup {NoSlug} : Place(c, s)
  \/ PlaceNowhere \/ LateLocateFails \/ LocateFails
  \/ \E c \in Cameras, s \in Slugs : LateLocate(c, s) \/ ShowArea(c, s) \/ ReachSensor(c, s)
  \/ \E c \in Cameras : Move(c)
  \/ \E s \in Slugs : SelectArea(s)
  \/ \E w \in Windows : PickWindow(w)
  \/ MoveEnd \/ MetricChange \/ ToggleSources
  \/ \E p \in PassIds : MarkersAnswer(p) \/ MarkersFail(p) \/ HexAnswer(p) \/ HexFail(p) \/ Settle(p)
  \/ \E l \in ListIds : ListAnswer(l) \/ ListFail(l)

MapSpec == MapInit /\ [][MapNext]_mapVars

-----------------------------------------------------------------------------
(* Properties.                                                             *)

MarkerKeys == {"country", "city", "sensors"} \X (Slugs \cup {NoSlug}) \X Windows
GridURLs == Cameras \X Windows

\* The shape of the island's state: keys are keys, flights are flights.
MapTypeOK ==
  /\ camera \in Cameras /\ slug \in Slugs \cup {NoSlug} /\ window \in Windows
  /\ anyTicked \in BOOLEAN /\ timer \in BOOLEAN /\ fellBack \in BOOLEAN /\ sticky \in BOOLEAN
  /\ opening \in {"scales", "placing", "placed", "unplaced", "locating", "done"}
  /\ hint \in {"", "unavailable", "noSources", "area", "locate"}
  /\ tierKey \in MarkerKeys \cup {NoKey} /\ hexUrl \in GridURLs \cup {NoKey}
  /\ hexAbort \in 0 .. MaxPasses
  /\ passes \in [PassIds -> [by : {"none", "first", "move", "forced", "click", "link"},
                             m : {"none", "asked"}, key : MarkerKeys \cup {NoKey},
                             h : {"none", "later", "asked"},
                             url : GridURLs \cup {NoKey}]]
  /\ registry \in [body : Slugs \cup {NoSlug}, area : Slugs \cup {NoSlug}]

\* The request for a grid the reader has moved away from is aborted before the
\* next one is sent: however the passes of moveend, the window menu, the filters
\* and the metric interleave, one grid request is alive, and state.hexAbort is the
\* controller that ends it.
OneGridFetch == \A p \in PassIds : passes[p].h = "asked" => p = hexAbort

\* From the first refresh on the banner is either an error or the one routine
\* hint that applies now: a map emptied by unticking both networks says so, and
\* no hint outlives its reason, whichever of refresh and the source toggle was
\* the last to run.
HintIsTrue ==
  \/ opening \in {"scales", "placing"}
  \/ hint \in {"unavailable", "locate"}
  \/ ~sticky /\ IF ~anyTicked THEN hint = "noSources" ELSE hint = IF fellBack THEN "area" ELSE ""
=============================================================================
