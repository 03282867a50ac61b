------------------------------- MODULE KitCamera -------------------------------
(***************************************************************************)
(* The camera of the design kit's maps: the one copy of a frame's view and *)
(* its arithmetic (design-kit/ui_kits/app/map-render.js), the three        *)
(* buttons and their limits (map-zoom.js), and the tile camera that takes  *)
(* the buttons over and may be lost again (map-tiles.js).                  *)
(*                                                                         *)
(* One axis, a frame that keeps its shape, and a page that has its data;   *)
(* scales are in thousandths and places in units of the projection.  The   *)
(* drawing is FRAME_W units across whatever the canvas measures, and the   *)
(* handlers take the pointer's CSS pixels for its units.                   *)
(***************************************************************************)
EXTENDS Integers

CONSTANTS KitFrames,    \* the frames tried: "map", "area-map"
          Subjects,     \* the provinces the area page may be about
          FitOf,        \* province -> the scale it is fitted at, in thousandths of the country's
          CentreOf,     \* province -> the middle of its shape
          Unshaped,     \* the province no shape is known of
          ScreenWidth,  \* CSS pixels the drawing is across on screen
          PanPixels,    \* CSS pixels of one pan
          WheelFactors, \* the factors of one turn of the wheel, in thousandths
          PointerAt,    \* where the pointer is tried, in CSS pixels from the middle of the frame
          MaxMoves      \* bound: gestures in a behaviour

FRAME_W == 926

\* map-render.js:139: a province fits at 2.5 to 6.6 times the country.  Within half a
\* frame of pixels of the middle the roundings to thousandths stay under two units.
ASSUME KitCameraAssumption ==
  /\ KitFrames \subseteq {"map", "area-map"} /\ MaxMoves \in Nat
  /\ \A s \in Subjects \ {Unshaped} : FitOf[s] \in 2500 .. 6600 /\ CentreOf[s] \in Int
  /\ ScreenWidth \in Nat \ {0}
  /\ PanPixels \subseteq Int /\ WheelFactors \subseteq Nat \ {0}
  /\ PointerAt \subseteq -(FRAME_W \div 2) .. FRAME_W \div 2
CountryLeft == 14
CountryRight == 912
CMIN == 550
KMAX == 24000
PLUS_LIMIT == 8000                \* map-zoom.js's own
TileZooms == {45, 62, 130, 170}   \* in tenths: the limits, home and a close one

VARIABLES
  frameId, about,       \* the frame, and the province its page is about
  view,                 \* [mode, k, dx, fit, vk]: fit and vk as the last draw left them
  middle,               \* where the last draw put the middle of the window
  drawDue, assetsIn,    \* a draw waits for the assets; they have come
  plusOff, minusOff, backOff,
  tileCamera,           \* "none", "mounted", "loaded", "failed": the buttons find it from "mounted" on
  tileZoom,
  wantKey, fittedKey,   \* the subject of the last draw, and the one the tile camera was fitted to
  moves

paintedVars == <<plusOff, minusOff, backOff>>
fitVars == <<wantKey, fittedKey>>
tileVars == <<tileCamera, tileZoom>>
cameraVars == <<frameId, about, view, middle, drawDue, assetsIn, paintedVars, tileVars, fitVars, moves>>

-----------------------------------------------------------------------------
lesser(a, b) == IF a < b THEN a ELSE b
greater(a, b) == IF a > b THEN a ELSE b
OneStepIn(k) == (k * 3) \div 2
OneStepOut(k) == (k * 2) \div 3

\* The province view may shrink to the country's own scale; fit is 0 before a draw.
\* Mutant of minK: the fit is every view's floor.
minK_AtFit(v) == 1000
minK(v) == IF v.mode = "province" /\ v.fit # 0 THEN lesser(CMIN, 1000000 \div v.fit) ELSE CMIN
clampK(z, v) == lesser(KMAX, greater(minK(v), z))
Framed(v, mode) == [v EXCEPT !.mode = mode, !.k = 1000, !.dx = 0]

\* AIRBG_MAP_VIEW: the one way in for every control.
MapView(v, action) ==
  CASE action = "in" -> [v EXCEPT !.k = clampK(OneStepIn(v.k), v)]
    [] action = "out" -> IF v.mode = "province" /\ OneStepOut(v.k) <= minK(v)
                         THEN Framed(v, "country")
                         ELSE [v EXCEPT !.k = clampK(OneStepOut(v.k), v)]
    [] OTHER -> Framed(v, action)
\* AIRBG_MAP_PAN and AIRBG_MAP_ZOOM_AT, through the scale the last draw used; the width
\* of the canvas is not asked for.
Pan(v, px) == [v EXCEPT !.dx = @ - (px * 1000) \div v.vk]
ZoomAt(v, factor, sx) ==
  LET k == clampK((v.k * factor) \div 1000, v)
  IN [v EXCEPT !.k = k, !.dx = @ + (((sx * 1000) \div v.vk) * (k - v.k)) \div k]

\* The draw: framing, the reader's zoom and pan, and the pan's clamp, written back.
half(vk) == (FRAME_W * 500) \div vk
Base(v, s) == IF v.mode = "province" THEN CentreOf[s] ELSE FRAME_W \div 2
\* Mutant of KitDrawn: the clamp is not written back.
KitDrawn_Drifts(v, s) ==
  LET u == IF s = Unshaped THEN [v EXCEPT !.mode = "country"] ELSE v
      fit == IF u.mode = "province" THEN FitOf[s] ELSE 1000
  IN [u EXCEPT !.fit = fit, !.vk = (fit * u.k) \div 1000]
KitDrawn(v, s) ==
  LET u == IF s = Unshaped THEN [v EXCEPT !.mode = "country"] ELSE v
      fit == IF u.mode = "province" THEN FitOf[s] ELSE 1000
      vk == (fit * u.k) \div 1000
      want == Base(u, s) + u.dx
      got == lesser(CountryRight + half(vk), greater(CountryLeft - half(vk), want))
  IN [u EXCEPT !.fit = fit, !.vk = vk, !.dx = @ + got - want]

\* map-zoom.js's paint: the limits of the camera the buttons drive.
paintButtons(v, tile, z) ==
  /\ plusOff' = IF tile = "none" THEN v.k >= PLUS_LIMIT ELSE z >= 170
  /\ minusOff' = IF tile = "none" THEN v.k <= minK(v) ELSE z <= 45
  /\ backOff' = (tile = "none" /\ ~(v.k > 1000 \/ (frameId = "area-map" /\ v.mode = "province")))

KitCameraInit ==
  /\ frameId \in KitFrames /\ about \in Subjects
  /\ view = [mode |-> IF frameId = "area-map" THEN "province" ELSE "country",
             k |-> 1000, dx |-> 0, fit |-> 0, vk |-> 1000]
  /\ middle = FRAME_W \div 2 /\ drawDue = TRUE /\ assetsIn = FALSE
  /\ plusOff = FALSE /\ minusOff = FALSE /\ backOff = (frameId = "map")
  /\ tileCamera = "none" /\ tileZoom = 62 /\ wantKey = "country" /\ fittedKey = ""
  /\ moves = 0

MayMove == moves < MaxMoves /\ moves' = moves + 1 /\ (drawDue => ~assetsIn)
\* repaint: the buttons hear of it at once, the draw when the assets are there.
Repaints(v) ==
  /\ MayMove
  /\ view' = v /\ drawDue' = TRUE
  /\ paintButtons(v, tileCamera, tileZoom)
  /\ UNCHANGED <<frameId, about, middle, assetsIn, tileVars, fitVars>>

Draw ==
  /\ drawDue /\ drawDue' = FALSE /\ assetsIn' = TRUE
  /\ view' = KitDrawn(view, about)
  /\ middle' = Base(view', about) + view'.dx
  /\ wantKey' = IF view'.mode = "province" THEN about ELSE "country"
  /\ UNCHANGED <<frameId, about, paintedVars, tileVars, fittedKey, moves>>
PressButton ==
  /\ tileCamera = "none"
  /\ \E a \in {"in", "out", "country"} :
       /\ ~(CASE a = "in" -> plusOff [] a = "out" -> minusOff [] OTHER -> backOff)
       /\ Repaints(MapView(view, a))
\* The keyboard; "province" is also what a place picked in the finder asks for.
PressKey ==
  \E a \in {"in", "out", IF frameId = "area-map" THEN "province" ELSE "country"} :
    Repaints(MapView(view, a))
PanMap == \E px \in PanPixels : Repaints(Pan(view, px))
WheelMap == \E f \in WheelFactors, sx \in PointerAt : Repaints(ZoomAt(view, f, sx))

\* airbg:oblastchange: the new subject's own framing.  The buttons do not hear of it,
\* and the tile camera is fitted before a draw that still waits for its assets.
fitSubject ==
  /\ fittedKey' = wantKey
  /\ tileZoom' \in IF wantKey \in {fittedKey, "country"} THEN {tileZoom} ELSE {62, 130}
SubjectChanges ==
  /\ frameId = "area-map" /\ MayMove
  /\ \E s \in Subjects \ {about} : about' = s
  /\ view' = IF assetsIn THEN KitDrawn(Framed(view, "province"), about') ELSE Framed(view, "province")
  /\ drawDue' = ~assetsIn
  /\ middle' = IF assetsIn THEN Base(view', about') + view'.dx ELSE middle
  /\ wantKey' = IF ~assetsIn THEN wantKey ELSE IF view'.mode = "province" THEN about' ELSE "country"
  /\ IF tileCamera \in {"none", "failed"} THEN UNCHANGED <<fittedKey, tileZoom, paintedVars>>
     ELSE /\ fittedKey' = wantKey'
          /\ tileZoom' \in IF wantKey' \in {fittedKey, "country"} THEN {tileZoom} ELSE {62, 130}
          /\ IF tileCamera = "loaded" /\ tileZoom' # tileZoom
             THEN paintButtons(view', tileCamera, tileZoom')
             ELSE UNCHANGED paintedVars
  /\ UNCHANGED <<frameId, assetsIn, tileCamera>>

\* mount, load, a tile error; __airbgTileMap is never taken back.
TilesMount ==
  /\ tileCamera = "none" /\ tileCamera' = "mounted"
  /\ UNCHANGED <<frameId, about, view, middle, drawDue, assetsIn, paintedVars, tileZoom, fitVars, moves>>
TilesLoad ==
  /\ tileCamera = "mounted" /\ tileCamera' = "loaded"
  /\ fitSubject
  /\ paintButtons(view, "loaded", tileZoom')
  /\ drawDue' = TRUE
  /\ UNCHANGED <<frameId, about, view, middle, assetsIn, wantKey, moves>>
TilesFail ==
  /\ tileCamera \in {"mounted", "loaded"} /\ tileCamera' = "failed"
  /\ paintButtons(view, "failed", tileZoom)
  /\ drawDue' = TRUE
  /\ UNCHANGED <<frameId, about, view, middle, assetsIn, tileZoom, fitVars, moves>>
\* The tile camera moves, by its own gestures or by the buttons, and settles.
TilesZoom ==
  /\ tileCamera = "loaded" /\ MayMove
  /\ tileZoom' \in TileZooms /\ paintButtons(view, tileCamera, tileZoom')
  /\ UNCHANGED <<frameId, about, view, middle, drawDue, assetsIn, tileCamera, fitVars>>

KitCameraNext ==
  \/ Draw \/ PressButton \/ PressKey \/ PanMap \/ WheelMap \/ SubjectChanges
  \/ TilesMount \/ TilesLoad \/ TilesFail \/ TilesZoom
KitCameraSpec == KitCameraInit /\ [][KitCameraNext]_cameraVars

-----------------------------------------------------------------------------
\* What is drawn so many units from the middle, and under a pointer so many pixels from it.
PlaceAt(v, units) == Base(v, about) + v.dx + (units * 1000) \div v.vk
UnitsOf(pixels) == (pixels * FRAME_W) \div ScreenWidth
PlaceUnder(v, pixels) == PlaceAt(v, UnitsOf(pixels))
Near(a, b, tolerance) == a - b \in -tolerance .. tolerance
atEdge(v) == Base(v, about) + v.dx \in {CountryLeft - half(v.vk), CountryRight + half(v.vk)}

\* map-render.js:138-149, :196-197, :207-225, :704-715, map-zoom.js:110-138: with the map
\* drawn, some of the country is in the window and the view holds what was drawn; one
\* press of minus never enlarges and never takes more than a step; at every scale and
\* in every framing a pan by so many pixels moves the map by as many units of the
\* drawing, and a zoom leaves the place so many units from the middle where it was,
\* unless the clamp stops them (the pointer's place only if a unit is a pixel, see
\* PanFollowsPointer); and a button that is not disabled moves the camera it drives.
CameraKeepsPlace ==
  /\ ~drawDue =>
       LET out == KitDrawn(MapView(view, "out"), about)
       IN /\ middle = Base(view, about) + view.dx
          /\ middle + half(view.vk) >= CountryLeft /\ middle - half(view.vk) <= CountryRight
          /\ out.vk <= view.vk + 10 /\ 3 * out.vk >= 2 * view.vk - 30
          /\ \A px \in PanPixels :
               LET to == KitDrawn(Pan(view, px), about) IN
               atEdge(to) \/ Near(PlaceAt(to, px), PlaceAt(view, 0), 2)
          /\ \A f \in WheelFactors, sx \in PointerAt :
               LET to == KitDrawn(ZoomAt(view, f, sx), about) IN
               atEdge(to) \/ Near(PlaceAt(to, sx), PlaceAt(view, sx), 2 + 1000 \div f)
  /\ tileCamera = "none" =>
       /\ ~plusOff => MapView(view, "in").k > view.k
       /\ ~minusOff => MapView(view, "out") # view
  /\ tileCamera = "loaded" => (~plusOff => tileZoom < 170) /\ (~minusOff => tileZoom > 45) /\ ~backOff

\* map-render.js:204-206 "a drag moves the map exactly as far as the pointer moved, at any
\* zoom": the place a drag takes hold of stays under the pointer, unless the clamp stops it.
PanFollowsPointer ==
  ~drawDue => \A px \in PanPixels :
     LET to == KitDrawn(Pan(view, px), about) IN
     atEdge(to) \/ Near(PlaceUnder(to, px), PlaceUnder(view, 0), 2)

=============================================================================
