----------------------------- MODULE PageProofs ------------------------------
(***************************************************************************)
(* Proofs about parts of the page: its start (Boot), its furniture         *)
(* (Chrome), the map's overlays (Overlays), the sensor card (Sheets), the  *)
(* replay (Replay), the province table and the finder (Lists); and of the  *)
(* design kit's page: the table of provinces (OblastTable) and the camera  *)
(* of its maps (KitCamera).                                                *)
(* The parts share no variable here: each theorem is about one of them.    *)
(***************************************************************************)
EXTENDS Boot, Chrome, Overlays, Sheets, Replay, Lists, OblastTable, KitCamera, Counting,
        SequenceTheorems, FiniteSetTheorems, TLAPS

-----------------------------------------------------------------------------
(***************************************************************************)
(* The islands are mounted once and only when they may be, for any page    *)
(* and any islands, whatever fails and however often the tab turns.        *)
(*                                                                         *)
(* The wait has four stages and never goes back: Stage says what is armed  *)
(* in each, so that the observer and the timer are armed only while the    *)
(* wait is open and the first of the two to fire finds it so.              *)
(***************************************************************************)
\* What is armed, and what has been found out, at each stage of the wait.
Stage ==
  /\ wait \in {"frames", "paint", "task", "over"}
  /\ framesDue \in Nat /\ (framesDue > 0 <=> wait = "frames")
  /\ (observing \/ fallbackSet) => wait = "paint"
  /\ wait \in {"frames", "paint"} => ~doneWaiting
  /\ wait \in {"task", "over"} => paintKnown \/ waitUp \/ ~reportsPaint
  /\ mountRuns = IF wait = "over" THEN 1 ELSE 0

\* An island leaves the server's HTML by the mount only, and fails by itself only.
IslandsOwn ==
  /\ island \in [PageIslands -> {"served", "loading", "mounted", "failed"}]
  /\ \A i \in PageIslands : island[i] # "served" => wait = "over" /\ i \in KnownIslands
  /\ \A i \in PageIslands : island[i] = "failed" => i \in broken

OneMenu == \E m : menusOpen \subseteq {m}

BootInv == Stage /\ IslandsOwn /\ OneMenu

LEMMA BootInitInv == BootInit => BootInv
  BY DEF BootInit, BootInv, Stage, IslandsOwn, OneMenu

\* A set within a singleton has at most one member.
LEMMA AtMostOne ==
  ASSUME NEW S, NEW m, S \subseteq {m}
  PROVE  Cardinality(S) <= 1
  <1>1. S = {} \/ S = {m}  OBVIOUS
  <1>2. Cardinality({}) = 0 /\ Cardinality({m}) = 1
    BY FS_EmptySet, FS_Singleton
  <1> QED  BY <1>1, <1>2

\* mountIslands, run once at the end of the wait.
LEMMA MountKeeps ==
  ASSUME IslandsOwn, mountIslands, wait' = "over", UNCHANGED broken,
         \A i \in PageIslands : island[i] = "served"
  PROVE  IslandsOwn'
  BY DEF IslandsOwn, mountIslands

LEMMA BootNextInv == BootInv /\ [BootNext]_bootVars => BootInv'
  <1> SUFFICES ASSUME BootInv, [BootNext]_bootVars PROVE BootInv'  OBVIOUS
  <1>a. Stage /\ IslandsOwn /\ OneMenu  BY DEF BootInv
  <1>b. wait # "over" => \A i \in PageIslands : island[i] = "served"
    BY <1>a DEF IslandsOwn
  <1>1. CASE UNCHANGED bootVars
    BY <1>1, <1>a DEF BootInv, bootVars, waitVars, Stage, IslandsOwn, OneMenu
  <1>2. CASE BootFrame
    <2>1. framesDue > 0 /\ wait = "frames" /\ ~observing /\ ~fallbackSet
      BY <1>2, <1>a DEF BootFrame, Stage
    <2>2. CASE framesDue # 1
      BY <2>1, <2>2, <1>2, <1>a
      DEF BootFrame, BootInv, Stage, IslandsOwn, OneMenu
    <2>3. CASE framesDue = 1
      <3>1. framesDue' = 0 /\ whenFirstPaintReported
        BY <2>3, <1>2 DEF BootFrame
      <3>2. IslandsOwn'
        <4>1. CASE wait' = "over"
          BY <4>1, <3>1, <2>1, <1>a, <1>b, <1>2, MountKeeps
          DEF whenFirstPaintReported, BootFrame
        <4>2. CASE wait' # "over"
          BY <4>2, <3>1, <2>1, <1>a, <1>2
          DEF whenFirstPaintReported, BootFrame, IslandsOwn
        <4> QED  BY <4>1, <4>2
      <3>3. Stage'
        BY <3>1, <2>1, <1>2, <1>a
        DEF BootFrame, whenFirstPaintReported, mountIslands, Stage
      <3> QED  BY <3>2, <3>3, <1>2, <1>a DEF BootInv, BootFrame, OneMenu
    <2> QED  BY <2>2, <2>3
  <1>3. CASE FirstPaint
    BY <1>3, <1>a DEF FirstPaint, BootInv, Stage, IslandsOwn, OneMenu
  <1>4. CASE Observed \/ FallbackFires
    BY <1>4, <1>a
    DEF Observed, FallbackFires, endWait, BootInv, Stage, IslandsOwn, OneMenu
  <1>5. CASE MountTask
    <2>1. IslandsOwn'
      BY <1>5, <1>a, <1>b, MountKeeps DEF MountTask
    <2>2. Stage'
      BY <1>5, <1>a DEF MountTask, mountIslands, Stage
    <2> QED  BY <2>1, <2>2, <1>5, <1>a DEF BootInv, MountTask, OneMenu
  <1>6. CASE ChunkSettles
    <2>1. IslandsOwn'
      BY <1>6, <1>a DEF ChunkSettles, runIsland, waitVars, IslandsOwn
    <2> QED
      BY <2>1, <1>6, <1>a DEF ChunkSettles, waitVars, BootInv, Stage, OneMenu
  <1>7. CASE ClickMenu \/ CloseMenus
    <2>1. OneMenu'
      BY <1>7 DEF ClickMenu, CloseMenus, soleOpen, OneMenu
    <2> QED
      BY <2>1, <1>7, <1>a
      DEF ClickMenu, CloseMenus, waitVars, BootInv, Stage, IslandsOwn
  <1>8. CASE TabTurns
    BY <1>8, <1>a DEF TabTurns, waitVars, BootInv, Stage, IslandsOwn, OneMenu
  <1> QED
    BY <1>1, <1>2, <1>3, <1>4, <1>5, <1>6, <1>7, <1>8 DEF BootNext

\* main.js: the islands are mounted once, after the paint was reported or could not
\* be waited for any longer; each fails alone; no two menus are open.
THEOREM AlwaysBootsOnce == BootSpec => []BootsOnce
  <1>1. BootInv => BootsOnce
    <2> SUFFICES ASSUME BootInv PROVE BootsOnce  OBVIOUS
    <2>1. Cardinality(menusOpen) <= 1  BY AtMostOne DEF BootInv, OneMenu
    <2> QED  BY <2>1 DEF BootInv, Stage, IslandsOwn, BootsOnce
  <1> QED  BY BootInitInv, BootNextInv, <1>1, PTL DEF BootSpec

-----------------------------------------------------------------------------
(***************************************************************************)
(* The fold of the colour key that is stored is one the reader made, for   *)
(* any maps behind the refresh button and however long the visit.          *)
(*                                                                         *)
(* The event that stores is one for several writes, so what matters is the *)
(* last of them: if the key is not in the state the page marked, the last  *)
(* write was the reader's (UnmarkedIsReaders).                             *)
(***************************************************************************)
\* A key in a state the page did not mark is as the reader left it.
UnmarkedIsReaders ==
  legend.queued /\ legend.auto # autoTarget(legend.open) => readerFold = legend.open

KeyType == [open : BOOLEAN, queued : BOOLEAN, auto : {"none", "open", "shut"}]
ChromeInv == legend \in KeyType /\ UnmarkedIsReaders

LEMMA ChromeInitInv == ChromeInit => ChromeInv
  BY DEF ChromeInit, ChromeInv, KeyType, UnmarkedIsReaders

\* A write by the page keeps the invariant, whether it changes the key or not.
LEMMA PageWrites ==
  ASSUME ChromeInv, NEW open \in BOOLEAN,
         legend' \in {legend, SetLegendOpen(open)}, UNCHANGED readerFold
  PROVE  ChromeInv'
  <1>a. legend \in KeyType /\ legend.open \in BOOLEAN  BY DEF ChromeInv, KeyType
  <1>1. CASE legend' = legend
    BY <1>1 DEF ChromeInv, UnmarkedIsReaders, KeyType
  <1>2. CASE legend' = [open |-> open, queued |-> TRUE, auto |-> autoTarget(open)]
    BY <1>2 DEF ChromeInv, UnmarkedIsReaders, KeyType, autoTarget
  <1> QED  BY <1>a, <1>1, <1>2 DEF SetLegendOpen

\* A step leaves the key to the page or the reader, and stores only in OnToggle.
LEMMA ChromeNextInv ==
  ChromeInv /\ [ChromeNext]_chromeVars
    => ChromeInv' /\ (keptFold' # keptFold => keptFold' = readerFold)
  <1> SUFFICES ASSUME ChromeInv, [ChromeNext]_chromeVars
               PROVE  ChromeInv' /\ (keptFold' # keptFold => keptFold' = readerFold)
    OBVIOUS
  <1>a. legend \in KeyType /\ legend.open \in BOOLEAN /\ UnmarkedIsReaders
    BY DEF ChromeInv, KeyType
  <1>b. KeyLeft \in {legend, SetLegendOpen(TRUE)}  BY DEF KeyLeft
  <1>1. CASE UNCHANGED <<legend, readerFold, keptFold>>
    BY <1>1, PageWrites
  <1>2. ASSUME NEW open \in BOOLEAN, ReaderFolds(open)
        PROVE  ChromeInv' /\ keptFold' = keptFold
    <2>1. /\ legend' = [legend EXCEPT !.open = open, !.queued = TRUE]
          /\ readerFold' = open /\ keptFold' = keptFold
      BY <1>2 DEF ReaderFolds
    <2>2. legend' \in KeyType /\ legend'.open = open  BY <2>1, <1>a DEF KeyType
    <2> QED  BY <2>1, <2>2 DEF ChromeInv, UnmarkedIsReaders, KeyType
  <1>3. CASE ReaderTaps
    <2>1. KeyLeft \in KeyType /\ KeyLeft.open \in BOOLEAN
      BY <1>a DEF KeyLeft, SetLegendOpen, KeyType, autoTarget
    <2>2. /\ legend' = [KeyLeft EXCEPT !.open = ~@, !.queued = TRUE]
          /\ readerFold' = ~KeyLeft.open /\ keptFold' = keptFold
      BY <1>3 DEF ReaderTaps
    <2>3. legend' \in KeyType /\ legend'.open = ~KeyLeft.open
      BY <2>1, <2>2 DEF KeyType
    <2> QED  BY <2>2, <2>3 DEF ChromeInv, UnmarkedIsReaders, KeyType
  <1>4. CASE OnToggle
    <2>1. legend' = [legend EXCEPT !.queued = FALSE, !.auto = "none"]
          /\ legend.queued /\ readerFold' = readerFold
      BY <1>4 DEF OnToggle
    <2>2. legend' \in KeyType /\ legend'.queued = FALSE  BY <2>1, <1>a DEF KeyType
    <2>3. ChromeInv'  BY <2>2 DEF ChromeInv, UnmarkedIsReaders, KeyType
    <2>4. CASE legend.auto = autoTarget(legend.open)
      BY <2>3, <2>4, <1>4 DEF OnToggle
    <2>5. CASE legend.auto # autoTarget(legend.open)
      BY <2>1, <2>3, <2>5, <1>4, <1>a DEF OnToggle, UnmarkedIsReaders
    <2> QED  BY <2>4, <2>5
  <1>5. CASE OpenList \/ CloseList \/ CloseLegend \/ MapClick \/ \E p \in Pops : Press(p)
    <2>1. /\ legend' \in {legend, SetLegendOpen(TRUE), SetLegendOpen(FALSE)}
          /\ UNCHANGED <<readerFold, keptFold>>
      BY <1>5, <1>b DEF OpenList, CloseList, CloseLegend, MapClick, Press
    <2> QED  BY <2>1, PageWrites
  <1>6. ASSUME \/ PickWindowOption \/ AskRefresh \/ Interval \/ RequestDone \/ SetAuto
               \/ \E seen \in BOOLEAN : ShowWind(seen) \/ Escape(seen)
               \/ \E v \in Viewports : Rotate(v)
               \/ \E p \in Providers : ProviderDone(p) \/ ProviderRejects(p)
        PROVE  UNCHANGED <<legend, readerFold, keptFold>>
    BY <1>6
    DEF PickWindowOption, AskRefresh, Interval, RequestDone, SetAuto, ShowWind, Escape,
        Rotate, ProviderDone, ProviderRejects, legendVars
  <1>7. CASE UNCHANGED chromeVars  BY <1>7, <1>1 DEF chromeVars
  <1> QED
    BY <1>1, <1>2, <1>3, <1>4, <1>5, <1>6, <1>7 DEF ChromeNext

\* The autoTarget guard of chrome.js: the page's own folds, and the toggle event they
\* share with the reader's, never store a fold nobody chose.
THEOREM FoldAlwaysReaders == ChromeSpec => FoldIsReaders
  <1>1. ChromeInv /\ [ChromeNext]_chromeVars
        => [keptFold' # keptFold => keptFold' = readerFold]_chromeVars
    BY ChromeNextInv
  <1>2. ChromeInv /\ [ChromeNext]_chromeVars => ChromeInv'  BY ChromeNextInv
  <1> QED
    BY ChromeInitInv, <1>1, <1>2, PTL DEF ChromeSpec, FoldIsReaders

-----------------------------------------------------------------------------
(***************************************************************************)
(* One wind animation at most asks for frames, and only where it is seen,  *)
(* for any number of clicks, calls in flight and animations.               *)
(*                                                                         *)
(* OneAnimation is inductive once animations are numbered from 1: a new    *)
(* one has a number of its own, and the frames of the old one went with    *)
(* StopStreaks before the new one asked for its first.                     *)
(***************************************************************************)
OverlaysInv ==
  /\ OneAnimation
  /\ started \in Nat /\ pageHidden \in BOOLEAN
  /\ trails \in BOOLEAN /\ moving \in BOOLEAN

\* Nothing is left of the animation that ran.
LEMMA StopsAll ==
  ASSUME OneAnimation
  PROVE  StopStreaks = {}
  BY DEF OneAnimation, StopStreaks

LEMMA OverlaysInitInv == OverlaysInit => OverlaysInv
  <1> SUFFICES ASSUME OverlaysInit PROVE OverlaysInv  OBVIOUS
  <1>1. /\ streaks = 0 /\ started = 0 /\ frames = {} /\ moving = FALSE
        /\ trails = FALSE /\ pageHidden = FALSE
    BY DEF OverlaysInit
  <1> QED  BY <1>1 DEF OverlaysInv, OneAnimation

\* A step that leaves the animation, the page and the wind layer alone.
LEMMA OverlaysElsewhere ==
  ASSUME OverlaysInv, UNCHANGED <<streakVars, pageHidden>>, "wind" \in on => "wind" \in on'
  PROVE  OverlaysInv'
  BY DEF OverlaysInv, OneAnimation, streakVars

LEMMA OverlaysNextInv == OverlaysInv /\ [OverlaysNext]_overlayVars => OverlaysInv'
  <1> SUFFICES ASSUME OverlaysInv, [OverlaysNext]_overlayVars PROVE OverlaysInv'
    OBVIOUS
  <1>a. OneAnimation /\ StopStreaks = {}  BY StopsAll DEF OverlaysInv
  <1>1. CASE UNCHANGED overlayVars
    BY <1>1, OverlaysElsewhere DEF overlayVars, streakVars
  <1>2. ASSUME NEW k \in CallIds, Shows(k) PROVE OverlaysInv'
    <2>1. CASE reduced
      BY <2>1, <1>2, OverlaysElsewhere DEF Shows
    <2>2. CASE ~reduced
      <3>1. /\ started' = started + 1 /\ streaks' = started + 1 /\ "wind" \in on'
            /\ frames' = IF pageHidden THEN {} ELSE {started + 1}
            /\ moving' = FALSE /\ trails' = FALSE /\ pageHidden' = pageHidden
        BY <2>2, <1>2, <1>a DEF Shows, StartStreaks, runFrames
      <3>2. started \in Nat /\ started + 1 # 0 /\ started + 1 \in Nat /\ pageHidden \in BOOLEAN
        BY DEF OverlaysInv
      <3>3. OneAnimation'
        <4>1. frames' \subseteq {streaks'} \ {0}  BY <3>1, <3>2
        <4>2. pageHidden' => frames' = {}  BY <3>1
        <4> QED  BY <3>1, <4>1, <4>2 DEF OneAnimation
      <3> QED  BY <3>1, <3>2, <3>3 DEF OverlaysInv
    <2> QED  BY <2>1, <2>2
  <1>3. ASSUME NEW o \in Fetched, TurnOn(o) PROVE OverlaysInv'
    BY <1>3, OverlaysElsewhere DEF TurnOn
  <1>4. ASSUME NEW o \in Fetched, TurnOff(o) PROVE OverlaysInv'
    <2>1. CASE o = "wind"
      BY <2>1, <1>4, <1>a DEF TurnOff, StreaksOff, OverlaysInv, OneAnimation
    <2>2. CASE o # "wind"
      BY <2>2, <1>4, OverlaysElsewhere DEF TurnOff
    <2> QED  BY <2>1, <2>2
  <1>5. ASSUME NEW k \in CallIds, Lands(k) \/ FetchFails(k) PROVE OverlaysInv'
    BY <1>5, OverlaysElsewhere DEF Lands, FetchFails
  <1>6. CASE HourPasses \/ refreshWind
    BY <1>6, OverlaysElsewhere DEF HourPasses, refreshWind
  <1>7. CASE Frame \/ MoveStart \/ MoveStop
    <2>1. /\ UNCHANGED <<on, streaks, started, frames, pageHidden>>
          /\ moving' \in BOOLEAN /\ trails' \in BOOLEAN /\ (moving' => ~trails')
      <3>1. CASE Frame
        BY <3>1 DEF Frame, OverlaysInv
      <3>2. CASE MoveStart \/ MoveStop
        BY <3>2 DEF MoveStart, MoveStop
      <3> QED  BY <3>1, <3>2, <1>7
    <2> QED  BY <2>1 DEF OverlaysInv, OneAnimation
  <1>8. CASE PageVisibility
    BY <1>8 DEF PageVisibility, OverlaysInv, OneAnimation
  <1>9. CASE ToggleBasemap \/ DetailLands
    BY <1>9, OverlaysElsewhere DEF ToggleBasemap, DetailLands
  <1> QED
    BY <1>1, <1>2, <1>3, <1>4, <1>5, <1>6, <1>7, <1>8, <1>9 DEF OverlaysNext

\* windstreaks.js and mapwind.js: clicks, refreshes, imports and the page's visibility
\* leave one loop at most, none behind a layer that is off or a page that is hidden.
THEOREM AlwaysOneAnimation == OverlaysSpec => []OneAnimation
  <1>1. OverlaysInv => OneAnimation  BY DEF OverlaysInv
  <1> QED  BY OverlaysInitInv, OverlaysNextInv, <1>1, PTL DEF OverlaysSpec

-----------------------------------------------------------------------------
(***************************************************************************)
(* The gauges and the star are in the one home the reader can see, for any *)
(* sensors and however many sections, requests, rotations and refusals.    *)
(*                                                                         *)
(* Where the gauges are depends on what the screen was when the homes were *)
(* last told: the invariant adds that they are told of every change, so    *)
(* `told` is the screen as it is.  A move then only looks at one home at a *)
(* time: the one that gives up goes first, and what it held is 0 by the    *)
(* time the other one looks.                                               *)
(***************************************************************************)
\* Where the gauges of section p belong on a screen and a width.
Belongs(full, w, p) ==
  [h \in Homes |-> IF h = "sheet" THEN (IF full THEN p ELSE 0)
                   ELSE IF ~full /\ w /\ ~embed THEN p ELSE 0]

Types ==
  /\ wide \in BOOLEAN /\ embed \in BOOLEAN /\ native \in BOOLEAN /\ faux \in BOOLEAN
  /\ panel \in Nat /\ rendered \in Nat /\ known \subseteq Sensors

SheetsInv ==
  /\ Types
  /\ told = isFull(native, faux)
  /\ homes = Belongs(told, wide, panel)
  /\ padded = Covers(homes, folded)
  /\ panel # 0 <=> openId \in known

\* A change of the screen takes the gauges where they belong: the home that gives
\* up goes first (onChange of mapcontrols.js, panel.js).
LEMMA OnChangePlaces ==
  ASSUME homes = Belongs(told, wide, panel), told \in BOOLEAN, NEW full \in BOOLEAN
  PROVE  OnChange(full) = Belongs(full, wide, panel)
  BY DEF OnChange, SyncDock, SyncSheet, Sync, Belongs, Homes

\* The follow effects take the gauges of a section, new or not, where they belong.
LEMMA FollowPlaces ==
  ASSUME homes = Belongs(told, wide, panel), told \in BOOLEAN, NEW p
  PROVE  Follow(p) = Belongs(told, wide, p)
  BY DEF Follow, SyncDock, SyncSheet, Sync, Belongs, Homes

\* A rotation moves them in or out of the dock.
LEMMA ResizePlaces ==
  ASSUME homes = Belongs(told, wide, panel), told \in BOOLEAN, NEW w \in BOOLEAN
  PROVE  SyncDock(homes, told, w, panel) = Belongs(told, w, panel)
  BY DEF SyncDock, Sync, Belongs, Homes

LEMMA SheetsInitInv == SheetsInit => SheetsInv
  <1> SUFFICES ASSUME SheetsInit PROVE SheetsInv  OBVIOUS
  <1>1. homes = Belongs(told, wide, panel) /\ padded = Covers(homes, folded)
    BY DEF SheetsInit, Belongs, Homes, Covers
  <1> QED  BY <1>1 DEF SheetsInit, SheetsInv, Types, isFull

\* paint() after the screen has become what it is.
LEMMA PaintKeeps ==
  ASSUME SheetsInv, Paint(isFull(native', faux')),
         native' \in BOOLEAN, faux' \in BOOLEAN,
         UNCHANGED <<wide, embed, cardVars, folded>>
  PROVE  SheetsInv'
  <1>1. told \in BOOLEAN /\ isFull(native', faux') \in BOOLEAN
    BY DEF SheetsInv, Types, isFull
  <1>2. homes' = Belongs(isFull(native', faux'), wide, panel)
    BY <1>1, OnChangePlaces DEF SheetsInv, Paint
  <1>3. (homes = Belongs(told, wide, panel))'
    BY <1>2 DEF Paint, Belongs, cardVars
  <1> QED  BY <1>3 DEF SheetsInv, Types, Paint, cardVars, isFull, Covers

\* The panel renders, the effects follow: whatever was opened, closed or learnt.
LEMMA CardKeeps ==
  ASSUME SheetsInv, NEW id, NEW ids \in SUBSET Sensors, Card(id, ids),
         UNCHANGED <<wide, embed, screenVars, folded>>
  PROVE  SheetsInv'
  <1>1. told \in BOOLEAN  BY DEF SheetsInv, Types, isFull
  <1>2. homes' = Belongs(told, wide, panel')
    BY <1>1, FollowPlaces DEF SheetsInv, Card
  <1>3. (homes = Belongs(told, wide, panel))'  BY <1>2 DEF Belongs, screenVars
  <1>4. panel' \in Nat /\ rendered' \in Nat /\ (panel' # 0 <=> id \in ids)
    BY DEF SheetsInv, Types, Card, Shown
  <1> QED
    BY <1>3, <1>4 DEF SheetsInv, Types, Card, screenVars, isFull, Covers

LEMMA SheetsNextInv == SheetsInv /\ [SheetsNext]_sheetVars => SheetsInv'
  <1> SUFFICES ASSUME SheetsInv, [SheetsNext]_sheetVars PROVE SheetsInv'  OBVIOUS
  <1>a. native \in BOOLEAN /\ faux \in BOOLEAN /\ told = isFull(native, faux)
        /\ known \in SUBSET Sensors
    BY DEF SheetsInv, Types
  <1>1. CASE UNCHANGED sheetVars
    BY <1>1
    DEF sheetVars, SheetsInv, Types, isFull, Belongs, Covers
  <1>2. CASE Screen
    <2>1. CASE Paint(isFull(native', faux')) /\ native' \in BOOLEAN /\ faux' \in BOOLEAN
      BY <2>1, <1>2, PaintKeeps DEF Screen
    <2>2. CASE UNCHANGED <<native, faux, told, homes, padded>>
      BY <2>2, <1>2 DEF Screen, SheetsInv, Types, isFull, Belongs, Covers, cardVars
    <2> QED
      BY <2>1, <2>2, <1>2, <1>a
      DEF Screen, PressFull, PressFauxOnly, Granted, Refused, NativeGone, isFull
  <1>3. CASE SensorCardMoves
    BY <1>3, <1>a, CardKeeps DEF SensorCardMoves, Opens, CloseCard, RegistryLands
  <1>4. CASE EscapeCard  BY <1>4, <1>a, CardKeeps DEF EscapeCard
  <1>5. CASE EscapeFaux
    BY <1>5, <1>a, PaintKeeps DEF EscapeFaux, isFull
  <1>6. CASE SheetHistory
    <2>1. told \in BOOLEAN  BY <1>a DEF isFull
    <2>2. homes' = Belongs(native, wide, panel)
      BY <2>1, <1>6, <1>a, OnChangePlaces DEF SheetHistory, SheetsInv
    <2>3. (homes = Belongs(told, wide, panel))'
      BY <2>2, <1>6 DEF SheetHistory, Belongs, cardVars
    <2> QED
      BY <2>3, <1>6, <1>a DEF SheetHistory, SheetsInv, Types, cardVars, isFull, Covers
  <1>7. CASE FoldDock
    BY <1>7
    DEF FoldDock, SheetsInv, Types, screenVars, cardVars, isFull, Belongs, Covers
  <1>8. CASE Resize
    <2>1. told \in BOOLEAN /\ wide' \in BOOLEAN  BY <1>8, <1>a DEF isFull, Resize
    <2>2. homes' = Belongs(told, wide', panel)
      BY <2>1, <1>8, ResizePlaces DEF Resize, SheetsInv
    <2>3. (homes = Belongs(told, wide, panel))'
      BY <2>2, <1>8 DEF Resize, Belongs, screenVars, cardVars
    <2> QED
      BY <2>1, <2>3, <1>8
      DEF Resize, SheetsInv, Types, screenVars, cardVars, isFull, Covers
  <1> QED
    BY <1>1, <1>2, <1>3, <1>4, <1>5, <1>6, <1>7, <1>8 DEF SheetsNext

\* The gauges are in exactly the home the reader can see, and the camera is padded
\* by what the dock covers (mapcontrols.js paint, sidedock and sensorsheet sync).
THEOREM GaugesAlwaysWhereSeen == SheetsSpec => []GaugesAreWhereSeen
  <1>1. SheetsInv => GaugesAreWhereSeen
    BY DEF SheetsInv, Types, GaugesAreWhereSeen, Belongs, Homes, isFull
  <1> QED  BY SheetsInitInv, SheetsNextInv, <1>1, PTL DEF SheetsSpec

-----------------------------------------------------------------------------
(***************************************************************************)
(* The replay plays one body on one clock, for every metric, window, tier  *)
(* and number of loads in flight, whatever order their answers come in.    *)
(*                                                                         *)
(* The clock is a function of two things, whether the replay plays and     *)
(* whether the page is hidden (ClockOf): each control puts it back in that *)
(* form, so no queued callback is ever without its handle.  The playhead   *)
(* counts the frames of whatever body is held (CountsHeld), which is what  *)
(* a press on a held body relies on.                                       *)
(***************************************************************************)

\* The playhead counts the frames of the held body, whatever it was loaded for.
CountsHeld ==
  /\ loaded # NoUrl => head.count = FrameCount[loaded[1]]
  /\ loaded = NoUrl => head.count = 0 /\ ~clock.running
  /\ \A l \in LoadIds : loads[l] # NoLoad => loads[l].url \in ReplayURLs

ReplayInv == ReplayTypeOK /\ PlaybackCoherent /\ CountsHeld

\* A page that has just loaded: nothing held, nothing plays.
LEMMA ReplayInitInv == ReplayInit => ReplayInv
  <1> SUFFICES ASSUME ReplayInit PROVE ReplayInv  OBVIOUS
  <1>1. ReplayTypeOK
    <2>1. NoLoad \in [by : {"nobody", "press", "zoom"}, url : ReplayURLs \cup {NoUrl}]
      BY DEF NoLoad
    <2>2. loads \in [LoadIds -> [by : {"nobody", "press", "zoom"}, url : ReplayURLs \cup {NoUrl}]]
      BY <2>1 DEF ReplayInit
    <2>3. head \in [i : Nat, count : Nat, playing : BOOLEAN]  BY DEF ReplayInit
    <2>4. clock \in [running : BOOLEAN, raf : BOOLEAN, scheduled : Nat]  BY DEF ReplayInit
    <2>5. player \in [open : BOOLEAN, zoomOn : BOOLEAN, scrubber : Nat, speed : 0 .. SpeedCount - 1]
      BY DEF ReplayInit, SpeedCount
    <2> QED  BY <2>2, <2>3, <2>4, <2>5 DEF ReplayInit, ReplayTypeOK
  <1>2. PlaybackCoherent
    BY DEF ReplayInit, PlaybackCoherent, OneClock, ListensWhileOpen, PlayheadInRange
  <1>3. CountsHeld  BY DEF ReplayInit, CountsHeld
  <1> QED  BY <1>1, <1>2, <1>3 DEF ReplayInv

\* The clock of a replay that runs or not, on a page that is hidden or not.
ClockOf(running, away) ==
  [running |-> running, raf |-> running /\ ~away,
   scheduled |-> IF running /\ ~away THEN 1 ELSE 0]

HeadType == [i : Nat, count : Nat, playing : BOOLEAN]
ClockType == [running : BOOLEAN, raf : BOOLEAN, scheduled : Nat]
PlayerType == [open : BOOLEAN, zoomOn : BOOLEAN, scrubber : Nat, speed : 0 .. SpeedCount - 1]
LoadType == [by : {"nobody", "press", "zoom"}, url : ReplayURLs \cup {NoUrl}]

\* The form is a clock.
LEMMA ClockOfTyped ==
  ASSUME NEW r \in BOOLEAN, NEW h \in BOOLEAN
  PROVE  ClockOf(r, h) \in ClockType
  <1>1. (r /\ ~h) \in BOOLEAN /\ (IF r /\ ~h THEN 1 ELSE 0) \in Nat  OBVIOUS
  <1> QED  BY <1>1 DEF ClockOf, ClockType

\* One clock means the clock has this form.
LEMMA ClockForm ==
  ASSUME ReplayTypeOK, OneClock
  PROVE  /\ clock = ClockOf(head.playing, hidden)
         /\ clock.running = head.playing /\ head.playing \in BOOLEAN /\ hidden \in BOOLEAN
  <1>1. clock \in ClockType /\ head \in HeadType /\ hidden \in BOOLEAN
    BY DEF ReplayTypeOK, ClockType, HeadType
  <1>2. clock = [running |-> clock.running, raf |-> clock.raf, scheduled |-> clock.scheduled]
    BY <1>1 DEF ClockType
  <1>3. /\ clock.running = head.playing /\ clock.raf = (head.playing /\ ~hidden)
        /\ clock.scheduled = IF head.playing /\ ~hidden THEN 1 ELSE 0
    BY DEF OneClock
  <1> QED  BY <1>1, <1>2, <1>3 DEF ClockOf, HeadType

\* And a clock of this form is one clock.
LEMMA FormIsOne ==
  ASSUME NEW r \in BOOLEAN, NEW h \in BOOLEAN
  PROVE  /\ ClockOf(r, h).running = r /\ ClockOf(r, h).raf = (r /\ ~h)
         /\ ClockOf(r, h).scheduled = IF ClockOf(r, h).raf THEN 1 ELSE 0
  BY DEF ClockOf

\* pauseClock and run() leave the clock in its form: the held callback is the only one.
LEMMA Pauses ==
  ASSUME ReplayTypeOK, OneClock
  PROVE  pauseClock = ClockOf(FALSE, hidden)
  <1>1. Cancelled(clock) = 0
    BY ClockForm, FormIsOne DEF Cancelled
  <1> QED  BY <1>1 DEF pauseClock, ClockOf

LEMMA RunsOnce ==
  ASSUME ReplayTypeOK, OneClock
  PROVE  runClock = ClockOf(TRUE, hidden)
  <1>1. Cancelled(clock) = 0
    BY ClockForm, FormIsOne DEF Cancelled
  <1>2. CASE hidden = TRUE  BY <1>1, <1>2 DEF runClock, ClockOf
  <1>3. CASE hidden = FALSE  BY <1>1, <1>3 DEF runClock, ClockOf
  <1> QED  BY <1>2, <1>3, ClockForm

\* seek clamps an index into the frames there are.
LEMMA Seeks ==
  ASSUME NEW n \in Nat, NEW i \in Nat
  PROVE  seek(n, i) \in Nat /\ (n > 0 => seek(n, i) < n)
  BY DEF seek

\* Closing the player, or pausing it, parks the clock and the zoom listener.
LEMMA Stops ==
  ASSUME ReplayTypeOK, OneClock, ListensWhileOpen,
         NEW open \in {player.open, FALSE}, NEW n \in Nat, stopPlayer(open, n)
  PROVE  /\ player' \in PlayerType /\ player'.zoomOn = player'.open
         /\ clock' = ClockOf(FALSE, hidden)
  <1>1. player \in PlayerType  BY DEF ReplayTypeOK, PlayerType
  <1>2. open \in BOOLEAN /\ (player.zoomOn /\ open) = open
    BY <1>1 DEF PlayerType, ListensWhileOpen
  <1>3. player' = [player EXCEPT !.open = open, !.scrubber = n, !.zoomOn = open]
    BY <1>2 DEF stopPlayer
  <1> QED  BY <1>1, <1>2, <1>3, Pauses DEF stopPlayer, PlayerType

\* A press that plays opens the player and starts the clock.
LEMMA ReplayStarts ==
  ASSUME ReplayTypeOK, OneClock, NEW url \in ReplayURLs, NEW i \in Nat, NEW n \in Nat,
         StartPlaying(url, i, n)
  PROVE  /\ player' \in PlayerType /\ player'.zoomOn = player'.open
         /\ head' \in HeadType /\ head' = [i |-> i, count |-> n, playing |-> TRUE]
         /\ clock' = ClockOf(TRUE, hidden)
         /\ shown' \in ReplayURLs \X Nat
  <1>1. player \in PlayerType  BY DEF ReplayTypeOK, PlayerType
  <1> QED  BY <1>1, RunsOnce DEF StartPlaying, paint, PlayerType, HeadType

\* What is left to show of a step.
LEMMA Together ==
  ASSUME asked' \in Animations, tier' \in Tiers, loaded' \in ReplayURLs \cup {NoUrl},
         loads' \in [LoadIds -> LoadType], head' \in HeadType, player' \in PlayerType,
         hidden' \in BOOLEAN, shown' \in (ReplayURLs \X Nat) \cup {NoUrl},
         clock' = ClockOf(head'.playing, hidden'),
         player'.zoomOn = player'.open, PlayheadInRange', CountsHeld'
  PROVE  ReplayInv'
  <1>1. head'.playing \in BOOLEAN  BY DEF HeadType
  <1>2. clock' \in ClockType  BY <1>1, ClockOfTyped
  <1>3. ReplayTypeOK'
    BY <1>2 DEF ReplayTypeOK, LoadType, HeadType, PlayerType, ClockType
  <1>4. OneClock'  BY <1>1, FormIsOne DEF OneClock
  <1>5. ListensWhileOpen'  BY DEF ListensWhileOpen
  <1> QED  BY <1>3, <1>4, <1>5 DEF ReplayInv, PlaybackCoherent

\* Every press, answer, frame and tab switch keeps the invariant.
LEMMA ReplayNextInv == ReplayInv /\ [ReplayNext]_replayVars => ReplayInv'
  <1> SUFFICES ASSUME ReplayInv, [ReplayNext]_replayVars PROVE ReplayInv'  OBVIOUS
  <1> USE ReplayAssumption
  <1>a. ReplayTypeOK /\ OneClock /\ ListensWhileOpen /\ PlayheadInRange /\ CountsHeld
    BY DEF ReplayInv, PlaybackCoherent
  <1>b. /\ asked \in Animations /\ tier \in Tiers /\ loaded \in ReplayURLs \cup {NoUrl}
        /\ loads \in [LoadIds -> LoadType] /\ head \in HeadType /\ player \in PlayerType
        /\ hidden \in BOOLEAN /\ shown \in (ReplayURLs \X Nat) \cup {NoUrl}
    BY <1>a DEF ReplayTypeOK, LoadType, HeadType, PlayerType
  <1>c. /\ head.i \in Nat /\ head.count \in Nat /\ head.playing \in BOOLEAN
        /\ player.open \in BOOLEAN /\ player.scrubber \in Nat /\ player.zoomOn = player.open
    BY <1>a, <1>b DEF HeadType, PlayerType, ListensWhileOpen
  <1>d. clock = ClockOf(head.playing, hidden) /\ clock.running = head.playing
    BY <1>a, ClockForm
  <1>e. ClockOf(FALSE, hidden).running = FALSE /\ ClockOf(TRUE, hidden).running = TRUE
    BY DEF ClockOf
  <1>f. wantedURL \in ReplayURLs /\ NoUrl \notin ReplayURLs
        /\ \A u \in ReplayURLs : u[1] \in Animations /\ FrameCount[u[1]] \in Nat \ {0}
    BY <1>b DEF wantedURL, ReplayURLs
  <1>g. loaded # NoUrl => loaded \in ReplayURLs
    BY <1>b
  <1>1. CASE UNCHANGED replayVars
    BY <1>1 DEF replayVars, ReplayInv, ReplayTypeOK, PlaybackCoherent, OneClock,
                ListensWhileOpen, PlayheadInRange, CountsHeld
  <1>2. CASE PressPause
    <2>1. /\ player' \in PlayerType /\ player'.zoomOn = player'.open
          /\ clock' = ClockOf(FALSE, hidden)
      BY <1>2, <1>a, <1>c, Stops DEF PressPause
    <2>2. head' \in HeadType /\ head'.playing = FALSE /\ head'.i = head.i /\ head'.count = head.count
      BY <1>2, <1>b DEF PressPause, HeadType
    <2>3. PlayheadInRange' /\ CountsHeld'
      BY <2>1, <2>2, <1>2, <1>a, <1>e DEF PressPause, PlayheadInRange, CountsHeld
    <2> QED  BY <2>1, <2>2, <2>3, <1>2, <1>b, Together DEF PressPause
  <1>3. CASE PressHeld
    <2>1. CASE head.count > 0 /\ asked \in WithHistory
      <3>1. StartPlaying(loaded, head.i, head.count) /\ loaded \in ReplayURLs
        BY <2>1, <1>3, <1>f DEF PressHeld
      <3>2. /\ player' \in PlayerType /\ player'.zoomOn = player'.open
            /\ head' \in HeadType /\ head' = [i |-> head.i, count |-> head.count, playing |-> TRUE]
            /\ clock' = ClockOf(TRUE, hidden) /\ shown' \in ReplayURLs \X Nat
        BY <3>1, <1>a, <1>c, ReplayStarts
      <3>3. head'.i = head.i /\ head'.count = head.count /\ head'.playing = TRUE
        BY <3>2
      <3>4. PlayheadInRange' /\ CountsHeld'
        BY <3>1, <3>3, <2>1, <1>3, <1>a, <1>f DEF PressHeld, PlayheadInRange, CountsHeld
      <3> QED  BY <3>2, <3>3, <3>4, <1>3, <1>b, Together DEF PressHeld
    <2>2. CASE ~(head.count > 0 /\ asked \in WithHistory)
      <3>1. player' = [player EXCEPT !.scrubber = head.count] /\ UNCHANGED <<head, shown, clock>>
        BY <2>2, <1>3 DEF PressHeld
      <3>2. player' \in PlayerType /\ player'.zoomOn = player'.open
        BY <3>1, <1>b, <1>c DEF PlayerType
      <3>3. PlayheadInRange' /\ CountsHeld'
        BY <3>1, <1>3, <1>a DEF PressHeld, PlayheadInRange, CountsHeld
      <3> QED  BY <3>1, <3>2, <3>3, <1>3, <1>b, <1>d, Together DEF PressHeld
    <2> QED  BY <2>1, <2>2
  <1>4. CASE PressLoad
    <2>1. PICK l \in LoadIds : loads' = [loads EXCEPT ![l] = [by |-> "press", url |-> wantedURL]]
      BY <1>4 DEF PressLoad, BeginLoad
    <2>2. [by |-> "press", url |-> wantedURL] \in LoadType  BY <1>f DEF LoadType
    <2>3. loads' \in [LoadIds -> LoadType]  BY <2>1, <2>2, <1>b
    <2>4. CountsHeld'
      BY <2>1, <1>4, <1>a, <1>b, <1>f DEF PressLoad, CountsHeld
    <2>5. PlayheadInRange'  BY <1>4, <1>a DEF PressLoad, PlayheadInRange
    <2> QED  BY <2>3, <2>4, <2>5, <1>4, <1>b, <1>c, <1>d, Together DEF PressLoad
  <1>5. ASSUME NEW i \in 0 .. player.scrubber - 1, Scrub(i) PROVE ReplayInv'
    <2>1. clock' = ClockOf(FALSE, hidden)
      <3>1. CASE clock.running  BY <3>1, <1>5, <1>a, Pauses DEF Scrub
      <3>2. CASE ~clock.running  BY <3>2, <1>5, <1>c, <1>d DEF Scrub
      <3> QED  BY <3>1, <3>2
    <2>2. seek(head.count, i) \in Nat /\ (head.count > 0 => seek(head.count, i) < head.count)
      <3>1. i \in Nat  BY <1>c
      <3> QED  BY <3>1, <1>c, Seeks
    <2>3. head' = [head EXCEPT !.playing = FALSE,
                               !.i = IF head.count > 0 THEN seek(head.count, i) ELSE @]
      BY <1>5, <1>c, <1>d DEF Scrub
    <2>4. /\ head' \in HeadType /\ head'.playing = FALSE /\ head'.count = head.count
          /\ head.count > 0 => head'.i < head.count
      BY <2>2, <2>3, <1>b DEF HeadType
    <2>5. shown' \in (ReplayURLs \X Nat) \cup {NoUrl}
      BY <2>2, <1>5, <1>a, <1>b DEF Scrub, paint, CountsHeld
    <2>6. PlayheadInRange' /\ CountsHeld'
      BY <2>1, <2>4, <1>5, <1>a, <1>e DEF Scrub, PlayheadInRange, CountsHeld
    <2> QED  BY <2>1, <2>4, <2>5, <2>6, <1>5, <1>b, <1>c, Together DEF Scrub
  <1>6. CASE NextSpeed
    <2>1. clock' = ClockOf(head.playing, hidden)
      BY <1>6, <1>a, <1>c, <1>d, RunsOnce DEF NextSpeed
    <2>2. player.speed \in 0 .. SpeedCount - 1 /\ (player.speed + 1) % SpeedCount \in 0 .. SpeedCount - 1
      BY <1>b DEF PlayerType, SpeedCount
    <2>3. player' \in PlayerType /\ player'.zoomOn = player'.open
      BY <2>2, <1>6, <1>b, <1>c DEF NextSpeed, PlayerType
    <2>4. PlayheadInRange' /\ CountsHeld'
      BY <2>1, <1>6, <1>a, <1>d DEF NextSpeed, PlayheadInRange, CountsHeld
    <2> QED  BY <2>1, <2>3, <2>4, <1>6, <1>b, Together DEF NextSpeed
  <1>7. CASE Exit
    <2>1. /\ player' \in PlayerType /\ player'.zoomOn = player'.open
          /\ clock' = ClockOf(FALSE, hidden)
      BY <1>7, <1>a, <1>c, Stops DEF Exit
    <2>2. head' \in HeadType /\ head'.playing = FALSE /\ head'.i = head.i /\ head'.count = head.count
      BY <1>7, <1>b DEF Exit, HeadType
    <2>3. PlayheadInRange' /\ CountsHeld'
      BY <2>1, <2>2, <1>7, <1>a, <1>e DEF Exit, PlayheadInRange, CountsHeld
    <2> QED  BY <2>1, <2>2, <2>3, <1>7, <1>b, Together DEF Exit
  <1>8. ASSUME NEW a \in Animations, Reset(a) PROVE ReplayInv'
    <2>1. /\ player' \in PlayerType /\ player'.zoomOn = player'.open
          /\ clock' = ClockOf(FALSE, hidden)
      BY <1>8, <1>a, <1>c, Stops DEF Reset
    <2>2. head' \in HeadType /\ head'.playing = FALSE /\ head'.count = 0
      BY <1>8, <1>b DEF Reset, HeadType
    <2>3. loaded' = NoUrl /\ clock'.running = FALSE
      BY <2>1, <1>8, <1>e DEF Reset
    <2>4. PlayheadInRange' /\ CountsHeld'
      BY <2>2, <2>3, <1>8, <1>a DEF Reset, PlayheadInRange, CountsHeld
    <2> QED  BY <2>1, <2>2, <2>3, <2>4, <1>8, <1>b, Together DEF Reset
  <1>9. ASSUME NEW t \in Tiers, Zoom(t) PROVE ReplayInv'
    <2>1. <<asked, t>> \in ReplayURLs  BY <1>b DEF ReplayURLs
    <2>2. loads' \in [LoadIds -> LoadType]
          /\ \A l \in LoadIds : loads'[l] = loads[l] \/ loads'[l].url \in ReplayURLs
      <3>1. CASE UNCHANGED loads  BY <3>1, <1>b
      <3>2. CASE \E l \in LoadIds : loads' = [loads EXCEPT ![l] = [by |-> "zoom", url |-> <<asked, t>>]]
        <4>1. PICK l \in LoadIds : loads' = [loads EXCEPT ![l] = [by |-> "zoom", url |-> <<asked, t>>]]
          BY <3>2
        <4>2. [by |-> "zoom", url |-> <<asked, t>>] \in LoadType  BY <2>1 DEF LoadType
        <4> QED  BY <4>1, <4>2, <2>1, <1>b
      <3> QED  BY <3>1, <3>2, <1>9 DEF Zoom
    <2>3. player' \in PlayerType /\ player'.zoomOn = player'.open
      <3>1. CASE UNCHANGED player  BY <3>1, <1>b, <1>c
      <3>2. CASE player' = [player EXCEPT !.scrubber = head.count]
        BY <3>2, <1>b, <1>c DEF PlayerType
      <3> QED  BY <3>1, <3>2, <1>9 DEF Zoom
    <2>4. PlayheadInRange' /\ CountsHeld'
      BY <2>2, <1>9, <1>a DEF Zoom, PlayheadInRange, CountsHeld
    <2> QED  BY <2>2, <2>3, <2>4, <1>9, <1>b, <1>d, Together DEF Zoom
  <1>10. ASSUME NEW l \in LoadIds, LoadLands(l) PROVE ReplayInv'
    <2> DEFINE url == loads[l].url
               count == FrameCount[url[1]]
               i == IF loads[l].by = "zoom" THEN seek(count, head.i) ELSE 0
    <2>1. url \in ReplayURLs /\ url # NoUrl /\ count \in Nat \ {0}
      BY <1>10, <1>a, <1>f DEF LoadLands, CountsHeld
    <2>2. i \in Nat /\ i < count
      <3>1. seek(count, head.i) \in Nat /\ seek(count, head.i) < count
        BY <2>1, <1>c DEF seek
      <3> QED  BY <2>1, <3>1
    <2>3. NoLoad \in LoadType  BY DEF NoLoad, LoadType
    <2>4. loads' = [loads EXCEPT ![l] = NoLoad]  BY <1>10 DEF LoadLands
    <2>5. loads' \in [LoadIds -> LoadType]
          /\ \A k \in LoadIds : loads'[k] # NoLoad => loads'[k].url \in ReplayURLs
      BY <2>3, <2>4, <1>a, <1>b DEF CountsHeld
    <2>6. loaded' = url  BY <1>10 DEF LoadLands
    <2>7. /\ head' \in HeadType /\ head'.i = i /\ head'.count = count
          /\ player' \in PlayerType /\ player'.zoomOn = player'.open
          /\ clock' = ClockOf(head'.playing, hidden)
          /\ shown' \in (ReplayURLs \X Nat) \cup {NoUrl}
      <3>1. CASE StartPlaying(url, i, count)
        <4>1. /\ player' \in PlayerType /\ player'.zoomOn = player'.open
              /\ head' \in HeadType /\ head' = [i |-> i, count |-> count, playing |-> TRUE]
              /\ clock' = ClockOf(TRUE, hidden) /\ shown' \in ReplayURLs \X Nat
          BY <3>1, <2>1, <2>2, <1>a, ReplayStarts
        <4> QED  BY <4>1
      <3>2. CASE /\ head' = [head EXCEPT !.i = i, !.count = count]
                 /\ player' = [player EXCEPT !.scrubber = count]
                 /\ shown' = <<url, i>> \/ shown' = shown
                 /\ UNCHANGED clock
        <4>1. head' \in HeadType /\ head'.i = i /\ head'.count = count /\ head'.playing = head.playing
          BY <3>2, <2>1, <2>2, <1>b DEF HeadType
        <4>2. player' \in PlayerType /\ player'.zoomOn = player'.open
          BY <3>2, <2>1, <1>b, <1>c DEF PlayerType
        <4>3. shown' \in (ReplayURLs \X Nat) \cup {NoUrl}
          BY <3>2, <2>1, <2>2, <1>b
        <4> QED  BY <4>1, <4>2, <4>3, <3>2, <1>d
      <3> QED  BY <3>1, <3>2, <1>10 DEF LoadLands, paint
    <2> HIDE DEF url, count, i
    <2>8. count = FrameCount[url[1]]  BY DEF count
    <2>9. PlayheadInRange' /\ CountsHeld'
      BY <2>1, <2>2, <2>5, <2>6, <2>7, <2>8 DEF PlayheadInRange, CountsHeld
    <2> QED  BY <2>1, <2>5, <2>6, <2>7, <2>9, <1>10, <1>b, Together DEF LoadLands
  <1>11. ASSUME NEW l \in LoadIds, LoadFails(l) PROVE ReplayInv'
    <2>1. NoLoad \in LoadType  BY DEF NoLoad, LoadType
    <2>2. loads' \in [LoadIds -> LoadType] /\ CountsHeld'
      BY <2>1, <1>11, <1>a, <1>b DEF LoadFails, CountsHeld
    <2>3. PlayheadInRange'  BY <1>11, <1>a DEF LoadFails, PlayheadInRange
    <2> QED  BY <2>2, <2>3, <1>11, <1>b, <1>c, <1>d, Together DEF LoadFails
  <1>12. CASE tick
    <2>1. clock' = clock /\ clock.running
      BY <1>12, <1>a, <1>b, <1>c DEF tick, ReplayTypeOK, OneClock
    <2>2. loaded \in ReplayURLs /\ head.count > 0
      BY <2>1, <1>a, <1>g DEF PlayheadInRange
    <2>3. PICK advanced \in 0 .. MAX_CATCHUP_FRAMES :
            /\ head' = [head EXCEPT !.i = (head.i + advanced) % head.count]
            /\ shown' = <<loaded, (head.i + advanced) % head.count>> \/ shown' = shown
      BY <2>2, <1>12, <1>c DEF tick, paint
    <2>4. (head.i + advanced) % head.count \in 0 .. head.count - 1
      <3>1. \A m \in Nat, n \in Nat \ {0} : m % n \in 0 .. n - 1  OBVIOUS
      <3>2. head.i + advanced \in Nat  BY <1>c DEF MAX_CATCHUP_FRAMES
      <3> QED  BY <3>1, <3>2, <2>2, <1>c
    <2>5. /\ head' \in HeadType /\ head'.i < head.count
          /\ head'.count = head.count /\ head'.playing = head.playing
      BY <2>3, <2>4, <1>b, <1>c DEF HeadType
    <2>6. shown' \in (ReplayURLs \X Nat) \cup {NoUrl}
      BY <2>2, <2>3, <2>4, <1>b, <1>c
    <2>7. PlayheadInRange' /\ CountsHeld'
      BY <2>1, <2>5, <1>12, <1>a DEF tick, PlayheadInRange, CountsHeld
    <2> QED  BY <2>1, <2>5, <2>6, <2>7, <1>12, <1>b, <1>c, <1>d, Together DEF tick
  <1>13. CASE onVisibility
    <2>1. clock' = ClockOf(head.playing, ~hidden)
      <3>1. CASE head.playing = FALSE
        BY <3>1, <1>13, <1>d DEF onVisibility, ClockOf
      <3>2. CASE head.playing = TRUE /\ hidden = FALSE
        <4>1. clock = [running |-> TRUE, raf |-> TRUE, scheduled |-> 1]
          BY <3>2, <1>d DEF ClockOf
        <4>2. clock' = [clock EXCEPT !.raf = FALSE, !.scheduled = 0]
          BY <4>1, <3>2, <1>13 DEF onVisibility, Cancelled
        <4>3. ClockOf(head.playing, ~hidden) = [running |-> TRUE, raf |-> FALSE, scheduled |-> 0]
          BY <3>2 DEF ClockOf
        <4>4. clock' = [running |-> TRUE, raf |-> FALSE, scheduled |-> 0]
          BY <4>1, <4>2
        <4> QED  BY <4>3, <4>4
      <3>3. CASE head.playing = TRUE /\ hidden = TRUE
        <4>1. clock = [running |-> TRUE, raf |-> FALSE, scheduled |-> 0]
          BY <3>3, <1>d DEF ClockOf
        <4>2. clock' = [clock EXCEPT !.raf = TRUE, !.scheduled = 1]
          <5>1. clock.scheduled + 1 = 1 /\ clock.running = TRUE /\ clock.raf = FALSE  BY <4>1
          <5> QED  BY <5>1, <3>3, <1>13 DEF onVisibility
        <4>3. ClockOf(head.playing, ~hidden) = [running |-> TRUE, raf |-> TRUE, scheduled |-> 1]
          BY <3>3 DEF ClockOf
        <4>4. clock' = [running |-> TRUE, raf |-> TRUE, scheduled |-> 1]
          BY <4>1, <4>2
        <4> QED  BY <4>3, <4>4
      <3> QED  BY <3>1, <3>2, <3>3, <1>b, <1>c
    <2>2. hidden' \in BOOLEAN /\ clock' = ClockOf(head'.playing, hidden')
      BY <2>1, <1>13, <1>b DEF onVisibility
    <2>3. clock'.running = clock.running
      BY <2>1, <1>d DEF ClockOf
    <2>4. PlayheadInRange' /\ CountsHeld'
      BY <2>3, <1>13, <1>a DEF onVisibility, PlayheadInRange, CountsHeld
    <2> QED  BY <2>2, <2>4, <1>13, <1>b, <1>c, Together DEF onVisibility
  <1>14. CASE LiveRepaint
    <2>1. PlayheadInRange' /\ CountsHeld'
      BY <1>14, <1>a DEF LiveRepaint, PlayheadInRange, CountsHeld
    <2> QED  BY <2>1, <1>14, <1>b, <1>c, <1>d, Together DEF LiveRepaint
  <1> QED
    BY <1>1, <1>2, <1>3, <1>4, <1>5, <1>6, <1>7, <1>8, <1>9, <1>10, <1>11, <1>12,
       <1>13, <1>14
    DEF ReplayNext

\* The player's state keeps its shape, whatever lands and whoever presses.
THEOREM ReplayTypeCorrect == ReplaySpec => []ReplayTypeOK
  <1>1. ReplayInv => ReplayTypeOK  BY DEF ReplayInv
  <1> QED  BY ReplayInitInv, ReplayNextInv, <1>1, PTL DEF ReplaySpec

\* timelapse-island.js: one clock, running only for a visible page and a held body,
\* with its playhead inside that body, and the zoom heard only while the player is
\* open.
THEOREM PlaybackAlwaysCoherent == ReplaySpec => []PlaybackCoherent
  <1>1. ReplayInv => PlaybackCoherent  BY DEF ReplayInv
  <1> QED  BY ReplayInitInv, ReplayNextInv, <1>1, PTL DEF ReplaySpec

\* A step of a replay that does not run, in which a zoom's load is over.
LEMMA QuietLanding ==
  ASSUME ReplayInv, [ReplayNext]_replayVars, NEW l \in LoadIds,
         loads[l].by = "zoom", loads'[l] = NoLoad, ~clock.running
  PROVE  shown' = shown
  <1>a. OneClock /\ loads[l] # NoLoad /\ loads \in [LoadIds -> LoadType] /\ "zoom" # "press"
    BY DEF ReplayInv, PlaybackCoherent, NoLoad, ReplayTypeOK, LoadType
  <1>b. loads' # loads  BY <1>a
  <1>1. CASE LoadLands(l)
    BY <1>1, <1>a DEF LoadLands, OneClock
  <1>2. ASSUME NEW k \in LoadIds, k # l, LoadLands(k) PROVE FALSE
    BY <1>2, <1>a DEF LoadLands
  <1>3. ASSUME NEW k \in LoadIds, LoadFails(k) PROVE shown' = shown
    BY <1>3 DEF LoadFails
  <1>4. CASE PressLoad  BY <1>4 DEF PressLoad
  <1>5. ASSUME NEW t \in Tiers, Zoom(t) PROVE shown' = shown
    BY <1>5 DEF Zoom
  <1>6. /\ ~UNCHANGED replayVars /\ ~PressPause /\ ~PressHeld /\ ~NextSpeed /\ ~Exit
        /\ \A i \in 0 .. player.scrubber - 1 : ~Scrub(i)
        /\ \A a \in Animations : ~Reset(a)
        /\ ~tick /\ ~onVisibility /\ ~LiveRepaint
    BY <1>b DEF replayVars, PressPause, PressHeld, NextSpeed, Exit, Scrub, Reset, tick,
                onVisibility, LiveRepaint
  <1> QED  BY <1>1, <1>2, <1>3, <1>4, <1>5, <1>6 DEF ReplayNext

\* onZoom of timelapse-island.js: a body fetched because the map was zoomed never
\* paints over the live grid of a player that does not play.
THEOREM LandingAlwaysRespectsPause == ReplaySpec => LandingRespectsPause
  <1>1. ReplayInv /\ [ReplayNext]_replayVars
        => [\A l \in LoadIds :
              (loads[l].by = "zoom" /\ loads'[l] = NoLoad /\ ~clock.running)
                 => shown' = shown]_replayVars
    BY QuietLanding
  <1> QED
    BY ReplayInitInv, ReplayNextInv, <1>1, PTL DEF ReplaySpec, LandingRespectsPause

-----------------------------------------------------------------------------
(***************************************************************************)
(* The province table keeps the reader's rules, for any rows, any readings *)
(* that arrive and any names of the two languages.                         *)
(*                                                                         *)
(* Everything the reader does ends in render, which clamps the page into   *)
(* what is left; so the invariant is that the table is as render left it,  *)
(* for the readings and the language on screen.                            *)
(***************************************************************************)
ColumnSet == {COLS[i] : i \in DOMAIN COLS}

TableRecord(t) ==
  /\ t = [key |-> t.key, dir |-> t.dir, q |-> t.q, filter |-> t.filter,
          perPage |-> t.perPage, page |-> t.page, lastCount |-> t.lastCount]
  /\ t.perPage \in Nat /\ t.page \in Int /\ t.lastCount \in Int

\* The size chosen divides the count it was chosen for.
SizeFits(t) == t.perPage = WHOLE \/ t.perPage \in sizesFor(t.lastCount)
\* The order is of a column on screen.
OrderShown(t, off) == t.key = "name" \/ (t.key \in DOMAIN ColumnOf /\ ColumnOf[t.key] \notin off)

Rendered(t, f, l) ==
  /\ TableRecord(t) /\ SizeFits(t)
  /\ t.lastCount = Len(Visible(t, f, l))
  /\ t.page \in 1 .. pagesOf(t, f, t.lastCount)

ColumnsKept == columnsOff \subseteq ColumnSet /\ ShownColumns(columnsOff) # {} /\ columnsStored = columnsOff

\* The highlight is on an option of the open list.
HighlightOn ==
  /\ Len(options) \in Nat
  /\ activeIndex # -1 => listShown /\ activeIndex \in 0 .. Len(options) - 1

TableInv ==
  /\ feed \in DOMAIN Feeds
  /\ Rendered(table, feed, tongue)
  /\ OrderShown(table, columnsOff)
  /\ ColumnsKept
  /\ HighlightOn

LEMMA SizesDivide ==
  ASSUME NEW n \in Int, NEW d \in sizesFor(n)
  PROVE  d \in 3 .. n - 1 /\ n % d = 0
  BY DEF sizesFor, MIN_PAGE

\* The rows left: as many as the filter and the search leave, each once.
LEMMA VisibleClimbs ==
  ASSUME NEW t, NEW f \in DOMAIN Feeds, NEW l
  PROVE  \E S : /\ Climbs(S, Visible(t, f, l)) /\ S \subseteq OfTable(f)
                /\ Len(Visible(t, f, l)) = Cardinality(S)
                /\ DOMAIN Visible(t, f, l) = 1 .. Cardinality(S)
                /\ Cardinality(S) <= Len(Feeds[f])
<1>1. PICK S : S = {r \in OfTable(f) : matches(t, f, l, r)}
  OBVIOUS
<1>2. PICK m \in Nat : m = Len(Feeds[f]) /\ OfTable(f) = 1 .. m
  BY OblastTableAssumption DEF OfTable
<1>a. m \in Nat
  OBVIOUS
<1>3. IsFiniteSet(1 .. m) /\ Cardinality(1 .. m) = m
  BY <1>a, FS_Interval
<1>4. IsFiniteSet(S) /\ Cardinality(S) <= m
  BY <1>1, <1>2, <1>3, FS_Subset
<1>5. S \subseteq Int
  BY <1>1, <1>2
<1>6. Visible(t, f, l) = Ascending(S)
  BY <1>1 DEF Visible
<1>7. PICK v : v = Visible(t, f, l)
  OBVIOUS
<1>8. Climbs(S, v)
  BY <1>4, <1>5, <1>6, <1>7, AscendingClimbs
<1>9. Cardinality(S) \in Nat /\ v \in [1 .. Cardinality(S) -> S]
  BY <1>8 DEF Climbs
<1>10. DOMAIN v = 1 .. Cardinality(S) /\ Len(v) = Cardinality(S)
  BY <1>8, ClimbsLen
<1> QED  BY <1>1, <1>2, <1>4, <1>7, <1>8, <1>10

LEMMA PagesOf ==
  ASSUME NEW t, NEW f \in DOMAIN Feeds, NEW n \in Nat, n <= Len(Feeds[f]), t.perPage \in Nat
  PROVE  pagesOf(t, f, n) \in Nat \ {0}
<1>1. PICK d, m : d = pageSize(t, f) /\ m = Len(Feeds[f])
  OBVIOUS
<1>a. m \in Nat /\ n <= m
  BY <1>1, OblastTableAssumption
<1>2. n # 0 => d \in Nat \ {0}
  <2>1. d = IF t.perPage = WHOLE THEN m ELSE t.perPage
    BY <1>1 DEF pageSize
  <2> QED  BY <1>a, <2>1 DEF WHOLE
<1>3. CASE n = 0
  BY <1>3 DEF pagesOf
<1>4. CASE n # 0
  <2>1. pagesOf(t, f, n) = (n + d - 1) \div d
    BY <1>1, <1>4 DEF pagesOf
  <2>2. n + d - 1 >= d /\ d > 0 /\ n + d - 1 \in Int /\ d \in Int
    BY <1>2, <1>4
  <2>3. (n + d - 1) \div d \in Int /\ (n + d - 1) \div d >= 1
    BY <2>2, QuotientBounds
  <2> QED  BY <2>1, <2>3
<1> QED  BY <1>3, <1>4

LEMMA VisibleSame ==
  ASSUME NEW t, NEW u, NEW f, NEW l, t.filter = u.filter, t.q = u.q
  PROVE  Visible(t, f, l) = Visible(u, f, l)
<1>1. \A r : matches(t, f, l, r) <=> matches(u, f, l, r)
  BY DEF matches, passesFilter
<1>2. {r \in OfTable(f) : matches(t, f, l, r)} = {r \in OfTable(f) : matches(u, f, l, r)}
  BY <1>1
<1> QED  BY <1>2 DEF Visible

\* syncPageSizes leaves a size that fits.
LEMMA SyncFits ==
  ASSUME NEW t, TableRecord(t), NEW n \in Nat, SizeFits(t) \/ t.lastCount # n
  PROVE  LET s == syncPageSizes(t, n)
         IN /\ TableRecord(s) /\ SizeFits(s) /\ s.lastCount = n
            /\ s.key = t.key /\ s.filter = t.filter /\ s.q = t.q
<1>1. PICK s : s = syncPageSizes(t, n)
  OBVIOUS
<1>2. CASE n = t.lastCount
  BY <1>1, <1>2 DEF syncPageSizes
<1>3. CASE n # t.lastCount /\ (t.perPage = WHOLE \/ t.perPage \in sizesFor(n))
  <2>1. s = [t EXCEPT !.lastCount = n]
    BY <1>1, <1>3 DEF syncPageSizes
  <2>2. s = [key |-> t.key, dir |-> t.dir, q |-> t.q, filter |-> t.filter,
             perPage |-> t.perPage, page |-> t.page, lastCount |-> n]
    BY <2>1 DEF TableRecord
  <2>3. t.perPage \in Nat /\ t.page \in Int
    BY DEF TableRecord
  <2> HIDE DEF WHOLE, sizesFor
  <2> QED  BY <1>1, <1>3, <2>2, <2>3 DEF TableRecord, SizeFits
<1>4. CASE n # t.lastCount /\ ~(t.perPage = WHOLE \/ t.perPage \in sizesFor(n))
  <2>1. s = [t EXCEPT !.lastCount = n, !.perPage = WHOLE, !.page = 1]
    BY <1>1, <1>4 DEF syncPageSizes
  <2>2. s = [key |-> t.key, dir |-> t.dir, q |-> t.q, filter |-> t.filter,
             perPage |-> WHOLE, page |-> 1, lastCount |-> n]
    BY <2>1 DEF TableRecord
  <2> QED  BY <1>1, <2>2 DEF TableRecord, SizeFits, WHOLE
<1> QED  BY <1>2, <1>3, <1>4

\* render leaves the table rendered.
LEMMA RenderKeeps ==
  ASSUME NEW t, TableRecord(t), NEW f \in DOMAIN Feeds, NEW l,
         SizeFits(t) \/ t.lastCount # Len(Visible(t, f, l))
  PROVE  Rendered(render(t, f, l), f, l) /\ render(t, f, l).key = t.key
<1>0. PICK S : /\ Climbs(S, Visible(t, f, l)) /\ Len(Visible(t, f, l)) = Cardinality(S)
               /\ Cardinality(S) <= Len(Feeds[f])
  BY VisibleClimbs
<1>1. PICK n \in Nat : n = Len(Visible(t, f, l)) /\ n <= Len(Feeds[f])
  BY <1>0 DEF Climbs
<1>2. PICK s : s = syncPageSizes(t, n)
  OBVIOUS
<1>3. /\ TableRecord(s) /\ SizeFits(s) /\ s.lastCount = n
      /\ s.key = t.key /\ s.filter = t.filter /\ s.q = t.q
  BY <1>1, <1>2, SyncFits
<1>a. s.perPage \in Nat /\ s.page \in Int
  BY <1>3 DEF TableRecord
<1>4. PICK pages \in Nat \ {0} : pages = pagesOf(s, f, n)
  BY <1>1, <1>a, PagesOf
<1>5. PICK p : p = IF s.page > pages THEN pages ELSE IF s.page < 1 THEN 1 ELSE s.page
  OBVIOUS
<1>6. p \in 1 .. pages
  BY <1>a, <1>5
<1>7. PICK r : r = render(t, f, l)
  OBVIOUS
<1>8. r = [s EXCEPT !.page = p]
  BY <1>1, <1>2, <1>4, <1>5, <1>7 DEF render
<1>9. r = [key |-> s.key, dir |-> s.dir, q |-> s.q, filter |-> s.filter,
           perPage |-> s.perPage, page |-> p, lastCount |-> s.lastCount]
  BY <1>3, <1>8 DEF TableRecord
<1>10. /\ r.key = s.key /\ r.q = s.q /\ r.filter = s.filter /\ r.perPage = s.perPage
       /\ r.page = p /\ r.lastCount = s.lastCount
  BY <1>9
<1>11. TableRecord(r)
  BY <1>3, <1>6, <1>9 DEF TableRecord
<1>12. SizeFits(r)
  BY <1>3, <1>10 DEF SizeFits
<1>13. pagesOf(r, f, n) = pages
  BY <1>4, <1>10 DEF pagesOf, pageSize
<1>14. Visible(r, f, l) = Visible(t, f, l)
  BY <1>3, <1>10, VisibleSame
<1> QED  BY <1>1, <1>3, <1>6, <1>7, <1>10, <1>11, <1>12, <1>13, <1>14 DEF Rendered

-----------------------------------------------------------------------------
(* Columns. *)

LEMMA ThreeColumns ==
  /\ ColumnSet = {"pm25", "pm10", "sensors"} /\ Cardinality(ColumnSet) = 3 /\ IsFiniteSet(ColumnSet)
  /\ \A i \in 1 .. 3 : COLS[i] \in ColumnSet
  /\ \A c \in ColumnSet : \E i \in 1 .. 3 : COLS[i] = c
  /\ DOMAIN COLS = 1 .. 3 /\ Len(COLS) = 3
  /\ \A c \in ColumnSet : KeyOf[c] \in DOMAIN ColumnOf /\ ColumnOf[KeyOf[c]] = c
  /\ \A k \in DOMAIN ColumnOf : ColumnOf[k] \in ColumnSet
<1>1. DOMAIN COLS = 1 .. 3 /\ COLS[1] = "pm25" /\ COLS[2] = "pm10" /\ COLS[3] = "sensors" /\ Len(COLS) = 3
  BY DEF COLS
<1>2. ColumnSet = {"pm25", "pm10", "sensors"}
  <2>1. \A i \in 1 .. 3 : i = 1 \/ i = 2 \/ i = 3
    OBVIOUS
  <2> QED  BY <1>1, <2>1 DEF ColumnSet
<1>3. Cardinality({"pm25"}) = 1 /\ IsFiniteSet({"pm25"})
  BY FS_Singleton
<1>4. Cardinality({"pm25"} \cup {"pm10"}) = 2 /\ IsFiniteSet({"pm25"} \cup {"pm10"})
  BY <1>3, FS_AddElement
<1>5. Cardinality(({"pm25"} \cup {"pm10"}) \cup {"sensors"}) = 3 /\ IsFiniteSet(({"pm25"} \cup {"pm10"}) \cup {"sensors"})
  BY <1>4, FS_AddElement
<1>6. ({"pm25"} \cup {"pm10"}) \cup {"sensors"} = ColumnSet
  BY <1>2
<1>7. Cardinality(ColumnSet) = 3 /\ IsFiniteSet(ColumnSet)
  BY <1>5, <1>6
<1>8. \A i \in 1 .. 3 : COLS[i] \in ColumnSet
  BY <1>1 DEF ColumnSet
<1>9. \A c \in ColumnSet : \E i \in 1 .. 3 : COLS[i] = c
  BY <1>1 DEF ColumnSet
<1>10. \A c \in ColumnSet : KeyOf[c] \in DOMAIN ColumnOf /\ ColumnOf[KeyOf[c]] = c
  BY <1>2 DEF KeyOf, ColumnOf
<1>11. \A k \in DOMAIN ColumnOf : ColumnOf[k] \in ColumnSet
  BY <1>2 DEF ColumnOf
<1> QED  BY <1>1, <1>2, <1>7, <1>8, <1>9, <1>10, <1>11

\* restoreColumns: whatever was stored, a column is left.
LEMMA RestoreShows ==
  ASSUME NEW saved, IsFiniteSet(saved)
  PROVE  restoreColumns(saved) \subseteq ColumnSet /\ ShownColumns(restoreColumns(saved)) # {}
<1>1. PICK off : off = restoreColumns(saved)
  OBVIOUS
<1>2. CASE Cardinality(saved) >= 3
  <2>1. off = {}
    BY <1>1, <1>2, ThreeColumns DEF restoreColumns
  <2>2. "pm25" \in ColumnSet
    BY ThreeColumns
  <2> QED  BY <1>1, <2>1, <2>2 DEF ShownColumns, ColumnSet
<1>3. CASE ~(Cardinality(saved) >= 3)
  <2>1. off = saved \cap ColumnSet
    BY <1>1, <1>3, ThreeColumns DEF restoreColumns, ColumnSet
  <2>2. ASSUME ColumnSet \ off = {} PROVE FALSE
    <3>1. ColumnSet \in SUBSET saved
      BY <2>1, <2>2
    <3>2. Cardinality(ColumnSet) <= Cardinality(saved)
      BY <3>1, FS_Subset
    <3>3. Cardinality(saved) \in Nat
      BY FS_CardinalityType
    <3> QED  BY <1>3, <3>2, <3>3, ThreeColumns
  <2> QED  BY <1>1, <2>1, <2>2 DEF ShownColumns, ColumnSet
<1> QED  BY <1>2, <1>3

\* applyColumns: the order falls back to a column that is shown.
LEMMA ColumnsApplied ==
  ASSUME NEW t, TableRecord(t), SizeFits(t), t.key \in {"name"} \cup DOMAIN ColumnOf,
         NEW off \in SUBSET ColumnSet, ShownColumns(off) # {}
  PROVE  LET u == applyColumns(t, off) IN TableRecord(u) /\ SizeFits(u) /\ OrderShown(u, off)
<1>1. CASE t.key = "name" \/ ColumnOf[t.key] \notin off
  <2>1. applyColumns(t, off) = t
    BY <1>1 DEF applyColumns
  <2>2. OrderShown(t, off)
    BY <1>1 DEF OrderShown
  <2>3. TableRecord(t) /\ SizeFits(t)
    OBVIOUS
  <2> QED  BY <2>1, <2>2, <2>3
<1>2. CASE ~(t.key = "name" \/ ColumnOf[t.key] \notin off)
  <2> DEFINE IsFirst(i) == COLS[i] \notin off /\ \A j \in 1 .. i - 1 : COLS[j] \in off
  <2>1. \E i \in 1 .. 3 : IsFirst(i)
    <3>1. PICK T : T = {i \in 1 .. 3 : COLS[i] \notin off}
      OBVIOUS
    <3>2. T # {}
      BY <3>1, ThreeColumns DEF ShownColumns
    <3>3. PICK i \in T : \A j \in T : i <= j
      BY <3>1, <3>2, LeastNat
    <3>4. \A j \in 1 .. i - 1 : COLS[j] \in off
      BY <3>1, <3>3
    <3> QED  BY <3>1, <3>3, <3>4
  <2>2. PICK i : i = CHOOSE i0 \in DOMAIN COLS : IsFirst(i0)
    OBVIOUS
  <2>3. i \in 1 .. 3 /\ COLS[i] \notin off
    BY <2>1, <2>2, ThreeColumns
  <2>4. PICK u : u = applyColumns(t, off)
    OBVIOUS
  <2>5. u = [t EXCEPT !.key = KeyOf[COLS[i]], !.dir = "descending"]
    BY <1>2, <2>2, <2>4 DEF applyColumns
  <2>6. u = [key |-> KeyOf[COLS[i]], dir |-> "descending", q |-> t.q, filter |-> t.filter,
             perPage |-> t.perPage, page |-> t.page, lastCount |-> t.lastCount]
    BY <2>5 DEF TableRecord
  <2>7. TableRecord(u) /\ SizeFits(u)
    BY <2>6 DEF TableRecord, SizeFits
  <2>8. u.key \in DOMAIN ColumnOf /\ ColumnOf[u.key] \notin off
    BY <2>3, <2>6, ThreeColumns
  <2> QED  BY <2>4, <2>7, <2>8 DEF OrderShown
<1> QED  BY <1>1, <1>2

\* A table that render leaves is of the invariant.
LEMMA RenderedTable ==
  ASSUME NEW t, TableRecord(t), NEW f \in DOMAIN Feeds, NEW l, NEW off, OrderShown(t, off),
         SizeFits(t) \/ t.lastCount = -1
  PROVE  Rendered(render(t, f, l), f, l) /\ OrderShown(render(t, f, l), off)
<1>1. PICK S : Climbs(S, Visible(t, f, l)) /\ Len(Visible(t, f, l)) = Cardinality(S)
  BY SMTT(60), VisibleClimbs
<1>2. Len(Visible(t, f, l)) # -1
  BY <1>1 DEF Climbs
<1> QED  BY <1>2, RenderKeeps DEF OrderShown

LEMMA OpenedKeeps ==
  ASSUME NEW off \in SUBSET ColumnSet, ShownColumns(off) # {}
  PROVE  Rendered(Opened(off), 1, "bg") /\ OrderShown(Opened(off), off)
<1>1. TableRecord(Fresh) /\ SizeFits(Fresh) /\ Fresh.key \in DOMAIN ColumnOf
  BY DEF Fresh, TableRecord, SizeFits, WHOLE, ColumnOf
<1>2. PICK u : u = applyColumns(Fresh, off)
  OBVIOUS
<1>3. TableRecord(u) /\ SizeFits(u) /\ OrderShown(u, off)
  BY <1>1, <1>2, ColumnsApplied
<1>4. 1 \in DOMAIN Feeds
  BY OblastTableAssumption
<1> QED  BY <1>2, <1>3, <1>4, RenderedTable DEF Opened

LEMMA TableInitInv == OblastTableInit => TableInv
<1> SUFFICES ASSUME OblastTableInit PROVE TableInv
  OBVIOUS
<1>1. PICK saved \in SavedColumns : columnsOff = restoreColumns(saved)
  BY DEF OblastTableInit
<1>2. columnsOff \subseteq ColumnSet /\ ShownColumns(columnsOff) # {}
  BY <1>1, RestoreShows, OblastTableAssumption
<1>3. Rendered(table, feed, tongue) /\ OrderShown(table, columnsOff)
  BY <1>2, OpenedKeeps DEF OblastTableInit
<1>4. feed \in DOMAIN Feeds /\ HighlightOn /\ columnsStored = columnsOff
  <2>1. Len(<<>>) = 0
    OBVIOUS
  <2> QED  BY <2>1, OblastTableAssumption DEF OblastTableInit, HighlightOn
<1> QED  BY <1>2, <1>3, <1>4 DEF TableInv, ColumnsKept

\* The reader's own changes of the table: it is rendered for what is on screen.
LEMMA RedrawsKeep ==
  ASSUME TableInv, NEW t, TableRecord(t), OrderShown(t, columnsOff),
         SizeFits(t) \/ t.lastCount = -1,
         Redraws(t), UNCHANGED <<feed, tongue, columnVars>>, HighlightOn'
  PROVE  TableInv'
<1>1. feed \in DOMAIN Feeds
  BY DEF TableInv
<1>2. Rendered(table', feed, tongue) /\ OrderShown(table', columnsOff)
  BY <1>1, RenderedTable DEF Redraws
<1>3. UNCHANGED <<feed, tongue, columnsOff, columnsStored>>
  BY DEF columnVars
<1>4. Rendered(table', feed', tongue') /\ OrderShown(table', columnsOff')
  BY <1>2, <1>3
<1>5. ColumnsKept'
  BY <1>3 DEF TableInv, ColumnsKept
<1> HIDE DEF Redraws
<1> QED  BY <1>1, <1>3, <1>4, <1>5 DEF TableInv

\* A table that keeps its size, with whatever search, filter, order and page.
LEMMA Edited ==
  ASSUME NEW t, TableRecord(t), NEW k, NEW d, NEW x, NEW w, NEW p \in Int
  PROVE  LET u == [key |-> k, dir |-> d, q |-> x, filter |-> w,
                   perPage |-> t.perPage, page |-> p, lastCount |-> t.lastCount]
         IN TableRecord(u) /\ (SizeFits(t) => SizeFits(u)) /\ u.key = k /\ u.lastCount = t.lastCount
<1>1. t.perPage \in Nat /\ t.lastCount \in Int
  BY DEF TableRecord
<1> QED  BY <1>1 DEF TableRecord, SizeFits

\* The search changes and the first page is shown.
LEMMA SearchKeeps ==
  ASSUME TableInv, NEW x, Redraws([table EXCEPT !.q = x, !.page = 1]),
         UNCHANGED <<feed, tongue, columnVars>>, HighlightOn'
  PROVE  TableInv'
<1>1. TableRecord(table) /\ SizeFits(table) /\ OrderShown(table, columnsOff)
  BY DEF TableInv, Rendered
<1>2. PICK u : u = [table EXCEPT !.q = x, !.page = 1]
  OBVIOUS
<1>3. u = [key |-> table.key, dir |-> table.dir, q |-> x, filter |-> table.filter,
           perPage |-> table.perPage, page |-> 1, lastCount |-> table.lastCount]
  BY <1>1, <1>2 DEF TableRecord
<1>4. TableRecord(u) /\ SizeFits(u) /\ u.key = table.key
  BY <1>1, <1>3, Edited
<1>5. OrderShown(u, columnsOff) /\ Redraws(u)
  BY <1>1, <1>2, <1>4 DEF OrderShown
<1> QED  BY <1>4, <1>5, RedrawsKeep

\* Only so many rows can be offered.
LEMMA OffersCounted ==
  ASSUME NEW t, NEW f \in DOMAIN Feeds, NEW l
  PROVE  Len(optionRows(t, f, l)) \in Nat
<1>1. PICK offered : offered = {r \in OfTable(f) : matches(t, f, l, r)}
  OBVIOUS
<1>2. PICK n : n = Cardinality(offered)
  OBVIOUS
<1>3. n \in Nat
  <2>1. OfTable(f) = 1 .. Len(Feeds[f]) /\ Len(Feeds[f]) \in Nat
    BY OblastTableAssumption DEF OfTable
  <2>2. IsFiniteSet(OfTable(f)) /\ offered \subseteq OfTable(f)
    BY <1>1, <2>1, FS_Interval
  <2> QED  BY <1>2, <2>2, FS_Subset, FS_CardinalityType
<1>4. PICK before : optionRows(t, f, l) = Sorted(offered, before)
  BY <1>1 DEF optionRows
<1>5. PICK g : g = Sorted(offered, before)
  OBVIOUS
<1>6. PICK T : g \in [1 .. n -> T]
  <2> DEFINE F(i) == CHOOSE x \in offered : Cardinality({y \in offered : <<y, x>> \in before}) = i - 1
  <2>1. g = [i \in 1 .. n |-> F(i)]
    BY <1>2, <1>5 DEF Sorted
  <2> HIDE DEF F
  <2>2. PICK T : T = {g[i] : i \in 1 .. n}
    OBVIOUS
  <2>3. g = [i \in 1 .. n |-> g[i]]
    BY <2>1
  <2>4. g \in [1 .. n -> T]
    BY ONLY <2>2, <2>3
  <2> QED  BY <2>4
<1>7. g \in Seq(T) /\ DOMAIN g = 1 .. n
  BY ONLY <1>3, <1>6
<1> QED  BY ONLY <1>3, <1>4, <1>5, <1>7

\* Whoever closes the list or leaves it alone leaves the highlight right.
LEMMA HighlightStays ==
  ASSUME TableInv, UNCHANGED listboxVars \/ (Len(options') \in Nat /\ activeIndex' = -1)
  PROVE  HighlightOn'
  BY DEF TableInv, HighlightOn, listboxVars

LEMMA TableNextInv == TableInv /\ [OblastTableNext]_tableVars => TableInv'
<1> SUFFICES ASSUME TableInv, [OblastTableNext]_tableVars PROVE TableInv'
  OBVIOUS
<1>a. TableRecord(table) /\ SizeFits(table) /\ OrderShown(table, columnsOff) /\ feed \in DOMAIN Feeds
  BY DEF TableInv, Rendered
<1>b. ColumnsKept /\ columnsOff \in SUBSET ColumnSet /\ ShownColumns(columnsOff) # {}
  BY DEF TableInv, ColumnsKept
<1>c. table.page \in Int /\ table.perPage \in Nat /\ table.lastCount \in Int
  BY <1>a DEF TableRecord
<1>d. ASSUME UNCHANGED <<feed, tongue, table, columnVars>>, HighlightOn'
      PROVE  TableInv'
  BY <1>d DEF TableInv, ColumnsKept, columnVars
<1>1. CASE HeadPressed
  <2>1. PICK k \in {"name"} \cup {KeyOf[c] : c \in ShownColumns(columnsOff)} :
          Redraws([table EXCEPT !.key = k, !.page = 1,
                     !.dir = IF table.key = k
                             THEN IF @ = "ascending" THEN "descending" ELSE "ascending"
                             ELSE IF k = "name" THEN "ascending" ELSE "descending"])
    BY <1>1 DEF HeadPressed
  <2>2. PICK d : d = IF table.key = k
                     THEN IF table.dir = "ascending" THEN "descending" ELSE "ascending"
                     ELSE IF k = "name" THEN "ascending" ELSE "descending"
    OBVIOUS
  <2>3. PICK u : u = [table EXCEPT !.key = k, !.page = 1,
                        !.dir = IF table.key = k
                                THEN IF @ = "ascending" THEN "descending" ELSE "ascending"
                                ELSE IF k = "name" THEN "ascending" ELSE "descending"]
    OBVIOUS
  <2>4. u = [key |-> k, dir |-> d, q |-> table.q, filter |-> table.filter,
             perPage |-> table.perPage, page |-> 1, lastCount |-> table.lastCount]
    BY <1>a, <2>2, <2>3 DEF TableRecord
  <2>5. TableRecord(u) /\ SizeFits(u) /\ u.key = k
    BY <1>a, <2>4, Edited
  <2>6. OrderShown(u, columnsOff)
    <3>1. CASE k = "name"
      BY <2>5, <3>1 DEF OrderShown
    <3>2. CASE k # "name"
      <4>1. PICK c \in ShownColumns(columnsOff) : k = KeyOf[c]
        BY <2>1, <3>2
      <4>2. c \in ColumnSet /\ c \notin columnsOff
        BY <4>1 DEF ShownColumns, ColumnSet
      <4> QED  BY <2>5, <4>1, <4>2, ThreeColumns DEF OrderShown
    <3> QED  BY <3>1, <3>2
  <2>7. Redraws(u)
    BY <2>1, <2>3
  <2>8. UNCHANGED <<feed, tongue, columnVars>> /\ HighlightOn'
    BY <1>1, HighlightStays DEF HeadPressed
  <2> QED  BY <2>5, <2>6, <2>7, <2>8, RedrawsKeep
<1>2. CASE Type
  <2>1. PICK text \in Typed, adding \in BOOLEAN : applyQuery(text, adding /\ text # "")
    BY <1>2 DEF Type
  <2>2. Redraws([table EXCEPT !.q = text, !.page = 1]) /\ activeIndex' = -1
    BY <2>1 DEF applyQuery
  <2>3. UNCHANGED <<feed, tongue, columnVars>>
    BY <1>2 DEF Type
  <2>4. Len(options') \in Nat
    BY <1>a, <2>1, OffersCounted DEF applyQuery, openList
  <2>5. HighlightOn'
    BY <2>2, <2>4, HighlightStays
  <2> QED  BY <2>2, <2>3, <2>5, SearchKeeps
<1>3. CASE FocusField \/ LeaveField \/ Arrow \/ HomeOrEnd
  <2>1. UNCHANGED <<feed, tongue, table, columnVars>>
    BY <1>3 DEF FocusField, LeaveField, Arrow, HomeOrEnd
  <2>2. HighlightOn
    BY DEF TableInv
  <2>3. CASE FocusField
    <3>1. Len(options') \in Nat /\ activeIndex' = activeIndex /\ ~listShown
      BY <1>a, <2>3, OffersCounted DEF FocusField, openList
    <3> QED  BY <1>d, <2>1, <2>2, <3>1 DEF HighlightOn
  <2>4. CASE LeaveField
    <3>1. Len(options') \in Nat /\ activeIndex' = -1
      BY <2>2, <2>4 DEF LeaveField, closeList, HighlightOn
    <3> QED  BY <1>d, <2>1, <3>1 DEF HighlightOn
  <2>5. CASE Arrow
    <3>1. listShown' /\ Len(options') \in Nat
      <4>1. CASE listShown
        BY <2>2, <2>5, <4>1 DEF Arrow, HighlightOn
      <4>2. CASE ~listShown
        BY <1>a, <2>5, <4>2, OffersCounted DEF Arrow, openList
      <4> QED  BY <4>1, <4>2
    <3>2. activeIndex = -1 \/ (options' = options /\ activeIndex \in 0 .. Len(options') - 1)
      BY <2>2, <2>5 DEF Arrow, HighlightOn
    <3>3. PICK step \in {1, -1}, n \in Nat :
            /\ n = Len(options')
            /\ activeIndex' = IF n = 0 THEN activeIndex
                              ELSE IF activeIndex + step >= n THEN 0
                              ELSE IF activeIndex + step < 0 THEN n - 1 ELSE activeIndex + step
      BY <2>5, <3>1 DEF Arrow
    <3>4. activeIndex' = -1 \/ activeIndex' \in 0 .. n - 1
      BY <3>2, <3>3
    <3> QED  BY <1>d, <2>1, <3>1, <3>3, <3>4 DEF HighlightOn
  <2>6. CASE HomeOrEnd
    <3>1. listShown' /\ options' = options /\ Len(options) > 0 /\ activeIndex' \in {0, Len(options) - 1}
      BY <2>6 DEF HomeOrEnd
    <3> QED  BY <1>d, <2>1, <2>2, <3>1 DEF HighlightOn
  <2> QED  BY <1>3, <2>3, <2>4, <2>5, <2>6
<1>4. CASE ChooseOption
  <2>1. PICK x : Redraws([table EXCEPT !.q = x, !.page = 1])
    BY <1>4 DEF ChooseOption
  <2>2. UNCHANGED <<feed, tongue, columnVars>> /\ activeIndex' = -1 /\ options' = options
    BY <1>4 DEF ChooseOption, closeList
  <2>3. HighlightOn'
    BY <2>2, HighlightStays DEF TableInv, HighlightOn
  <2> QED  BY <2>1, <2>2, <2>3, SearchKeeps
<1>5. CASE EscapeField
  <2>1. UNCHANGED <<feed, tongue, columnVars>> /\ HighlightOn'
    <3>1. UNCHANGED <<feed, tongue, columnVars>> /\ activeIndex' = -1
          /\ options' = IF listShown THEN options ELSE optionRows([table EXCEPT !.q = ""], feed, tongue)
      BY <1>5 DEF EscapeField
    <3>2. Len(options') \in Nat
      BY <1>a, <3>1, OffersCounted DEF TableInv, HighlightOn
    <3> QED  BY <3>1, <3>2, HighlightStays
  <2>2. CASE listShown
    BY <1>5, <1>d, <2>1, <2>2 DEF EscapeField
  <2>3. CASE ~listShown
    BY <1>5, <2>1, <2>3, SearchKeeps DEF EscapeField
  <2> QED  BY <2>2, <2>3
<1>6. CASE ChoosePerPage
  <2>1. PICK n \in {WHOLE} \cup sizesFor(table.lastCount) : Redraws([table EXCEPT !.perPage = n, !.page = 1])
    BY <1>6 DEF ChoosePerPage
  <2>2. n \in Nat
    BY <1>c, <2>1, SizesDivide DEF WHOLE
  <2>3. PICK u : u = [table EXCEPT !.perPage = n, !.page = 1]
    OBVIOUS
  <2>4. u = [key |-> table.key, dir |-> table.dir, q |-> table.q, filter |-> table.filter,
             perPage |-> n, page |-> 1, lastCount |-> table.lastCount]
    BY <1>a, <2>3 DEF TableRecord
  <2>5. TableRecord(u)
    BY <1>c, <2>2, <2>4 DEF TableRecord
  <2>6. SizeFits(u) /\ OrderShown(u, columnsOff)
    BY <1>a, <2>1, <2>4 DEF SizeFits, OrderShown
  <2>7. UNCHANGED <<feed, tongue, columnVars>> /\ HighlightOn' /\ Redraws(u)
    BY <1>6, <2>1, <2>3, HighlightStays DEF ChoosePerPage
  <2> QED  BY <2>5, <2>6, <2>7, RedrawsKeep DEF TableInv
<1>7. CASE TurnPage
  <2>1. PICK last : last = pagesOf(table, feed, Len(Visible(table, feed, tongue)))
    OBVIOUS
  <2>2. PICK p \in {1, table.page - 1, table.page + 1, last} : Redraws([table EXCEPT !.page = p])
    BY <1>7, <2>1 DEF TurnPage
  <2>3. last \in Int
    <3>1. PICK S : Climbs(S, Visible(table, feed, tongue)) /\ Len(Visible(table, feed, tongue)) = Cardinality(S)
                   /\ Cardinality(S) <= Len(Feeds[feed])
      BY <1>a, VisibleClimbs
    <3>2. Cardinality(S) \in Nat
      BY <3>1 DEF Climbs
    <3> QED  BY <1>a, <1>c, <2>1, <3>1, <3>2, PagesOf
  <2>4. p \in Int
    BY <1>c, <2>2, <2>3
  <2>5. PICK u : u = [table EXCEPT !.page = p]
    OBVIOUS
  <2>6. u = [key |-> table.key, dir |-> table.dir, q |-> table.q, filter |-> table.filter,
             perPage |-> table.perPage, page |-> p, lastCount |-> table.lastCount]
    BY <1>a, <2>5 DEF TableRecord
  <2>7. TableRecord(u) /\ SizeFits(u) /\ u.key = table.key
    BY <1>a, <2>4, <2>6, Edited
  <2>8. OrderShown(u, columnsOff)
    BY <1>a, <2>7 DEF OrderShown
  <2>9. UNCHANGED <<feed, tongue, columnVars>> /\ HighlightOn' /\ Redraws(u)
    BY <1>7, <2>2, <2>5, HighlightStays DEF TurnPage
  <2> QED  BY <2>7, <2>8, <2>9, RedrawsKeep DEF TableInv
<1>8. CASE ChooseFilter
  <2>1. PICK w : Redraws([table EXCEPT !.filter = w, !.page = 1])
    BY <1>8 DEF ChooseFilter
  <2>2. PICK u : u = [table EXCEPT !.filter = w, !.page = 1]
    OBVIOUS
  <2>3. u = [key |-> table.key, dir |-> table.dir, q |-> table.q, filter |-> w,
             perPage |-> table.perPage, page |-> 1, lastCount |-> table.lastCount]
    BY <1>a, <2>2 DEF TableRecord
  <2>4. TableRecord(u) /\ SizeFits(u) /\ u.key = table.key
    BY <1>a, <2>3, Edited
  <2>5. OrderShown(u, columnsOff)
    BY <1>a, <2>4 DEF OrderShown
  <2>6. UNCHANGED <<feed, tongue, columnVars>> /\ HighlightOn' /\ Redraws(u)
    BY <1>8, <2>1, <2>2, HighlightStays DEF ChooseFilter
  <2> QED  BY <2>4, <2>5, <2>6, RedrawsKeep DEF TableInv
<1>9. CASE SwitchColumn
  <2>1. PICK c, off :
          /\ c \in ColumnSet
          /\ off = (IF c \in columnsOff THEN columnsOff \ {c} ELSE columnsOff \cup {c})
          /\ ShownColumns(columnsOff) # {c}
          /\ columnsOff' = off /\ columnsStored' = off
          /\ Redraws(applyColumns(table, off))
    BY <1>9 DEF SwitchColumn, ColumnSet
  <2>2. off \in SUBSET ColumnSet /\ ShownColumns(off) # {}
    BY <1>b, <2>1 DEF ShownColumns, ColumnSet
  <2>3. table.key \in {"name"} \cup DOMAIN ColumnOf
    BY <1>a DEF OrderShown
  <2>4. PICK u : u = applyColumns(table, off)
    OBVIOUS
  <2>5. TableRecord(u) /\ SizeFits(u) /\ OrderShown(u, off)
    BY <1>a, <2>2, <2>3, <2>4, ColumnsApplied
  <2>6. Rendered(table', feed, tongue) /\ OrderShown(table', off)
    BY <1>a, <2>1, <2>4, <2>5, RenderedTable DEF Redraws
  <2>7. UNCHANGED <<feed, tongue>> /\ HighlightOn'
    BY <1>9, HighlightStays DEF SwitchColumn
  <2>8. Rendered(table', feed', tongue') /\ OrderShown(table', columnsOff')
    BY <2>1, <2>6, <2>7
  <2>9. ColumnsKept'
    BY <2>1, <2>2 DEF ColumnsKept, ShownColumns
  <2> QED  BY <1>a, <2>7, <2>8, <2>9 DEF TableInv
<1>10. CASE DataChange
  <2>1. feed' \in DOMAIN Feeds /\ table' = render(table, feed', tongue)
    BY <1>10 DEF DataChange
  <2>2. Rendered(table', feed', tongue) /\ OrderShown(table', columnsOff)
    BY <1>a, <2>1, RenderedTable
  <2>3. UNCHANGED <<tongue, columnsOff, columnsStored>> /\ HighlightOn'
    BY <1>10, HighlightStays DEF DataChange, columnVars
  <2>4. ColumnsKept'
    BY <1>b, <2>3 DEF ColumnsKept
  <2> QED  BY <2>1, <2>2, <2>3, <2>4 DEF TableInv
<1>11. CASE LanguageChange
  <2>1. PICK u : u = [table EXCEPT !.q = field, !.lastCount = -1]
    OBVIOUS
  <2>2. u = [key |-> table.key, dir |-> table.dir, q |-> field, filter |-> table.filter,
             perPage |-> table.perPage, page |-> table.page, lastCount |-> -1]
    BY <1>a, <2>1 DEF TableRecord
  <2>3. TableRecord(u) /\ u.lastCount = -1
    BY <1>c, <2>2 DEF TableRecord
  <2>4. OrderShown(u, columnsOff)
    BY <1>a, <2>2 DEF OrderShown
  <2>5. table' = render(u, feed, tongue')
    BY <1>11, <2>1 DEF LanguageChange
  <2>6. Rendered(table', feed, tongue') /\ OrderShown(table', columnsOff)
    BY <1>a, <2>3, <2>4, <2>5, RenderedTable
  <2>7. UNCHANGED <<feed, columnsOff, columnsStored>> /\ HighlightOn'
    BY <1>11, HighlightStays DEF LanguageChange, columnVars
  <2>8. ColumnsKept'
    BY <1>b, <2>7 DEF ColumnsKept
  <2> QED  BY <1>a, <2>6, <2>7, <2>8 DEF TableInv
<1>12. CASE Reload
  <2>1. PICK off : off = restoreColumns(columnsStored)
    OBVIOUS
  <2>2. columnsOff' = off /\ columnsStored' = off /\ feed' = 1 /\ tongue' = "bg" /\ table' = Opened(off)
        /\ activeIndex' = -1 /\ options' = <<>>
    BY <1>12, <2>1 DEF Reload
  <2>3. columnsStored \in SUBSET ColumnSet
    BY <1>b DEF ColumnsKept
  <2>4. IsFiniteSet(columnsStored)
    BY <2>3, ThreeColumns, FS_Subset
  <2>5. off \in SUBSET ColumnSet /\ ShownColumns(off) # {}
    BY <2>1, <2>4, RestoreShows
  <2>6. Rendered(Opened(off), 1, "bg") /\ OrderShown(Opened(off), off)
    BY <2>5, OpenedKeeps
  <2>7. Rendered(table', feed', tongue') /\ OrderShown(table', columnsOff')
    BY <2>2, <2>6
  <2>8. ColumnsKept'
    BY <2>2, <2>5 DEF ColumnsKept, ShownColumns
  <2>9. HighlightOn'
    <3>1. Len(<<>>) = 0
      OBVIOUS
    <3>2. Len(options') \in Nat
      BY ONLY <2>2, <3>1
    <3> QED  BY <2>2, <3>2, HighlightStays
  <2> QED  BY <2>2, <2>7, <2>8, <2>9, OblastTableAssumption DEF TableInv
<1>13. CASE UNCHANGED tableVars
  <2>1. HighlightOn'
    BY <1>13, HighlightStays DEF tableVars, listboxVars
  <2> QED  BY <1>13, <1>d, <2>1 DEF tableVars, columnVars
<1> QED  BY <1>1, <1>2, <1>3, <1>4, <1>5, <1>6, <1>7, <1>8, <1>9, <1>10, <1>11, <1>12, <1>13
         DEF OblastTableNext

\* A page of a size that divides the count is full.
LEMMA PageIsFull ==
  ASSUME NEW n \in Nat, NEW d \in sizesFor(n), NEW p \in 1 .. (n + d - 1) \div d
  PROVE  0 <= (p - 1) * d /\ (p - 1) * d + d <= n /\ d >= 3
<1>1. d \in 3 .. n - 1 /\ n % d = 0
  BY SizesDivide
<1>2. PICK q : q = n \div d
  OBVIOUS
<1>3. q \in Int /\ n = d * q
  BY <1>1, <1>2, QuotientBounds
<1>4. (n + d - 1) \div d = q
  <2>1. d * q <= n + d - 1 /\ n + d - 1 < d * q + d /\ n + d - 1 \in Int /\ d > 0 /\ d \in Int
    BY <1>1, <1>3
  <2> QED  BY <1>3, <2>1, QuotientIs
<1>5. p \in Int /\ 1 <= p /\ p <= q
  BY <1>3, <1>4
<1>6. (p - 1) * d + d = p * d
  BY <1>1, <1>5
<1>7. p * d <= q * d /\ q * d = n
  BY <1>1, <1>3, <1>5
<1>8. 0 <= (p - 1) * d
  BY <1>1, <1>5
<1> QED  BY <1>1, <1>6, <1>7, <1>8

LEMMA InvKeepsRules == TableInv => TableKeepsItsRules
<1> SUFFICES ASSUME TableInv PROVE TableKeepsItsRules
  OBVIOUS
<1>1. PICK S : /\ Climbs(S, Visible(table, feed, tongue)) /\ S \subseteq OfTable(feed)
               /\ Len(Visible(table, feed, tongue)) = Cardinality(S)
               /\ DOMAIN Visible(table, feed, tongue) = 1 .. Cardinality(S)
               /\ Cardinality(S) <= Len(Feeds[feed])
  BY VisibleClimbs DEF TableInv
<1>2. PICK v, n, page, d, from :
        /\ v = Visible(table, feed, tongue) /\ n = Len(v) /\ page = OnPage(table, feed, tongue)
        /\ d = pageSize(table, feed) /\ from = (table.page - 1) * d
  OBVIOUS
<1>3. n \in Nat /\ n = Cardinality(S) /\ Climbs(S, v) /\ DOMAIN v = 1 .. n
  BY <1>1, <1>2 DEF Climbs
<1>4. page = {v[i] : i \in (1 .. n) \cap (from + 1 .. from + d)}
  BY <1>2, <1>3 DEF OnPage
<1>5. /\ table.lastCount = n /\ SizeFits(table) /\ table.page \in 1 .. pagesOf(table, feed, n)
      /\ table.perPage \in Nat /\ table.page \in Int /\ OrderShown(table, columnsOff)
  BY <1>2 DEF TableInv, Rendered, TableRecord
<1>6. S \subseteq Int
  <2>1. PICK m : m = Len(Feeds[feed]) /\ m \in Nat /\ OfTable(feed) = 1 .. m
    BY OblastTableAssumption DEF OfTable, TableInv
  <2> QED  BY <1>1, <2>1
<1>7. ASSUME table.perPage # WHOLE
      PROVE  table.perPage \in sizesFor(n) /\ Cardinality(page) = table.perPage /\ table.perPage >= 3
  <2>1. table.perPage \in sizesFor(n) /\ d = table.perPage
    BY <1>2, <1>5, <1>7 DEF SizeFits, pageSize
  <2>2. n # 0
    BY <1>3, <2>1, SizesDivide
  <2>3. table.page \in 1 .. (n + d - 1) \div d
    BY <1>2, <1>5, <2>2 DEF pagesOf
  <2>4. 0 <= from /\ from + d <= n /\ d >= 3
    BY <1>2, <1>3, <2>1, <2>3, PageIsFull
  <2>5. from \in Int /\ d \in Int
    BY <1>2, <1>5, <2>1
  <2>6. page = {v[i] : i \in from + 1 .. from + d}
    <3>1. (1 .. n) \cap (from + 1 .. from + d) = from + 1 .. from + d
      BY <1>3, <2>4, <2>5
    <3> QED  BY <1>4, <3>1
  <2>8. Cardinality(page) = d
    <3>1. PICK a, b : a = from + 1 /\ b = from + d
      OBVIOUS
    <3>2. /\ a \in Int /\ b \in Int /\ 1 <= a /\ b <= Cardinality(S) /\ a <= b + 1
          /\ page = Stretch(v, a, b)
      BY <1>3, <2>4, <2>5, <2>6, <3>1 DEF Stretch
    <3>3. Cardinality(page) = b - a + 1
      BY ZenonT(60), <1>3, <1>6, <3>2, StretchCount
    <3> QED  BY <2>5, <3>1, <3>3
  <2> QED  BY <2>1, <2>4, <2>8
<1>8. n > 0 => page # {}
  <2> SUFFICES ASSUME n > 0 PROVE page # {}
    OBVIOUS
  <2>1. CASE table.perPage # WHOLE
    <3>1. Cardinality(page) >= 3
      BY <1>7, <2>1
    <3> QED  BY <3>1, FS_EmptySet
  <2>2. CASE table.perPage = WHOLE
    <3>1. d = Len(Feeds[feed]) /\ n <= d /\ d \in Nat
      BY <1>1, <1>2, <1>3, <2>2, OblastTableAssumption DEF pageSize, TableInv
    <3>2. pagesOf(table, feed, n) = (n + d - 1) \div d
      BY <1>2, <1>3 DEF pagesOf
    <3>3. (n + d - 1) \div d = 1
      <4>1. d * 1 <= n + d - 1 /\ n + d - 1 < d * 1 + d /\ d > 0 /\ d \in Int /\ n + d - 1 \in Int
        BY <1>3, <3>1
      <4> QED  BY <4>1, QuotientIs
    <3>4. table.page = 1
      BY <1>5, <3>2, <3>3
    <3>5. from = 0
      BY <1>2, <3>1, <3>4
    <3>6. 1 \in (1 .. n) \cap (from + 1 .. from + d)
      BY <1>3, <3>1, <3>5
    <3> QED  BY <1>4, <3>6
  <2> QED  BY <2>1, <2>2
<1>9. \A a, b \in page : hasData(feed, b) /\ ~hasData(feed, a) => ~tableBefore(table, feed, tongue, a, b)
  <2> SUFFICES ASSUME NEW a \in page, NEW b \in page, hasData(feed, b), ~hasData(feed, a)
               PROVE  ~tableBefore(table, feed, tongue, a, b)
    OBVIOUS
  <2>1. Less(table, feed, tongue, b, a) /\ ~Less(table, feed, tongue, a, b)
    BY DEF Less, hasData
  <2> QED  BY <2>1 DEF tableBefore
<1>10. ShownColumns(columnsOff) # {} /\ columnsStored = columnsOff
  BY DEF TableInv, ColumnsKept
<1>11. table.key # "name" => ColumnOf[table.key] \in ShownColumns(columnsOff)
  BY <1>5, ThreeColumns DEF OrderShown, ShownColumns, ColumnSet
<1>12. activeIndex # -1 => listShown /\ activeIndex \in 0 .. Len(options) - 1
  BY DEF TableInv, HighlightOn
<1> QED  BY <1>2, <1>5, <1>7, <1>8, <1>9, <1>10, <1>11, <1>12 DEF TableKeepsItsRules

\* The province table of the kit: for any rows, readings and names, after any gestures
\* and any refresh, no measured row stands below a silent one, every page of a chosen
\* size is full, no page is past the end, the order's column is on screen, a column
\* always is and what is stored is what is hidden, and a highlight is on an option of the
\* open list.
THEOREM TableAlwaysKeepsRules == OblastTableSpec => []TableKeepsItsRules
  BY TableInitInv, TableNextInv, InvKeepsRules, PTL DEF OblastTableSpec

-----------------------------------------------------------------------------
(***************************************************************************)
(* A pan and a zoom keep their place in the drawing, for any province, any *)
(* pan, any turn of the wheel and any place tried in the frame.            *)
(*                                                                         *)
(* Scales are whole thousandths and places whole units, so each division   *)
(* loses something; the arithmetic shows that what is lost stays within    *)
(* the property's tolerance.  It needs the scale on screen to be large:    *)
(* a province may be shrunk only until it is as small as the country, and  *)
(* the country only to CMIN, where its own scale is exact.                 *)
(***************************************************************************)
Fits == {0, 1000} \cup 2500 .. 6600
KitView(v) ==
  /\ v = [mode |-> v.mode, k |-> v.k, dx |-> v.dx, fit |-> v.fit, vk |-> v.vk]
  /\ v.mode \in {"country", "province"} /\ v.k \in 151 .. KMAX /\ v.dx \in Int
  /\ v.fit \in Fits /\ v.vk \in Nat \ {0}

\* A province's fit is of the province the page is about, and the reader's scale is not
\* below the floor of the view's framing.
CameraOK(v, s) ==
  /\ KitView(v)
  /\ v.fit \in {0, 1000} \/ (s # Unshaped /\ v.fit = FitOf[s])
  /\ v.k >= minK(v)

\* What a draw leaves.
IsDrawn(v, s) ==
  /\ s = Unshaped => v.mode = "country"
  /\ v.fit = IF v.mode = "province" THEN FitOf[s] ELSE 1000
  /\ v.vk = (v.fit * v.k) \div 1000
  /\ CountryLeft - half(v.vk) <= Base(v, s) + v.dx /\ Base(v, s) + v.dx <= CountryRight + half(v.vk)

\* The buttons say what the camera they drive can do.
ButtonsTrue ==
  /\ tileCamera = "none" /\ ~plusOff => view.k < PLUS_LIMIT
  /\ tileCamera = "none" /\ ~minusOff => view.k > CMIN \/ (view.mode = "province" /\ about # Unshaped)
  /\ tileCamera = "loaded" => /\ ~plusOff => tileZoom < 170
                              /\ ~minusOff => tileZoom > 45
                              /\ ~backOff

CameraInv ==
  /\ about \in Subjects /\ tileZoom \in Int
  /\ CameraOK(view, about)
  /\ ~assetsIn => view.fit = 0 /\ drawDue
  /\ ~drawDue => IsDrawn(view, about) /\ middle = Base(view, about) + view.dx
  /\ ButtonsTrue

-----------------------------------------------------------------------------
(* What the divisions lose. *)

LEMMA TimesMonotone ==
  ASSUME NEW x \in Int, NEW y \in Int, x <= y, NEW m \in Nat
  PROVE  x * m <= y * m
  OBVIOUS

LEMMA TimesStrict ==
  ASSUME NEW x \in Int, NEW y \in Int, x < y, NEW m \in Nat \ {0}
  PROVE  x * m < y * m
  OBVIOUS

\* A scale of k times F, cut to whole numbers of T, loses e.
Cut(T, F, k, v, e) ==
  /\ T \in Nat \ {0} /\ F \in Int /\ k \in Int /\ v \in Int /\ e \in Int
  /\ F * k = T * v + e /\ 0 <= e /\ e < T

LEMMA CutTimes ==
  ASSUME NEW T, NEW F, NEW k, NEW v, NEW e, Cut(T, F, k, v, e), NEW x \in Int
  PROVE  (x * v) * T = F * (x * k) - x * e /\ x * v \in Int /\ x * k \in Int /\ F * (x * k) \in Int /\ x * e \in Int
<1>1. T \in Int /\ F \in Int /\ k \in Int /\ v \in Int /\ e \in Int /\ F * k = T * v + e
  BY DEF Cut
<1>2. x * (F * k) = x * (T * v + e)
  BY <1>1
<1>3. x * (F * k) = F * (x * k) /\ x * (T * v + e) = (x * v) * T + x * e
  BY <1>1
<1>4. PICK p, q, r \in Int : p = F * (x * k) /\ q = (x * v) * T /\ r = x * e
  BY <1>1
<1>5. p = q + r
  BY <1>2, <1>3, <1>4
<1> QED  BY <1>1, <1>4, <1>5

\* a is t cut to whole numbers of v.
Whole(t, v, a) ==
  /\ t \in Int /\ v \in Int /\ v > 0 /\ a \in Int
  /\ a * v <= t /\ t < a * v + v

\* The same t, cut at two scales.
LEMMA Crossing ==
  ASSUME NEW t, NEW v, NEW w, NEW a, NEW b, Whole(t, v, a), Whole(t, w, b)
  PROVE  b * w < (a + 1) * v
<1>0. /\ t \in Int /\ v \in Int /\ v > 0 /\ a \in Int /\ w \in Int /\ w > 0 /\ b \in Int
      /\ t < a * v + v /\ b * w <= t
  BY DEF Whole
<1>1. (a + 1) * v = a * v + v
  BY <1>0
<1>2. PICK x, y \in Int : x = a * v /\ y = b * w
  BY <1>0
<1> QED  BY <1>0, <1>1, <1>2

\* One scale's multiple below another's, in the units of the reader's scales.
LEMMA CutsCross ==
  ASSUME NEW T, NEW F, NEW k, NEW v, NEW e, Cut(T, F, k, v, e),
         NEW l, NEW w, NEW d, Cut(T, F, l, w, d),
         NEW x \in Int, NEW y \in Int, x * v < y * w, NEW W \in Int, x * e - y * d <= W
  PROVE  F * (x * k) < F * (y * l) + W
<1>1. T \in Nat \ {0}
  BY DEF Cut
<1>2. (x * v) * T = F * (x * k) - x * e /\ x * v \in Int /\ F * (x * k) \in Int /\ x * e \in Int
  BY ONLY Cut(T, F, k, v, e), x \in Int, CutTimes
<1>3. (y * w) * T = F * (y * l) - y * d /\ y * w \in Int /\ F * (y * l) \in Int /\ y * d \in Int
  BY ONLY Cut(T, F, l, w, d), y \in Int, CutTimes
<1>4. (x * v) * T < (y * w) * T
  BY ONLY <1>1, <1>2, <1>3, x * v < y * w, TimesStrict
<1>5. PICK p, q, r, s \in Int : p = F * (x * k) /\ q = x * e /\ r = F * (y * l) /\ s = y * d
  BY ONLY <1>2, <1>3
<1>6. p - q < r - s /\ q - s <= W
  BY ONLY <1>2, <1>3, <1>4, <1>5, x * e - y * d <= W
<1>7. p < r + W
  BY ONLY <1>6, p \in Int, q \in Int, r \in Int, s \in Int, W \in Int
<1> QED  BY ONLY <1>5, <1>7

\* What roundings e and d of two scales are worth to shares a and b of them: W at most.
Worth(W, a, b, e, d) ==
  /\ W \in Nat
  /\ b * d - (a + 1) * e <= W
  /\ a * e - (b + 1) * d <= W

LEMMA NothingWorth ==
  ASSUME NEW a \in Int, NEW b \in Int
  PROVE  Worth(0, a, b, 0, 0)
  BY DEF Worth

\* At most A shares of a rounding, or less than none of them.
Share(a, A) == (0 <= a /\ a <= A) \/ (a < 0 /\ -A <= a + 1)

LEMMA ShareWorth ==
  ASSUME NEW A \in Nat, NEW a \in Int, Share(a, A), NEW D \in Nat, NEW e \in 0 .. D
  PROVE  /\ a * e \in Int /\ (a + 1) * e \in Int /\ A * D \in Int
         /\ a >= 0 => 0 <= a * e /\ a * e <= A * D /\ 0 <= (a + 1) * e
         /\ a < 0 => a * e <= 0 /\ -(A * D) <= (a + 1) * e /\ (a + 1) * e <= 0
<1>1. e * A <= D * A /\ e * A = A * e /\ D * A = A * D
  BY TimesMonotone
<1>2. CASE a >= 0
  <2>1. 0 <= a /\ a <= A /\ 0 <= a + 1 /\ e \in Nat /\ a + 1 \in Int
    BY <1>2 DEF Share
  <2>2. 0 * e <= a * e /\ a * e <= A * e /\ 0 * e <= (a + 1) * e
    BY <2>1, TimesMonotone
  <2>3. PICK p, q, r, z \in Int : p = a * e /\ q = (a + 1) * e /\ r = A * e /\ z = A * D
    OBVIOUS
  <2>4. 0 <= p /\ p <= r /\ 0 <= q /\ r <= z
    BY ONLY <1>1, <2>2, <2>3, e \in 0 .. D
  <2> QED  BY ONLY <1>2, <2>3, <2>4, a \in Int
<1>3. CASE a < 0
  <2>1. a <= 0 /\ -A <= a + 1 /\ a + 1 <= 0 /\ e \in Nat /\ a + 1 \in Int /\ -A \in Int
    BY <1>3 DEF Share
  <2>2. a * e <= 0 * e /\ (-A) * e <= (a + 1) * e /\ (a + 1) * e <= 0 * e
    BY <2>1, TimesMonotone
  <2>3. PICK p, q, r, z \in Int : p = a * e /\ q = (a + 1) * e /\ r = A * e /\ z = A * D
    OBVIOUS
  <2>4. p <= 0 /\ -r <= q /\ q <= 0 /\ r <= z
    BY ONLY <1>1, <2>2, <2>3, e \in 0 .. D, A \in Nat
  <2> QED  BY ONLY <1>3, <2>3, <2>4, a \in Int
<1> QED  BY ONLY <1>2, <1>3, a \in Int

Rounding(e, D) == D \in Nat /\ e \in 0 .. D

LEMMA RoundingWorth ==
  ASSUME NEW A \in Nat, NEW a \in Int, NEW b \in Int, Share(a, A), Share(b, A), a >= 0 <=> b >= 0,
         NEW D, NEW e, NEW d, Rounding(e, D), Rounding(d, D), NEW W, W = A * D
  PROVE  Worth(W, a, b, e, d)
<1> D \in Nat /\ e \in 0 .. D /\ d \in 0 .. D
  BY DEF Rounding
<1>1. /\ a * e \in Int /\ (a + 1) * e \in Int /\ A * D \in Int
      /\ a >= 0 => 0 <= a * e /\ a * e <= A * D /\ 0 <= (a + 1) * e
      /\ a < 0 => a * e <= 0 /\ -(A * D) <= (a + 1) * e /\ (a + 1) * e <= 0
  BY ONLY A \in Nat, a \in Int, Share(a, A), D \in Nat, e \in 0 .. D, ShareWorth
<1>2. /\ b * d \in Int /\ (b + 1) * d \in Int
      /\ b >= 0 => 0 <= b * d /\ b * d <= A * D /\ 0 <= (b + 1) * d
      /\ b < 0 => b * d <= 0 /\ -(A * D) <= (b + 1) * d /\ (b + 1) * d <= 0
  BY ONLY A \in Nat, b \in Int, Share(b, A), D \in Nat, d \in 0 .. D, ShareWorth
<1>3. PICK p, q, r, s, z \in Int : p = a * e /\ q = (a + 1) * e /\ r = b * d /\ s = (b + 1) * d /\ z = A * D
  BY <1>1, <1>2
<1>4. A * D \in Nat
  OBVIOUS
<1>5. r - q <= z /\ p - s <= z
  BY ONLY <1>1, <1>2, <1>3, a >= 0 <=> b >= 0, a \in Int, b \in Int
<1>6. W = z /\ z \in Nat
  BY ONLY <1>3, <1>4, W = A * D
<1> QED  BY ONLY <1>3, <1>5, <1>6 DEF Worth

\* A pointer s in the frame, in units at a scale of 990 at least.
Pointer(s, t) == s \in -463 .. 463 /\ t = 1000 * s

LEMMA PointerUnits ==
  ASSUME NEW s, NEW t, Pointer(s, t), NEW v, v >= 990, NEW a, Whole(t, v, a)
  PROVE  Share(a, 467) /\ (a >= 0 <=> s >= 0)
<1> s \in -463 .. 463 /\ v \in Int /\ a \in Int /\ a * v <= 1000 * s /\ 1000 * s < a * v + v
  BY DEF Whole, Pointer
<1>1. ASSUME a >= 468 PROVE FALSE
  <2>1. a * v >= 468 * v
    BY <1>1
  <2> QED  BY <2>1
<1>2. ASSUME a + 1 <= -468 PROVE FALSE
  <2>1. (a + 1) * v <= -468 * v
    BY <1>2
  <2>2. (a + 1) * v = a * v + v
    OBVIOUS
  <2> QED  BY <2>1, <2>2
<1>3. ASSUME s >= 0, a < 0 PROVE FALSE
  <2>1. (a + 1) * v <= 0
    BY <1>3
  <2>2. (a + 1) * v = a * v + v
    OBVIOUS
  <2> QED  BY <1>3, <2>1, <2>2
<1>4. ASSUME s < 0, a >= 0 PROVE FALSE
  <2>1. a * v >= 0
    BY <1>4
  <2> QED  BY <1>4, <2>1
<1>5. a <= 467 /\ -467 <= a + 1
  BY <1>1, <1>2
<1>6. a >= 0 <=> s >= 0
  BY <1>3, <1>4
<1> QED  BY <1>5, <1>6 DEF Share

\* With W for what the scales' rounding is worth, E whole units are within the tolerance.
LEMMA ZoomCore ==
  ASSUME NEW F \in Int, F > 0, NEW M \in Int, M <= 151 * 250, NEW k \in 151 .. M, NEW k1 \in 151 .. M,
         NEW W \in Nat, 2 * W <= F * k1, NEW E \in Int, F * E * k1 < F * k + W,
         NEW f \in Nat \ {0}, k1 >= k \/ k * f < 1000 * (k1 + 1)
  PROVE  E <= 2 + 1000 \div f
<1>1. PICK q : q = 1000 \div f
  OBVIOUS
<1>2. q \in Nat /\ f * q <= 1000 /\ 1000 < f * q + f
  <2>1. q \in Int /\ f * q <= 1000 /\ 1000 < f * q + f
    BY <1>1, QuotientBounds
  <2> QED  BY <2>1
<1>3. F * E * k1 = (F * k1) * E
  OBVIOUS
<1>4. PICK g \in Int : g = F * k1 /\ g > 0 /\ 2 * W <= g
  OBVIOUS
<1>t. F \in Int /\ F > 0 /\ k \in Int /\ 151 <= k /\ k <= M /\ M \in Int /\ M <= 151 * 250 /\ k1 \in Int /\ 151 <= k1
      /\ W \in Nat /\ E \in Int /\ f \in Nat /\ f # 0 /\ q \in Nat /\ g \in Int /\ g > 0 /\ 2 * W <= g
  BY <1>2, <1>4
<1>5. g * E < F * k + W
  BY <1>3, <1>4
<1>6. CASE k1 >= k
  <2>1. F * k <= g
    BY <1>4, <1>6
  <2>2. PICK x, y \in Int : x = F * k /\ y = g * E
    OBVIOUS
  <2>3. y < x + W /\ x <= g
    BY <1>5, <2>1, <2>2
  <2>4. y < g * 2
    BY ONLY <1>t, <2>2, <2>3
  <2>5. E < 2
    BY <1>4, <2>2, <2>4
  <2> QED  BY <1>1, <1>2, <2>5
<1>7. CASE k * f < 1000 * (k1 + 1)
  <2> SUFFICES ASSUME E >= q + 3 PROVE FALSE
    BY <1>1, <1>2
  <2>1. g * (q + 3) <= g * E
    BY <1>2, <1>4
  <2>2. PICK x \in Int : x = F * k
    OBVIOUS
  <2>a. g * (q + 3) < x + W
    <3>1. PICK y, z \in Int : y = g * (q + 3) /\ z = g * E
      BY <1>2
    <3>2. y <= z /\ z < x + W
      BY <1>5, <2>1, <2>2, <3>1
    <3> QED  BY <3>1, <3>2
  <2>3. CASE f >= 5
    <3>1. (g * (q + 3)) * f < (x + W) * f
      BY <1>2, <1>4, <2>a
    <3>2. x * f < 1000 * g + 1000 * F
      <4>1. x * f = F * (k * f)
        BY <2>2
      <4>2. PICK kf \in Int : kf = k * f
        OBVIOUS
      <4>3. F * kf < F * (1000 * (k1 + 1))
        BY <1>7, <4>2
      <4>4. F * (1000 * (k1 + 1)) = 1000 * g + 1000 * F
        BY <1>4
      <4>5. PICK y, z, w \in Int : y = F * kf /\ z = F * (1000 * (k1 + 1)) /\ w = x * f
        OBVIOUS
      <4>6. w = y /\ y < z /\ z = 1000 * g + 1000 * F
        BY <4>1, <4>2, <4>3, <4>4, <4>5
      <4> QED  BY ONLY <1>t, <4>5, <4>6
    <3>4. 1000 * g <= g * (f * q + f)
      <4>1. PICK y \in Int : y = f * q + f /\ 1000 <= y
        BY <1>2
      <4>2. 1000 * g <= y * g
        BY ONLY <1>t, <4>1
      <4>3. y * g = g * y
        OBVIOUS
      <4> QED  BY ONLY <1>t, <4>1, <4>2, <4>3
    <3>5. (g * (q + 3)) * f = g * (f * q + f) + 2 * (g * f)
      BY <1>2, <1>4
    <3>6. PICK gf, wf, xf, A, B \in Int :
            /\ gf = g * f /\ wf = W * f /\ xf = x * f
            /\ A = (g * (q + 3)) * f /\ B = g * (f * q + f)
      BY <1>2
    <3>a. (x + W) * f = xf + wf
      BY <3>6
    <3>b. A < xf + wf /\ xf < 1000 * g + 1000 * F /\ 1000 * g <= B /\ A = B + 2 * gf
      BY <3>1, <3>2, <3>4, <3>5, <3>6, <3>a
    <3>7. 2 * wf <= gf
      <4>1. (2 * W) * f <= g * f
        BY <1>4
      <4>2. (2 * W) * f = 2 * (W * f)
        OBVIOUS
      <4> QED  BY <3>6, <4>1, <4>2
    <3>8. 3 * gf < 2000 * F
      BY <3>b, <3>7
    <3>9. gf = F * (k1 * f)
      BY <1>4, <3>6
    <3>10. PICK kf \in Int : kf = k1 * f /\ kf >= 755
      <4>1. k1 * f >= 151 * f
        OBVIOUS
      <4>2. 151 * f >= 755
        BY <2>3
      <4>3. PICK kf \in Int : kf = k1 * f
        OBVIOUS
      <4>5. PICK w \in Int : w = 151 * f
        OBVIOUS
      <4>6. kf >= w /\ w >= 755
        BY ONLY <4>1, <4>2, <4>3, <4>5
      <4>4. kf >= 755
        BY <4>6
      <4> QED  BY <4>3, <4>4
    <3>11. F * kf >= F * 755
      BY <3>10
    <3> QED  BY <3>8, <3>9, <3>10, <3>11
  <2>4. CASE f < 5
    <3>1. q >= 250
      BY <1>2, <2>4
    <3>2. PICK y \in Int : y = g * (q + 3) /\ g * 253 <= y
      BY <1>2, <1>4, <3>1
    <3>3. x <= F * (151 * 250)
      BY <2>2
    <3>4. F * 151 <= g
      BY <1>4
    <3>5. y < x + W
      BY <2>a, <3>2
    <3>6. x \in Int /\ y \in Int /\ 253 * g <= y
      BY <2>2, <3>2
    <3> QED  BY ONLY <1>t, <3>6, <3>3, <3>4, <3>5
  <2> QED  BY <2>3, <2>4
<1> QED  BY <1>6, <1>7

\* The quotient of an integer, with its two bounds in the order the lemmas above take.
LEMMA CutAt ==
  ASSUME NEW t \in Int, NEW v \in Int, v > 0, NEW a, a = t \div v
  PROVE  Whole(t, v, a)
<1>1. a \in Int /\ v * a <= t /\ t < v * a + v
  BY QuotientBounds
<1> QED  BY <1>1 DEF Whole

\* Some W bounds what the roundings are worth to the pointer's units, and is small.
Small(a, b, e, d, F, l) == \E W \in Nat : Worth(W, a, b, e, d) /\ 2 * W <= F * l

LEMMA SmallWorth ==
  ASSUME NEW F, NEW k \in Int, NEW l \in Int, k > 0, l > 0, NEW v, NEW w, NEW e, NEW d,
         Cut(1000, F, k, v, e), Cut(1000, F, l, w, d), F = 1000 \/ (v >= 990 /\ w >= 990),
         NEW s, NEW t, Pointer(s, t), NEW a, NEW b, Whole(t, v, a), Whole(t, w, b)
  PROVE  Small(a, b, e, d, F, l)
<1>1. v \in Int /\ w \in Int /\ F \in Int /\ F * k = 1000 * v + e /\ F * l = 1000 * w + d
      /\ e \in 0 .. 999 /\ d \in 0 .. 999
  BY DEF Cut
<1> e \in 0 .. 999 /\ d \in 0 .. 999
  BY <1>1
<1> a \in Int /\ b \in Int
  BY DEF Whole
<1>2. CASE F = 1000
  <2>1. e = 0 /\ d = 0
    <3>1. 1000 * k = 1000 * v + e /\ 1000 * l = 1000 * w + d
      BY ONLY <1>1, <1>2
    <3>2. 1000 * (k - v) = e /\ 1000 * (l - w) = d
      BY ONLY <1>1, <3>1, k \in Int, l \in Int, e \in 0 .. 999, d \in 0 .. 999
    <3>3. PICK m, n \in Int : m = k - v /\ n = l - w
      BY ONLY <1>1, k \in Int, l \in Int
    <3>4. 1000 * m = e /\ 1000 * n = d
      BY ONLY <3>2, <3>3
    <3> QED  BY ONLY <3>4, m \in Int, n \in Int, e \in 0 .. 999, d \in 0 .. 999
  <2>2. Worth(0, a, b, e, d)
    BY <2>1, NothingWorth
  <2>3. 2 * 0 <= F * l /\ 0 \in Nat
    BY ONLY <1>2, l \in Int, l > 0
  <2> QED  BY ONLY <2>2, <2>3 DEF Small
<1>3. CASE v >= 990 /\ w >= 990
  <2>0. v \in Int /\ w \in Int /\ v >= 990 /\ w >= 990
    BY ONLY <1>1, <1>3
  <2>1. Share(a, 467) /\ (a >= 0 <=> s >= 0)
    BY ONLY <2>0, Pointer(s, t), Whole(t, v, a), PointerUnits
  <2>4. Share(b, 467) /\ (b >= 0 <=> s >= 0)
    BY ONLY <2>0, Pointer(s, t), Whole(t, w, b), PointerUnits
  <2>5. 467 \in Nat /\ 999 \in Nat /\ (a >= 0 <=> b >= 0)
    BY ONLY <2>1, <2>4
  <2>6. PICK W, A, D : A = 467 /\ D = 999 /\ W = 467 * 999
    OBVIOUS
  <2>7. Share(a, A) /\ Share(b, A) /\ A \in Nat /\ Rounding(e, D) /\ Rounding(d, D) /\ W = A * D
    BY ONLY <2>1, <2>4, <2>6, e \in 0 .. 999, d \in 0 .. 999 DEF Rounding
  <2>2. Worth(W, a, b, e, d)
    BY ONLY <2>5, <2>7, a \in Int, b \in Int, RoundingWorth
  <2>3. 2 * W <= F * l /\ W \in Nat
    BY ONLY <1>1, <1>3, <2>6, d \in 0 .. 999
  <2> QED  BY ONLY <2>2, <2>3 DEF Small
<1> QED  BY <1>2, <1>3

\* A zoom about a pointer: the place under it moves by c + b - a.
Zoomed(F, M, k, l, v, w, f) ==
  /\ F \in Int /\ F > 0 /\ M \in Int /\ M <= 151 * 250 /\ k \in 151 .. M /\ l \in 151 .. M
  /\ v > 0 /\ w > 0 /\ (F = 1000 \/ (v >= 990 /\ w >= 990))
  /\ f \in Nat \ {0} /\ (l >= k \/ k * f < 1000 * (l + 1))
Shift(c, k, l, a) == c = (a * (l - k)) \div l
Moved(c, b, a, f) == c + b - a \in -(2 + 1000 \div f) .. 2 + 1000 \div f

LEMMA ZoomNear ==
  ASSUME NEW F, NEW M, NEW k, NEW l, NEW v, NEW w, NEW f, Zoomed(F, M, k, l, v, w, f),
         NEW e, NEW d, Cut(1000, F, k, v, e), Cut(1000, F, l, w, d),
         NEW s, NEW t, Pointer(s, t), NEW a, NEW b, Whole(t, v, a), Whole(t, w, b), NEW c, Shift(c, k, l, a)
  PROVE  Moved(c, b, a, f)
<1> /\ F \in Int /\ F > 0 /\ M \in Int /\ M <= 151 * 250 /\ k \in 151 .. M /\ l \in 151 .. M
    /\ v > 0 /\ w > 0 /\ (F = 1000 \/ (v >= 990 /\ w >= 990))
    /\ f \in Nat \ {0} /\ (l >= k \/ k * f < 1000 * (l + 1)) /\ c = (a * (l - k)) \div l
  BY DEF Zoomed, Shift
<1>1. v \in Int /\ w \in Int /\ e \in 0 .. 999 /\ d \in 0 .. 999
  BY DEF Cut
<1>u. Pointer(s, t)
  OBVIOUS
<1>s. Whole(t, v, a) /\ Whole(t, w, b)
  OBVIOUS
<1>2. a \in Int
  BY <1>s DEF Whole
<1>3. b \in Int
  BY <1>s DEF Whole
<1>4. b * w < (a + 1) * v /\ a * v < (b + 1) * w
  BY ONLY <1>s, Crossing
<1>5. PICK W \in Nat : Worth(W, a, b, e, d) /\ 2 * W <= F * l
  <2>1. k \in Int /\ l \in Int /\ k > 0 /\ l > 0
    OBVIOUS
  <2>2. F = 1000 \/ (v >= 990 /\ w >= 990)
    OBVIOUS
  <2>3. Small(a, b, e, d, F, l)
    BY ONLY <1>u, <1>s, <2>1, <2>2, Cut(1000, F, k, v, e), Cut(1000, F, l, w, d), SmallWorth
  <2> QED  BY ONLY <2>3 DEF Small
<1>p. PICK m, n \in Int : m = a + 1 /\ n = b + 1
  BY ONLY <1>2, <1>3
<1>6. b * d - m * e <= W /\ a * e - n * d <= W
  BY ONLY <1>5, <1>p DEF Worth
<1>q. b * w < m * v /\ a * v < n * w
  BY ONLY <1>4, <1>p
<1>7. F * (b * l) < F * ((a + 1) * k) + W
  <2>1. F * (b * l) < F * (m * k) + W
    BY ONLY <1>3, <1>q, <1>6, m \in Int, W \in Nat, Cut(1000, F, l, w, d), Cut(1000, F, k, v, e), CutsCross
  <2> QED  BY ONLY <1>p, <2>1
<1>8. F * (a * k) < F * ((b + 1) * l) + W
  <2>1. F * (a * k) < F * (n * l) + W
    BY ONLY <1>2, <1>q, <1>6, n \in Int, W \in Nat, Cut(1000, F, l, w, d), Cut(1000, F, k, v, e), CutsCross
  <2> QED  BY ONLY <1>p, <2>1
<1>9. c \in Int /\ c * l <= a * (l - k) /\ a * (l - k) < c * l + l
  <2>1. PICK x \in Int : x = a * (l - k)
    BY <1>2
  <2>2. c = x \div l /\ l \in Int /\ l > 0
    BY <2>1
  <2>3. Whole(x, l, c)
    BY ONLY <2>2, x \in Int, CutAt
  <2> QED  BY ONLY <2>1, <2>3 DEF Whole
<1>10. PICK E \in Int : E = c + b - a
  BY <1>2, <1>3, <1>9
<1>11. E * l <= b * l - a * k /\ b * l - a * k < E * l + l
  <2>1. E * l = c * l + b * l - a * l /\ a * (l - k) = a * l - a * k
    BY <1>2, <1>3, <1>9, <1>10
  <2>2. PICK p, q, r, x, y \in Int : p = c * l /\ q = b * l /\ r = a * l /\ x = a * k /\ y = E * l
    BY <1>2, <1>3, <1>9
  <2>3. y = p + q - r /\ p <= r - x /\ r - x < p + l
    BY ONLY <1>9, <2>1, <2>2
  <2>4. y <= q - x /\ q - x < y + l
    BY ONLY <2>3, p \in Int, q \in Int, r \in Int, x \in Int, y \in Int, l \in 151 .. M, M \in Int
  <2> QED  BY ONLY <2>2, <2>4
<1>12. F * (E * l) <= F * (b * l) - F * (a * k) /\ F * (b * l) - F * (a * k) < F * (E * l) + F * l
  <2>1. PICK q, x, y \in Int : q = b * l /\ x = a * k /\ y = E * l
    BY <1>2, <1>3
  <2>2. y <= q - x /\ q - x < y + l
    BY ONLY <1>11, <2>1
  <2>3. y * F <= (q - x) * F /\ (q - x) * F < (y + l) * F
    BY <2>2, TimesMonotone, TimesStrict
  <2>4. y * F = F * y /\ (q - x) * F = F * q - F * x /\ (y + l) * F = F * y + F * l
    OBVIOUS
  <2> QED  BY ONLY <2>1, <2>3, <2>4
<1>13. F * ((a + 1) * k) = F * (a * k) + F * k /\ F * ((b + 1) * l) = F * (b * l) + F * l
  <2>1. (a + 1) * k = a * k + k /\ (b + 1) * l = b * l + l
    BY <1>2, <1>3
  <2>2. PICK x, y \in Int : x = a * k /\ y = b * l
    BY <1>2, <1>3
  <2>3. F * (x + k) = F * x + F * k /\ F * (y + l) = F * y + F * l
    OBVIOUS
  <2> QED  BY ONLY <2>1, <2>2, <2>3
<1>14. PICK p, q, r, g, y \in Int : p = F * (b * l) /\ q = F * (a * k) /\ r = F * k /\ g = F * l /\ y = F * (E * l)
  BY <1>2, <1>3
<1>15. y <= p - q /\ p - q < y + g /\ p < q + r + W /\ q < p + g + W /\ 2 * W <= g
  BY ONLY <1>5, <1>7, <1>8, <1>12, <1>13, <1>14
<1>t. p \in Int /\ q \in Int /\ r \in Int /\ g \in Int /\ y \in Int /\ W \in Nat
  OBVIOUS
<1>16. E <= 2 + 1000 \div f
  <2>1. y < r + W
    BY ONLY <1>15, <1>t
  <2>2. F * E * l < F * k + W
    <3>1. F * E * l = F * (E * l)
      OBVIOUS
    <3> QED  BY ONLY <1>14, <2>1, <3>1
  <2> QED  BY ONLY <1>5, <2>2, F \in Int, F > 0, M \in Int, M <= 151 * 250, k \in 151 .. M, l \in 151 .. M,
                  E \in Int, f \in Nat \ {0}, l >= k \/ k * f < 1000 * (l + 1), ZoomCore
<1>17. E >= -2
  <2> SUFFICES ASSUME E <= -3 PROVE FALSE
    OBVIOUS
  <2>1. E * g <= (-3) * g /\ g > 0
    <3>1. g > 0
      BY <1>14
    <3> QED  BY <3>1, TimesMonotone
  <2>2. y = E * g
    BY <1>14
  <2>3. y <= -3 * g
    BY ONLY <2>1, <2>2, <1>t
  <2> QED  BY ONLY <1>15, <1>t, <2>1, <2>3
<1>18. 1000 \div f \in Nat
  BY QuotientBounds
<1>19. PICK x \in Nat : x = 1000 \div f
  BY <1>18
<1>20. E <= 2 + x /\ -2 <= E
  BY ONLY <1>16, <1>17, <1>19, E \in Int
<1>21. E \in -(2 + x) .. 2 + x
  BY ONLY <1>20, E \in Int, x \in Nat
<1> QED  BY ONLY <1>10, <1>19, <1>21 DEF Moved

-----------------------------------------------------------------------------
(* What a draw and a control do to a view. *)

LEMMA Limits == KMAX \in Int /\ PLUS_LIMIT < KMAX /\ PLUS_LIMIT \in Int /\ KMAX <= 151 * 250 /\ CMIN = 550 /\ 1000 < KMAX
  BY DEF KMAX, CMIN, PLUS_LIMIT

\* The floor of a framing: the country's, or the scale at which the province is as small.
LEMMA FloorsKept ==
  ASSUME NEW v, KitView(v)
  PROVE  /\ minK(v) \in 151 .. 550
         /\ v.mode = "country" \/ v.fit \in {0, 1000} => minK(v) = 550
         /\ v.mode = "province" /\ v.fit \notin {0, 1000} =>
              \E n \in Nat : minK(v) = lesser(550, n) /\ v.fit * n <= 1000 * 1000 /\ 1000 * 1000 < v.fit * n + v.fit
<1>1. v.mode \in {"country", "province"} /\ v.fit \in Fits
  BY DEF KitView
<1>2. CASE v.mode = "country" \/ v.fit = 0
  BY <1>1, <1>2 DEF minK, CMIN, lesser, Fits
<1>3. CASE v.mode = "province" /\ v.fit # 0
  <2>1. v.fit \in Int /\ v.fit >= 1000 /\ v.fit <= 6600
    <3>1. PICK x : x = v.fit
      OBVIOUS
    <3>2. x \in {0, 1000} \cup 2500 .. 6600 /\ x # 0
      BY ONLY <1>1, <1>3, <3>1 DEF Fits
    <3>3. x = 1000 \/ x \in 2500 .. 6600
      BY ONLY <3>2
    <3>4. x = 1000 => x \in Int /\ x >= 1000 /\ x <= 6600
      OBVIOUS
    <3>5. x \in 2500 .. 6600 => x \in Int /\ x >= 1000 /\ x <= 6600
      OBVIOUS
    <3> QED  BY ONLY <3>1, <3>3, <3>4, <3>5
  <2>2. PICK n : n = 1000000 \div v.fit
    OBVIOUS
  <2>3. minK(v) = lesser(550, n)
    BY <1>3, <2>2 DEF minK, CMIN
  <2>4. PICK t \in Int : t = 1000000 /\ t = 1000 * 1000
    OBVIOUS
  <2>5. n \in Int /\ v.fit * n <= t /\ t < v.fit * n + v.fit
    BY ONLY <2>1, <2>2, <2>4, QuotientBounds
  <2>6. n >= 151
    <3> SUFFICES ASSUME n <= 150 PROVE FALSE
      BY <2>5
    <3>1. (n + 1) * v.fit <= 151 * v.fit
      BY <2>1, <2>5, TimesMonotone
    <3>2. (n + 1) * v.fit = v.fit * n + v.fit
      BY <2>1, <2>5
    <3>3. 151 * v.fit <= 151 * 6600
      BY <2>1
    <3>4. PICK x \in Int : x = v.fit * n + v.fit
      BY <2>1, <2>5
    <3>5. x <= 151 * 6600 /\ 1000 * 1000 < x
      BY ONLY <2>1, <2>4, <2>5, <3>1, <3>2, <3>3, <3>4
    <3> QED  BY ONLY <3>4, <3>5
  <2>7. v.fit = 1000 => n = 1000
    BY ONLY <2>2
  <2>8. minK(v) \in 151 .. 550 /\ (n = 1000 => minK(v) = 550)
    BY <2>3, <2>5, <2>6 DEF lesser
  <2>9. n \in Nat /\ v.fit * n <= 1000 * 1000 /\ 1000 * 1000 < v.fit * n + v.fit
    BY <2>4, <2>5, <2>6
  <2> QED  BY <1>3, <2>3, <2>7, <2>8, <2>9
<1> QED  BY <1>1, <1>2, <1>3

LEMMA Clamped ==
  ASSUME NEW v, KitView(v), NEW z \in Int, NEW c, c = clampK(z, v)
  PROVE  c \in 151 .. KMAX /\ c >= minK(v) /\ (c = KMAX \/ c >= z) /\ (c = minK(v) \/ c <= z)
<1>1. minK(v) \in 151 .. 550
  BY FloorsKept
<1>2. PICK m : m = minK(v)
  OBVIOUS
<1>3. c = lesser(KMAX, greater(m, z))
  BY <1>2 DEF clampK
<1> QED  BY <1>1, <1>2, <1>3, Limits DEF lesser, greater

LEMMA HalfNat == ASSUME NEW n \in Nat \ {0} PROVE half(n) \in Nat
<1>1. PICK q : q = (FRAME_W * 500) \div n
  OBVIOUS
<1>2. PICK t \in Nat : t = FRAME_W * 500
  BY DEF FRAME_W
<1>3. q \in Int /\ n * q <= t /\ t < n * q + n
  BY <1>1, <1>2, QuotientBounds
<1>4. q >= 0
  <2> SUFFICES ASSUME q <= -1 PROVE FALSE
    BY <1>3
  <2>1. (q + 1) * n <= 0 * n
    BY <1>3, TimesMonotone
  <2>2. (q + 1) * n = n * q + n
    BY <1>3
  <2> QED  BY <1>2, <1>3, <2>1, <2>2
<1> QED  BY <1>1, <1>3, <1>4 DEF half

LEMMA MiddleIsPlace == ASSUME NEW s \in Subjects, NEW v, s # Unshaped \/ v.mode # "province" PROVE Base(v, s) \in Int
  BY KitCameraAssumption DEF Base, FRAME_W

\* What may be drawn for a subject: also another subject's framing, at its own scale.
Drawable(v, s) == CameraOK(v, s) \/ (KitView(v) /\ v.k >= 550)

LEMMA DrawKeeps ==
  ASSUME NEW s \in Subjects, NEW v, Drawable(v, s), NEW d, d = KitDrawn(v, s)
  PROVE  /\ CameraOK(d, s) /\ IsDrawn(d, s) /\ d.k = v.k
         /\ d.mode = IF s = Unshaped THEN "country" ELSE v.mode
         /\ d.mode = v.mode => \/ Base(d, s) + d.dx \in {CountryLeft - half(d.vk), CountryRight + half(d.vk)}
                               \/ Base(d, s) + d.dx = Base(v, s) + v.dx
<1>1. KitView(v) /\ v.k \in Int /\ v.k >= 151 /\ v.dx \in Int /\ v.k \in 151 .. KMAX
      /\ v = [mode |-> v.mode, k |-> v.k, dx |-> v.dx, fit |-> v.fit, vk |-> v.vk]
      /\ v.mode \in {"country", "province"}
  BY Limits DEF Drawable, CameraOK, KitView
<1>2. PICK u : u = IF s = Unshaped THEN [v EXCEPT !.mode = "country"] ELSE v
  OBVIOUS
<1>3. PICK m : m = IF s = Unshaped THEN "country" ELSE v.mode
  OBVIOUS
<1>4. u = [mode |-> m, k |-> v.k, dx |-> v.dx, fit |-> v.fit, vk |-> v.vk]
  BY <1>1, <1>2, <1>3
<1>5. PICK fit : fit = IF u.mode = "province" THEN FitOf[s] ELSE 1000
  OBVIOUS
<1>6. PICK vk : vk = (fit * u.k) \div 1000
  OBVIOUS
<1>7. PICK want : want = Base(u, s) + u.dx
  OBVIOUS
<1>8. PICK got : got = lesser(CountryRight + half(vk), greater(CountryLeft - half(vk), want))
  OBVIOUS
<1>9. PICK dx : dx = u.dx + got - want
  OBVIOUS
<1>10. d = [u EXCEPT !.fit = fit, !.vk = vk, !.dx = dx]
  BY <1>2, <1>5, <1>6, <1>7, <1>8, <1>9 DEF KitDrawn
<1>11. d = [mode |-> m, k |-> v.k, dx |-> dx, fit |-> fit, vk |-> vk]
  BY ONLY <1>4, <1>10
<1>12. m \in {"country", "province"} /\ (s = Unshaped => m = "country")
  BY <1>1, <1>3
<1>13. fit \in Int /\ fit >= 1000 /\ fit \in {1000} \cup 2500 .. 6600
       /\ fit = IF m = "province" THEN FitOf[s] ELSE 1000
  <2>1. u.mode = m
    BY <1>4
  <2>2. fit = IF m = "province" THEN FitOf[s] ELSE 1000
    BY <1>5, <2>1
  <2>3. CASE m = "province"
    <3>1. s \in Subjects \ {Unshaped}
      BY <1>12, <2>3
    <3>2. FitOf[s] \in 2500 .. 6600
      BY ONLY <3>1, KitCameraAssumption
    <3>3. fit \in 2500 .. 6600
      BY ONLY <2>2, <2>3, <3>2
    <3>4. fit \in Int /\ fit >= 1000
      BY ONLY <3>3
    <3> QED  BY ONLY <2>2, <3>3, <3>4
  <2>4. CASE m # "province"
    BY ONLY <2>2, <2>4
  <2> QED  BY <2>3, <2>4
<1>14. vk \in Nat \ {0}
  <2>1. PICK t \in Int : t = fit * u.k /\ t >= 1000
    <3>1. u.k = v.k
      BY <1>4
    <3>2. 1000 * v.k <= fit * v.k
      <4>1. v.k \in Nat
        BY <1>1
      <4>2. fit \in Int /\ 1000 <= fit /\ 1000 \in Int
        BY ONLY <1>13
      <4> QED  BY ONLY <4>1, <4>2, TimesMonotone
    <3>3. PICK t \in Int : t = fit * v.k
      BY <1>1, <1>13
    <3> QED  BY <1>1, <3>1, <3>2, <3>3
  <2>2. vk \in Int /\ 1000 * vk <= t /\ t < 1000 * vk + 1000
    BY <1>6, <2>1, QuotientBounds
  <2> QED  BY <2>1, <2>2
<1>15. PICK h \in Nat : h = half(vk)
  BY <1>14, HalfNat
<1>16. PICK b \in Int : b = Base(u, s) /\ b = Base(d, s)
  <2>1. Base(u, s) = Base(d, s)
    BY <1>4, <1>11 DEF Base
  <2>2. d.mode = m
    BY <1>11
  <2> QED  BY <1>12, <2>1, <2>2, MiddleIsPlace
<1>17. want \in Int /\ want = b + v.dx
  BY <1>1, <1>4, <1>7, <1>16
<1>18. got \in Int /\ 14 - h <= got /\ got <= 912 + h /\ got \in {14 - h, 912 + h, want}
  BY <1>8, <1>15, <1>17 DEF lesser, greater, CountryLeft, CountryRight
<1>19. dx \in Int /\ b + dx = got
  BY <1>1, <1>4, <1>9, <1>17, <1>18
<1>20. IsDrawn(d, s)
  <2>1. Base(d, s) + d.dx = got
    BY <1>11, <1>16, <1>19
  <2>2. d.fit = fit /\ d.vk = vk /\ d.k = v.k /\ d.mode = m /\ u.k = v.k
    BY <1>4, <1>11
  <2> QED  BY ONLY <1>6, <1>12, <1>13, <1>15, <1>18, <2>1, <2>2 DEF IsDrawn, CountryLeft, CountryRight
<1>21. KitView(d)
  BY SMTT(60), <1>1, <1>11, <1>12, <1>13, <1>14, <1>19 DEF KitView, Fits
<1>22. d.k >= minK(d)
  <2>2. minK(d) \in 151 .. 550
    BY <1>21, FloorsKept
  <2>7. CASE v.k >= 550
    <3>1. d.k = v.k
      BY <1>11
    <3> QED  BY ONLY <1>1, <2>2, <2>7, <3>1
  <2> SUFFICES ASSUME CameraOK(v, s) PROVE d.k >= minK(d)
    BY <2>7 DEF Drawable
  <2>1. v.k >= minK(v)
    BY DEF CameraOK
  <2>3. v.mode = "country" \/ v.fit \in {0, 1000} => minK(v) = 550
    BY <1>1, FloorsKept
  <2>4. d.k = v.k /\ d.mode = m /\ d.fit = fit
    BY <1>11
  <2>5. CASE v.mode = "country" \/ v.fit \in {0, 1000}
    BY <1>1, <2>1, <2>2, <2>3, <2>4, <2>5
  <2>6. CASE v.mode = "province" /\ v.fit \notin {0, 1000}
    <3>1. s # Unshaped /\ v.fit = FitOf[s]
      BY <2>6 DEF CameraOK
    <3>2. m = v.mode /\ fit = v.fit
      BY <1>3, <1>13, <2>6, <3>1
    <3>3. minK(d) = minK(v)
      BY <2>4, <3>2 DEF minK
    <3> QED  BY <2>1, <2>4, <3>3
  <2> QED  BY <1>1, <2>5, <2>6
<1>23. CameraOK(d, s)
  <2>1. d.fit \in {0, 1000} \/ (s # Unshaped /\ d.fit = FitOf[s])
    BY <1>11, <1>12, <1>13
  <2> QED  BY <1>21, <1>22, <2>1 DEF CameraOK
<1>24. d.mode = m /\ d.k = v.k
  BY <1>11
<1>25. d.mode = v.mode => \/ Base(d, s) + d.dx \in {CountryLeft - half(d.vk), CountryRight + half(d.vk)}
                          \/ Base(d, s) + d.dx = Base(v, s) + v.dx
  <2>1. Base(d, s) + d.dx = got /\ d.vk = vk
    BY <1>11, <1>16, <1>19
  <2>2. d.mode = v.mode => Base(v, s) = b
    BY <1>16 DEF Base
  <2> QED  BY ONLY <1>15, <1>17, <1>18, <2>1, <2>2 DEF CountryLeft, CountryRight
<1> QED  BY <1>3, <1>20, <1>23, <1>24, <1>25

\* A view at another scale, within the floor, or of another framing of the subject.
ScaledTo(u, v, z, dx) == z \in Int /\ dx \in Int /\ u = [v EXCEPT !.k = clampK(z, v), !.dx = dx]

LEMMA ScaledOK ==
  ASSUME NEW s, NEW v, CameraOK(v, s), NEW z, NEW dx, NEW u, ScaledTo(u, v, z, dx)
  PROVE  CameraOK(u, s) /\ u.k = clampK(z, v) /\ u.dx = dx /\ u.mode = v.mode /\ u.fit = v.fit /\ u.vk = v.vk
<1> z \in Int /\ dx \in Int /\ u = [v EXCEPT !.k = clampK(z, v), !.dx = dx]
  BY DEF ScaledTo
<1>1. KitView(v) /\ v = [mode |-> v.mode, k |-> v.k, dx |-> v.dx, fit |-> v.fit, vk |-> v.vk]
  BY DEF CameraOK, KitView
<1>2. PICK c : c = clampK(z, v)
  OBVIOUS
<1>3. c \in 151 .. KMAX /\ c >= minK(v)
  BY <1>1, <1>2, Clamped
<1>4. u = [mode |-> v.mode, k |-> c, dx |-> dx, fit |-> v.fit, vk |-> v.vk]
  BY ONLY <1>1, <1>2, u = [v EXCEPT !.k = clampK(z, v), !.dx = dx]
<1>5. u.k = c /\ u.dx = dx /\ u.mode = v.mode /\ u.fit = v.fit /\ u.vk = v.vk
  BY ONLY <1>4
<1>6. minK(u) = minK(v)
  BY ONLY <1>5 DEF minK
<1>7. KitView(u)
  BY ONLY <1>1, <1>3, <1>4, <1>5, dx \in Int DEF KitView
<1>8. CameraOK(u, s)
  <2>1. v.fit \in {0, 1000} \/ (s # Unshaped /\ v.fit = FitOf[s])
    BY DEF CameraOK
  <2> QED  BY ONLY <1>3, <1>5, <1>6, <1>7, <2>1 DEF CameraOK
<1> QED  BY <1>2, <1>5, <1>8

LEMMA FramedOK ==
  ASSUME NEW v, KitView(v), NEW mode \in {"country", "province"}, NEW u, u = Framed(v, mode)
  PROVE  /\ KitView(u) /\ u.k >= minK(u)
         /\ u.mode = mode /\ u.k = 1000 /\ u.dx = 0 /\ u.fit = v.fit /\ u.vk = v.vk
<1>1. v = [mode |-> v.mode, k |-> v.k, dx |-> v.dx, fit |-> v.fit, vk |-> v.vk] /\ v.fit \in Fits /\ v.vk \in Nat \ {0}
  BY DEF KitView
<1>2. u = [v EXCEPT !.mode = mode, !.k = 1000, !.dx = 0]
  BY DEF Framed
<1>3. u = [mode |-> mode, k |-> 1000, dx |-> 0, fit |-> v.fit, vk |-> v.vk]
  <2>1. PICK w : w = [v EXCEPT !.mode = mode]
    OBVIOUS
  <2>2. w = [mode |-> mode, k |-> v.k, dx |-> v.dx, fit |-> v.fit, vk |-> v.vk]
    BY ONLY <1>1, <2>1
  <2>3. PICK k, dx : k = 1000 /\ dx = 0
    OBVIOUS
  <2>4. u = [w EXCEPT !.k = k, !.dx = dx]
    BY ONLY <1>1, <1>2, <2>1, <2>3
  <2>5. u = [mode |-> mode, k |-> k, dx |-> dx, fit |-> v.fit, vk |-> v.vk]
    BY ONLY <2>2, <2>4
  <2> QED  BY ONLY <2>3, <2>5
<1>4. u.mode = mode /\ u.k = 1000 /\ u.dx = 0 /\ u.fit = v.fit /\ u.vk = v.vk
  BY ONLY <1>3
<1>5. 1000 \in 151 .. KMAX
  BY Limits
<1>6. KitView(u)
  BY ONLY <1>1, <1>3, <1>4, <1>5, mode \in {"country", "province"} DEF KitView
<1>7. minK(u) \in 151 .. 550
  BY <1>6, FloorsKept
<1> QED  BY ONLY <1>4, <1>6, <1>7

LEMMA FramedKeeps ==
  ASSUME NEW s, NEW v, CameraOK(v, s), NEW mode \in {"country", "province"}
  PROVE  CameraOK(Framed(v, mode), s)
<1>1. PICK u : u = Framed(v, mode)
  OBVIOUS
<1>2. KitView(v) /\ (v.fit \in {0, 1000} \/ (s # Unshaped /\ v.fit = FitOf[s]))
  BY DEF CameraOK
<1>3. KitView(u) /\ u.k >= minK(u) /\ u.fit = v.fit
  BY <1>1, <1>2, FramedOK
<1>4. CameraOK(u, s)
  BY ONLY <1>2, <1>3 DEF CameraOK
<1> QED  BY ONLY <1>1, <1>4

LEMMA StepsInt ==
  ASSUME NEW k \in Nat
  PROVE  /\ OneStepIn(k) \in Int /\ 2 * OneStepIn(k) <= 3 * k /\ 3 * k < 2 * OneStepIn(k) + 2
         /\ OneStepOut(k) \in Int /\ 3 * OneStepOut(k) <= 2 * k /\ 2 * k < 3 * OneStepOut(k) + 3
<1>1. PICK x, y \in Int : x = k * 3 /\ y = k * 2
  OBVIOUS
<1>2. PICK p, q : p = x \div 2 /\ q = y \div 3
  OBVIOUS
<1>3. p \in Int /\ 2 * p <= x /\ x < 2 * p + 2 /\ q \in Int /\ 3 * q <= y /\ y < 3 * q + 3
  BY <1>2, QuotientBounds
<1>4. OneStepIn(k) = p /\ OneStepOut(k) = q
  BY <1>1, <1>2 DEF OneStepIn, OneStepOut
<1> QED  BY ONLY <1>1, <1>3, <1>4

\* What the three buttons and the two keys ask of a view.
LEMMA InView ==
  ASSUME NEW s, NEW v, CameraOK(v, s), NEW u, u = MapView(v, "in")
  PROVE  CameraOK(u, s) /\ u.k = clampK(OneStepIn(v.k), v) /\ u.mode = v.mode
<1>1. v.k \in Nat /\ v.dx \in Int
      /\ v = [mode |-> v.mode, k |-> v.k, dx |-> v.dx, fit |-> v.fit, vk |-> v.vk]
  BY Limits DEF CameraOK, KitView
<1>2. u = [v EXCEPT !.k = clampK(OneStepIn(v.k), v)]
  BY DEF MapView
<1>3. PICK dx \in Int : dx = v.dx
  BY <1>1
<1>4. u = [v EXCEPT !.k = clampK(OneStepIn(v.k), v), !.dx = dx]
  BY ONLY <1>1, <1>2, <1>3
<1>5. OneStepIn(v.k) \in Int
  BY <1>1, StepsInt
<1>6. PICK z : z = OneStepIn(v.k)
  OBVIOUS
<1>7. ScaledTo(u, v, z, dx)
  BY ONLY <1>4, <1>5, <1>6, dx \in Int DEF ScaledTo
<1> QED  BY ONLY <1>6, <1>7, CameraOK(v, s), ScaledOK

LEMMA OutView ==
  ASSUME NEW s, NEW v, CameraOK(v, s), NEW u, u = MapView(v, "out")
  PROVE  /\ CameraOK(u, s)
         /\ \/ v.mode = "province" /\ OneStepOut(v.k) <= minK(v) /\ u = Framed(v, "country")
            \/ /\ v.mode = "province" => OneStepOut(v.k) > minK(v)
               /\ u.mode = v.mode /\ u.k = clampK(OneStepOut(v.k), v)
<1>1. v.k \in Nat /\ v.dx \in Int /\ KitView(v)
      /\ v = [mode |-> v.mode, k |-> v.k, dx |-> v.dx, fit |-> v.fit, vk |-> v.vk]
  BY Limits DEF CameraOK, KitView
<1>2. CASE v.mode = "province" /\ OneStepOut(v.k) <= minK(v)
  <2>1. u = Framed(v, "country")
    BY <1>2 DEF MapView
  <2>2. CameraOK(u, s)
    BY <2>1, FramedKeeps
  <2> QED  BY ONLY <1>2, <2>1, <2>2
<1>3. CASE ~(v.mode = "province" /\ OneStepOut(v.k) <= minK(v))
  <2>1. u = [v EXCEPT !.k = clampK(OneStepOut(v.k), v)]
    BY <1>3 DEF MapView
  <2>2. PICK dx \in Int : dx = v.dx
    BY <1>1
  <2>3. u = [v EXCEPT !.k = clampK(OneStepOut(v.k), v), !.dx = dx]
    BY ONLY <1>1, <2>1, <2>2
  <2>4. OneStepOut(v.k) \in Int
    BY <1>1, StepsInt
  <2>8. PICK z : z = OneStepOut(v.k)
    OBVIOUS
  <2>9. ScaledTo(u, v, z, dx)
    BY ONLY <2>3, <2>4, <2>8, dx \in Int DEF ScaledTo
  <2>5. CameraOK(u, s) /\ u.k = clampK(OneStepOut(v.k), v) /\ u.mode = v.mode
    BY ONLY <2>8, <2>9, CameraOK(v, s), ScaledOK
  <2>6. minK(v) \in Int
    BY <1>1, FloorsKept
  <2>7. v.mode = "province" => OneStepOut(v.k) > minK(v)
    BY ONLY <1>3, <2>4, <2>6
  <2> QED  BY ONLY <2>5, <2>7
<1> QED  BY <1>2, <1>3

LEMMA PanView ==
  ASSUME NEW s, NEW v, CameraOK(v, s), NEW px \in PanPixels, NEW u, u = Pan(v, px)
  PROVE  /\ CameraOK(u, s) /\ u.k = v.k /\ u.mode = v.mode /\ u.fit = v.fit
         /\ (px * 1000) \div v.vk \in Int /\ u.dx = v.dx - (px * 1000) \div v.vk
<1>1. /\ v = [mode |-> v.mode, k |-> v.k, dx |-> v.dx, fit |-> v.fit, vk |-> v.vk]
      /\ v.mode \in {"country", "province"} /\ v.k \in 151 .. KMAX /\ v.dx \in Int
      /\ v.fit \in Fits /\ v.vk \in Nat \ {0} /\ v.k >= minK(v)
      /\ v.fit \in {0, 1000} \/ (s # Unshaped /\ v.fit = FitOf[s])
  BY DEF CameraOK, KitView
<1>2. PICK q : q = (px * 1000) \div v.vk
  OBVIOUS
<1>3. q \in Int
  <2>1. px * 1000 \in Int
    BY KitCameraAssumption
  <2> QED  BY ONLY <1>1, <1>2, <2>1, QuotientBounds
<1>4. u = [v EXCEPT !.dx = v.dx - q]
  BY <1>2 DEF Pan
<1>5. PICK d : d = v.dx - q
  OBVIOUS
<1>6. u = [mode |-> v.mode, k |-> v.k, dx |-> d, fit |-> v.fit, vk |-> v.vk]
  BY ONLY <1>1, <1>4, <1>5
<1>7. u.mode = v.mode /\ u.k = v.k /\ u.dx = d /\ u.fit = v.fit /\ u.vk = v.vk
  BY ONLY <1>6
<1>8. d \in Int
  BY ONLY <1>1, <1>3, <1>5
<1>9. minK(u) = minK(v)
  BY ONLY <1>7 DEF minK
<1>10. KitView(u)
  BY ONLY <1>1, <1>6, <1>7, <1>8 DEF KitView
<1>11. CameraOK(u, s)
  BY ONLY <1>1, <1>7, <1>9, <1>10 DEF CameraOK
<1> QED  BY ONLY <1>2, <1>3, <1>5, <1>7, <1>11

LEMMA WheelView ==
  ASSUME NEW s, NEW v, CameraOK(v, s), NEW f \in WheelFactors, NEW sx \in PointerAt, NEW u, u = ZoomAt(v, f, sx)
  PROVE  /\ CameraOK(u, s) /\ u.mode = v.mode /\ u.fit = v.fit
         /\ v.k * f \in Int /\ u.k = clampK((v.k * f) \div 1000, v)
         /\ (((sx * 1000) \div v.vk) * (u.k - v.k)) \div u.k \in Int
         /\ u.dx = v.dx + (((sx * 1000) \div v.vk) * (u.k - v.k)) \div u.k
<1>1. /\ v = [mode |-> v.mode, k |-> v.k, dx |-> v.dx, fit |-> v.fit, vk |-> v.vk]
      /\ v.k \in Nat /\ v.dx \in Int /\ v.vk \in Nat \ {0} /\ KitView(v)
  BY Limits DEF CameraOK, KitView
<1>2. PICK z : z = (v.k * f) \div 1000
  OBVIOUS
<1>3. v.k * f \in Int /\ z \in Int
  <2>1. PICK x \in Int : x = v.k * f
    BY <1>1, KitCameraAssumption
  <2> QED  BY <1>2, <2>1, QuotientBounds
<1>4. PICK k : k = clampK(z, v)
  OBVIOUS
<1>5. k \in Int /\ k >= 151
  BY <1>1, <1>3, <1>4, Clamped, Limits
<1>6. PICK q : q = (sx * 1000) \div v.vk
  OBVIOUS
<1>7. q \in Int
  <2>1. sx * 1000 \in Int
    BY KitCameraAssumption DEF FRAME_W
  <2> QED  BY ONLY <1>1, <1>6, <2>1, QuotientBounds
<1>8. PICK c : c = (q * (k - v.k)) \div k
  OBVIOUS
<1>9. c \in Int
  <2>1. PICK x \in Int : x = q * (k - v.k)
    BY <1>1, <1>5, <1>7
  <2> QED  BY <1>5, <1>8, <2>1, QuotientBounds
<1>10. PICK dx \in Int : dx = v.dx + c
  BY <1>1, <1>9
<1>11. u = [v EXCEPT !.k = k, !.dx = dx]
  <2>1. ZoomAt(v, f, sx) =
          [v EXCEPT !.k = clampK((v.k * f) \div 1000, v),
                    !.dx = @ + (((sx * 1000) \div v.vk) * (clampK((v.k * f) \div 1000, v) - v.k))
                               \div clampK((v.k * f) \div 1000, v)]
    BY ONLY DEF ZoomAt
  <2>2. PICK y : y = v.dx + (((sx * 1000) \div v.vk) * (clampK((v.k * f) \div 1000, v) - v.k))
                             \div clampK((v.k * f) \div 1000, v)
    OBVIOUS
  <2>3. PICK x : x = clampK((v.k * f) \div 1000, v)
    OBVIOUS
  <2>4. u = [v EXCEPT !.k = x, !.dx = y]
    BY ONLY <1>1, <2>1, <2>2, <2>3, u = ZoomAt(v, f, sx)
  <2>5. x = k
    BY ONLY <1>2, <1>4, <2>3
  <2>6. y = dx
    BY ONLY <1>2, <1>4, <1>6, <1>8, <1>10, <2>2
  <2> QED  BY ONLY <2>4, <2>5, <2>6
<1>13. ScaledTo(u, v, z, dx)
  BY ONLY <1>3, <1>4, <1>11, dx \in Int DEF ScaledTo
<1>12. CameraOK(u, s) /\ u.k = k /\ u.dx = dx /\ u.mode = v.mode /\ u.fit = v.fit /\ u.vk = v.vk
  BY ONLY <1>4, <1>13, CameraOK(v, s), ScaledOK
<1> QED  BY ONLY <1>2, <1>3, <1>4, <1>6, <1>8, <1>9, <1>10, <1>12

\* The scale on screen is the fit's and the reader's, cut; a province is never drawn small.
LEMMA ProvinceFits == ASSUME NEW x, x \in 2500 .. 6600 PROVE x \in Int /\ 2500 <= x /\ x <= 6600
  OBVIOUS

LEMMA DrawnScale ==
  ASSUME NEW s \in Subjects, NEW v, CameraOK(v, s), IsDrawn(v, s)
  PROVE  /\ v.fit \in Int /\ 1000 <= v.fit /\ v.fit <= 6600
         /\ \E e : Cut(1000, v.fit, v.k, v.vk, e)
         /\ v.mode = "province" \/ v.fit = 1000
         /\ v.mode = "province" => v.vk >= 990 /\ v.fit \notin {0, 1000}
<1>1. /\ KitView(v) /\ v.mode \in {"country", "province"} /\ v.k \in Nat /\ v.vk \in Nat /\ v.k >= minK(v)
      /\ v.fit = IF v.mode = "province" THEN FitOf[s] ELSE 1000
      /\ s = Unshaped => v.mode = "country"
      /\ v.vk = (v.fit * v.k) \div 1000
  BY Limits DEF CameraOK, KitView, IsDrawn
<1>2. v.mode = "province" => v.fit \in 2500 .. 6600
  BY SMTT(60), <1>1, KitCameraAssumption
<1>3. v.mode # "province" => v.fit = 1000
  BY ONLY <1>1
<1>4. v.fit \in Int /\ 1000 <= v.fit /\ v.fit <= 6600
  <2>1. CASE v.mode = "province"
    <3>1. v.fit \in 2500 .. 6600
      BY ONLY <1>2, <2>1
    <3>2. v.fit \in Int /\ 2500 <= v.fit /\ v.fit <= 6600
      BY ONLY <3>1, ProvinceFits
    <3> QED  BY ONLY <3>2
  <2>2. CASE v.mode # "province"
    <3>1. v.fit = 1000
      BY ONLY <1>3, <2>2
    <3> QED  BY ONLY <3>1
  <2> QED  BY ONLY <2>1, <2>2
<1>5. PICK t \in Int : t = v.fit * v.k
  BY ONLY <1>1, <1>4
<1>6. 1000 * v.vk <= t /\ t < 1000 * v.vk + 1000
  <2>1. v.vk = t \div 1000
    BY ONLY <1>1, <1>5
  <2> QED  BY ONLY <2>1, t \in Int, QuotientBounds
<1>7. PICK e \in Int : e = t - 1000 * v.vk
  BY ONLY <1>1
<1>8. Cut(1000, v.fit, v.k, v.vk, e)
  <2>1. v.fit * v.k = 1000 * v.vk + e /\ 0 <= e /\ e < 1000
    BY ONLY <1>1, <1>5, <1>6, <1>7
  <2>2. 1000 \in Nat \ {0} /\ v.fit \in Int /\ v.k \in Int /\ v.vk \in Int /\ e \in Int
    BY ONLY <1>1, <1>4
  <2> QED  BY ONLY <2>1, <2>2 DEF Cut
<1>9. ASSUME v.mode = "province" PROVE v.vk >= 990 /\ v.fit \notin {0, 1000}
  <2>1. v.fit \in Int /\ 2500 <= v.fit /\ v.fit <= 6600
    <3>1. v.fit \in 2500 .. 6600
      BY ONLY <1>2, <1>9
    <3> QED  BY ONLY <3>1, ProvinceFits
  <2>2. v.fit \notin {0, 1000}
    BY ONLY <2>1
  <2>3. PICK n \in Nat : minK(v) = lesser(550, n) /\ v.fit * n <= 1000 * 1000 /\ 1000 * 1000 < v.fit * n + v.fit
    BY ONLY <1>1, <1>9, <2>2, FloorsKept
  <2>4. v.k >= 550 \/ v.k >= n
    BY ONLY <1>1, <2>3 DEF lesser
  <2>5. t >= 990 * 1000
    <3>1. CASE v.k >= 550
      <4>1. 550 * 2500 <= v.k * 2500
        BY ONLY <1>1, <3>1
      <4>2. 2500 * v.k <= v.fit * v.k
        BY ONLY <1>1, <2>1, 2500 \in Int, TimesMonotone
      <4> QED  BY ONLY <1>1, <1>5, <4>1, <4>2
    <3>2. CASE v.k >= n
      <4>1. n * v.fit <= v.k * v.fit
        BY ONLY <1>1, <2>1, <3>2, n \in Nat, v.fit \in Nat, TimesMonotone
      <4>2. n * v.fit = v.fit * n /\ v.k * v.fit = v.fit * v.k
        BY ONLY <1>1, <2>1
      <4>3. PICK x \in Int : x = v.fit * n
        BY ONLY <2>1, n \in Nat
      <4>4. x <= t /\ 1000 * 1000 < x + v.fit
        BY ONLY <1>5, <2>3, <4>1, <4>2, <4>3
      <4> QED  BY ONLY <2>1, <4>4, x \in Int, t \in Int
    <3> QED  BY ONLY <2>4, <3>1, <3>2
  <2>6. v.vk >= 990
    BY ONLY <1>1, <1>6, <2>5, t \in Int
  <2> QED  BY ONLY <2>2, <2>6
<1> QED  BY ONLY <1>3, <1>4, <1>8, <1>9

\* A step out of at most a third takes at most a third of the scale on screen, and never enlarges.
LEMMA StepCut ==
  ASSUME NEW F, 0 <= F, F <= 6600, NEW k, NEW l, NEW v, NEW w, NEW e, NEW d,
         Cut(1000, F, k, v, e), Cut(1000, F, l, w, d), l <= k, 3 * l >= 2 * k - 2
  PROVE  w <= v + 10 /\ 3 * w >= 2 * v - 30
<1>1. /\ F \in Int /\ k \in Int /\ v \in Int /\ e \in Int /\ l \in Int /\ w \in Int /\ d \in Int
      /\ F * k = 1000 * v + e /\ 0 <= e /\ e < 1000 /\ F * l = 1000 * w + d /\ 0 <= d /\ d < 1000
  BY DEF Cut
<1>2. F \in Nat
  BY <1>1
<1>3. l * F <= k * F
  BY ONLY <1>1, <1>2, l <= k, TimesMonotone
<1>4. (2 * k - 2) * F <= (3 * l) * F
  <2>1. PICK x, y \in Int : x = 2 * k - 2 /\ y = 3 * l
    BY <1>1
  <2>2. x * F <= y * F
    BY ONLY <2>1, <1>2, 3 * l >= 2 * k - 2, TimesMonotone
  <2> QED  BY ONLY <2>1, <2>2
<1>5. PICK x, y \in Int : x = F * k /\ y = F * l
  BY <1>1
<1>6. (2 * k - 2) * F = 2 * x - 2 * F /\ (3 * l) * F = 3 * y /\ l * F = y /\ k * F = x
  BY ONLY <1>1, <1>5
<1>7. y <= x /\ 2 * x - 2 * F <= 3 * y /\ x = 1000 * v + e /\ y = 1000 * w + d
  BY ONLY <1>1, <1>3, <1>4, <1>5, <1>6
<1> QED  BY ONLY <1>1, <1>7, F <= 6600, x \in Int, y \in Int

LEMMA OutDrawn ==
  ASSUME NEW s \in Subjects, NEW v, CameraOK(v, s), IsDrawn(v, s),
         NEW u, u = MapView(v, "out"), NEW d, d = KitDrawn(u, s)
  PROVE  d.vk <= v.vk + 10 /\ 3 * d.vk >= 2 * v.vk - 30
<1>1. /\ v.fit \in Int /\ 1000 <= v.fit /\ v.fit <= 6600
      /\ v.mode = "province" \/ v.fit = 1000
      /\ v.mode = "province" => v.vk >= 990 /\ v.fit \notin {0, 1000}
  BY DrawnScale
<1>2. PICK e : Cut(1000, v.fit, v.k, v.vk, e)
  BY DrawnScale
<1>3. CameraOK(u, s)
  BY OutView
<1>4. CameraOK(d, s) /\ IsDrawn(d, s) /\ d.k = u.k /\ d.mode = IF s = Unshaped THEN "country" ELSE u.mode
  BY ONLY <1>3, s \in Subjects, d = KitDrawn(u, s), DrawKeeps DEF Drawable
<1>5. KitView(v) /\ v.k \in Nat /\ v.vk \in Nat /\ v.k <= KMAX /\ v.k >= minK(v) /\ v.mode \in {"country", "province"}
  BY Limits DEF CameraOK, KitView
<1>6. OneStepOut(v.k) \in Int /\ 3 * OneStepOut(v.k) <= 2 * v.k /\ 2 * v.k < 3 * OneStepOut(v.k) + 3
  BY ONLY <1>5, StepsInt
<1>7. CASE v.mode = "province" /\ OneStepOut(v.k) <= minK(v) /\ u = Framed(v, "country")
  <2>1. u.mode = "country" /\ u.k = 1000
    BY <1>5, <1>7, FramedOK
  <2>2. d.k = 1000 /\ d.fit = 1000 /\ d.vk = (d.fit * d.k) \div 1000
    BY <1>4, <2>1 DEF IsDrawn
  <2>3. d.vk = 1000
    <3>1. PICK t \in Int : t = 1000 * 1000
      OBVIOUS
    <3>2. d.vk = t \div 1000
      BY ONLY <2>2, <3>1
    <3>3. d.vk \in Int /\ 1000 * d.vk <= t /\ t < 1000 * d.vk + 1000
      BY ONLY <3>2, t \in Int, QuotientBounds
    <3> QED  BY ONLY <3>1, <3>3
  <2>4. PICK n \in Nat : minK(v) = lesser(550, n) /\ v.fit * n <= 1000 * 1000 /\ 1000 * 1000 < v.fit * n + v.fit
    BY ONLY <1>1, <1>5, <1>7, FloorsKept
  <2>5. 2 * v.k <= 3 * n + 2
    BY ONLY <1>5, <1>6, <1>7, <2>4, n \in Nat DEF lesser
  <2>6. (2 * v.k) * v.fit <= (3 * n + 2) * v.fit
    <3>1. PICK x, y \in Int : x = 2 * v.k /\ y = 3 * n + 2
      BY <1>5
    <3>2. v.fit \in Nat /\ x <= y
      BY ONLY <1>1, <2>5, <3>1
    <3> QED  BY ONLY <3>1, <3>2, TimesMonotone
  <2>7. PICK x, y \in Int : x = v.fit * v.k /\ y = v.fit * n
    BY <1>1, <1>5
  <2>8. (2 * v.k) * v.fit = 2 * x /\ (3 * n + 2) * v.fit = 3 * y + 2 * v.fit
    BY ONLY <1>1, <1>5, <2>7, n \in Nat
  <2>9. 1000 * v.vk <= x
    BY ONLY <1>2, <1>5, <2>7 DEF Cut
  <2>10. 2 * x <= 3 * y + 2 * v.fit /\ y <= 1000 * 1000
    BY ONLY <2>4, <2>6, <2>7, <2>8
  <2>11. 2 * v.vk <= 3030
    BY ONLY <1>1, <1>5, <2>9, <2>10, x \in Int, y \in Int
  <2> QED  BY ONLY <1>1, <1>5, <1>7, <2>3, <2>11
<1>8. CASE u.mode = v.mode /\ u.k = clampK(OneStepOut(v.k), v)
  <2>1. d.mode = v.mode
    BY <1>4, <1>8 DEF IsDrawn
  <2>2. d.fit = v.fit
    BY <1>4, <2>1 DEF IsDrawn
  <2>3. PICK c : Cut(1000, v.fit, d.k, d.vk, c)
    <3>1. \E c : Cut(1000, d.fit, d.k, d.vk, c)
      BY ONLY <1>4, s \in Subjects, DrawnScale
    <3> QED  BY ONLY <2>2, <3>1
  <2>4. PICK z, m \in Int : z = OneStepOut(v.k) /\ m = minK(v)
    BY <1>5, <1>6, FloorsKept
  <2>5. d.k = clampK(z, v)
    BY ONLY <1>4, <1>8, <2>4
  <2>6. d.k \in 151 .. KMAX /\ (d.k = KMAX \/ d.k >= z) /\ (d.k = m \/ d.k <= z)
    BY ONLY <1>5, <2>4, <2>5, z \in Int, Clamped
  <2>7. d.k <= v.k /\ 3 * d.k >= 2 * v.k - 2
    BY ONLY <1>5, <1>6, <2>4, <2>6, Limits, z \in Int, m \in Int
  <2>8. 0 <= v.fit /\ v.fit <= 6600
    BY ONLY <1>1
  <2> QED  BY ONLY <1>2, <2>3, <2>7, <2>8, StepCut
<1> QED  BY <1>7, <1>8, OutView

AtEdge(d, s) == Base(d, s) + d.dx \in {CountryLeft - half(d.vk), CountryRight + half(d.vk)}

\* A pan moves the map by as many units of the drawing as it has pixels: the scale stays.
LEMMA PanDrawn ==
  ASSUME NEW s \in Subjects, NEW v, CameraOK(v, s), IsDrawn(v, s),
         NEW px \in PanPixels, NEW d, d = KitDrawn(Pan(v, px), s)
  PROVE  \/ AtEdge(d, s)
         \/ Near(Base(d, s) + d.dx + (px * 1000) \div d.vk, Base(v, s) + v.dx + (0 * 1000) \div v.vk, 2)
<1>1. PICK u : u = Pan(v, px)
  OBVIOUS
<1>2. PICK q : q = (px * 1000) \div v.vk
  OBVIOUS
<1>3. CameraOK(u, s) /\ u.k = v.k /\ u.mode = v.mode /\ u.fit = v.fit /\ q \in Int /\ u.dx = v.dx - q
  BY ONLY <1>1, <1>2, CameraOK(v, s), px \in PanPixels, PanView
<1>4. /\ IsDrawn(d, s) /\ d.k = u.k /\ d.mode = IF s = Unshaped THEN "country" ELSE u.mode
      /\ d.mode = u.mode => \/ Base(d, s) + d.dx \in {CountryLeft - half(d.vk), CountryRight + half(d.vk)}
                            \/ Base(d, s) + d.dx = Base(u, s) + u.dx
  BY ONLY <1>1, <1>3, s \in Subjects, d = KitDrawn(Pan(v, px), s), DrawKeeps DEF Drawable
<1>5. d.mode = v.mode
  BY ONLY <1>3, <1>4, IsDrawn(v, s) DEF IsDrawn
<1>6. d.vk = v.vk
  BY ONLY <1>3, <1>4, <1>5, IsDrawn(v, s) DEF IsDrawn
<1>7. Base(u, s) = Base(v, s)
  BY ONLY <1>3 DEF Base
<1>8. Base(v, s) \in Int /\ v.dx \in Int /\ v.vk \in Nat \ {0}
  <2>1. s # Unshaped \/ v.mode # "province"
    BY DEF IsDrawn
  <2>2. v.dx \in Int /\ v.vk \in Nat \ {0}
    BY DEF CameraOK, KitView
  <2> QED  BY ONLY <2>1, <2>2, s \in Subjects, MiddleIsPlace
<1>9. (0 * 1000) \div v.vk = 0
  <2>1. PICK z : z = (0 * 1000) \div v.vk
    OBVIOUS
  <2>2. PICK n \in Nat \ {0} : n = v.vk
    BY <1>8
  <2>3. PICK t \in Int : t = 0 * 1000 /\ t = 0
    OBVIOUS
  <2>4. z \in Int /\ n * z <= t /\ t < n * z + n
    BY ONLY <2>1, <2>2, <2>3, QuotientBounds
  <2>5. z = 0
    <3>1. ASSUME z >= 1 PROVE FALSE
      <4>1. 1 * n <= z * n
        BY <2>4, <3>1, TimesMonotone
      <4> QED  BY <2>3, <2>4, <4>1
    <3>2. ASSUME z <= -1 PROVE FALSE
      <4>1. z * n <= (-1) * n
        BY <2>4, <3>2, TimesMonotone
      <4> QED  BY <2>3, <2>4, <4>1
    <3> QED  BY <2>4, <3>1, <3>2
  <2> QED  BY <2>1, <2>5
<1>10. CASE Base(d, s) + d.dx = Base(u, s) + u.dx
  <2>1. PICK b, x \in Int : b = Base(v, s) /\ x = v.dx
    BY <1>8
  <2>2. Base(d, s) + d.dx = b + (x - q)
    BY ONLY <1>3, <1>7, <1>10, <2>1
  <2>3. (px * 1000) \div d.vk = q
    BY ONLY <1>2, <1>6
  <2>4. Near((b + (x - q)) + q, b + x + 0, 2)
    BY ONLY <1>3, b \in Int, x \in Int DEF Near
  <2> QED  BY ONLY <1>9, <2>1, <2>2, <2>3, <2>4
<1>11. CASE Base(d, s) + d.dx \in {CountryLeft - half(d.vk), CountryRight + half(d.vk)}
  BY ONLY <1>11 DEF AtEdge
<1>12. d.mode = u.mode
  BY ONLY <1>3, <1>5
<1> QED  BY ONLY <1>4, <1>10, <1>11, <1>12

\* A turn of the wheel leaves the place so many units from the middle, to the roundings.
LEMMA WheelDrawn ==
  ASSUME NEW s \in Subjects, NEW v, CameraOK(v, s), IsDrawn(v, s),
         NEW f \in WheelFactors, NEW sx \in PointerAt, NEW d, d = KitDrawn(ZoomAt(v, f, sx), s)
  PROVE  \/ AtEdge(d, s)
         \/ Near(Base(d, s) + d.dx + (sx * 1000) \div d.vk, Base(v, s) + v.dx + (sx * 1000) \div v.vk, 2 + 1000 \div f)
<1>1. PICK u : u = ZoomAt(v, f, sx)
  OBVIOUS
<1>2. PICK a : a = (sx * 1000) \div v.vk
  OBVIOUS
<1>3. PICK c : c = (a * (u.k - v.k)) \div u.k
  OBVIOUS
<1>4. PICK z : z = (v.k * f) \div 1000
  OBVIOUS
<1>5. CameraOK(u, s) /\ u.mode = v.mode /\ u.fit = v.fit /\ u.k = clampK(z, v) /\ c \in Int /\ u.dx = v.dx + c
      /\ v.k * f \in Int
  BY ONLY <1>1, <1>2, <1>3, <1>4, CameraOK(v, s), f \in WheelFactors, sx \in PointerAt, WheelView
<1>6. /\ CameraOK(d, s) /\ IsDrawn(d, s) /\ d.k = u.k /\ d.mode = IF s = Unshaped THEN "country" ELSE u.mode
      /\ d.mode = u.mode => \/ Base(d, s) + d.dx \in {CountryLeft - half(d.vk), CountryRight + half(d.vk)}
                            \/ Base(d, s) + d.dx = Base(u, s) + u.dx
  BY ONLY <1>1, <1>5, s \in Subjects, d = KitDrawn(ZoomAt(v, f, sx), s), DrawKeeps DEF Drawable
<1>7. d.mode = v.mode /\ d.mode = u.mode
  BY ONLY <1>5, <1>6, IsDrawn(v, s) DEF IsDrawn
<1>8. d.fit = v.fit
  <2>1. IsDrawn(d, s)
    BY ONLY <1>6
  <2>2. d.fit = IF d.mode = "province" THEN FitOf[s] ELSE 1000
    BY ONLY <2>1 DEF IsDrawn
  <2>3. v.fit = IF v.mode = "province" THEN FitOf[s] ELSE 1000
    BY DEF IsDrawn
  <2> QED  BY ONLY ZenonT(60), <1>7, <2>2, <2>3
<1>9. Base(u, s) = Base(v, s)
  BY ONLY <1>5 DEF Base
<1>10. Base(v, s) \in Int /\ v.dx \in Int /\ v.vk \in Nat \ {0} /\ KitView(v) /\ v.k \in 151 .. KMAX
       /\ d.vk \in Nat \ {0} /\ d.k \in 151 .. KMAX
  <2>1. s # Unshaped \/ v.mode # "province"
    BY DEF IsDrawn
  <2>2. v.dx \in Int /\ v.vk \in Nat \ {0} /\ KitView(v) /\ v.k \in 151 .. KMAX
    BY DEF CameraOK, KitView
  <2>3. d.vk \in Nat \ {0} /\ d.k \in 151 .. KMAX
    BY ONLY <1>6 DEF CameraOK, KitView
  <2> QED  BY ONLY <2>1, <2>2, <2>3, s \in Subjects, MiddleIsPlace
<1>11. /\ v.fit \in Int /\ 1000 <= v.fit
       /\ v.mode = "province" \/ v.fit = 1000
       /\ v.mode = "province" => v.vk >= 990
  BY ONLY s \in Subjects, CameraOK(v, s), IsDrawn(v, s), DrawnScale
<1>12. d.mode = "province" => d.vk >= 990
  BY ONLY s \in Subjects, <1>6, DrawnScale
<1>13. PICK e : Cut(1000, v.fit, v.k, v.vk, e)
  BY ONLY s \in Subjects, CameraOK(v, s), IsDrawn(v, s), DrawnScale
<1>14. PICK g : Cut(1000, v.fit, d.k, d.vk, g)
  <2>1. \E g : Cut(1000, d.fit, d.k, d.vk, g)
    BY ONLY s \in Subjects, <1>6, DrawnScale
  <2> QED  BY ONLY <1>8, <2>1
<1>15. f \in Nat \ {0} /\ sx \in -463 .. 463
  BY KitCameraAssumption DEF FRAME_W
<1>16. PICK k, l : k = v.k /\ l = d.k
  OBVIOUS
<1>17. l >= k \/ k * f < 1000 * (l + 1)
  <2>1. PICK t \in Int : t = k * f
    BY <1>5, <1>16
  <2>2. z = t \div 1000
    BY ONLY <1>4, <1>16, <2>1
  <2>3. z \in Int /\ 1000 * z <= t /\ t < 1000 * z + 1000
    BY ONLY <2>2, t \in Int, QuotientBounds
  <2>4. l = KMAX \/ l >= z
    BY ONLY <1>5, <1>6, <1>10, <1>16, <2>3, Clamped
  <2>5. k \in Int /\ l \in Int /\ k <= KMAX
    BY ONLY <1>10, <1>16, Limits
  <2>6. l >= k \/ t < 1000 * (l + 1)
    BY ONLY <2>3, <2>4, <2>5, t \in Int, Limits
  <2> QED  BY ONLY <2>1, <2>6
<1>18. PICK b : b = (sx * 1000) \div d.vk
  OBVIOUS
<1>19. PICK F, M, p, q : F = v.fit /\ M = KMAX /\ p = v.vk /\ q = d.vk
  OBVIOUS
<1>20. c + b - a \in -(2 + 1000 \div f) .. 2 + 1000 \div f
  <2>1. F \in Int /\ F > 0 /\ M \in Int /\ M <= 151 * 250 /\ k \in 151 .. M /\ l \in 151 .. M /\ p > 0 /\ q > 0
        /\ (F = 1000 \/ (p >= 990 /\ q >= 990))
    BY ONLY <1>7, <1>10, <1>11, <1>12, <1>16, <1>19, Limits
  <2>2. Cut(1000, F, k, p, e) /\ Cut(1000, F, l, q, g)
    BY ONLY <1>13, <1>14, <1>16, <1>19
  <2>3. PICK t \in Int : t = sx * 1000
    BY <1>15
  <2>4. Pointer(sx, t)
    <3>1. t = 1000 * sx
      BY ONLY <1>15, <2>3
    <3> QED  BY ONLY <1>15, <3>1 DEF Pointer
  <2>5. Whole(t, p, a) /\ Whole(t, q, b)
    <3>1. a = t \div p /\ b = t \div q /\ p \in Int /\ q \in Int
      BY ONLY <1>2, <1>10, <1>18, <1>19, <2>3
    <3> QED  BY ONLY <2>1, <3>1, t \in Int, CutAt
  <2>6. Shift(c, k, l, a)
    BY ONLY <1>3, <1>6, <1>16 DEF Shift
  <2>7. Zoomed(F, M, k, l, p, q, f)
    BY ONLY <1>15, <1>17, <2>1 DEF Zoomed
  <2>8. Moved(c, b, a, f)
    BY ONLY <2>2, <2>4, <2>5, <2>6, <2>7, ZoomNear
  <2> QED  BY ONLY <2>8 DEF Moved
<1>21. a \in Int /\ b \in Int
  <2>1. PICK t \in Int : t = sx * 1000
    BY <1>15
  <2>2. a = t \div v.vk /\ b = t \div d.vk
    BY ONLY <1>2, <1>18, <2>1
  <2> QED  BY ONLY <1>10, <2>2, t \in Int, QuotientBounds
<1>22. CASE Base(d, s) + d.dx = Base(u, s) + u.dx
  <2>1. PICK h, x \in Int : h = Base(v, s) /\ x = v.dx
    BY <1>10
  <2>2. Base(d, s) + d.dx = h + (x + c)
    BY ONLY <1>5, <1>9, <1>22, <2>1
  <2>3. ((h + (x + c)) + b) - ((h + x) + a) = c + b - a
    BY ONLY <1>5, <1>21, h \in Int, x \in Int
  <2>4. Near((h + (x + c)) + b, h + x + a, 2 + 1000 \div f)
    BY ONLY <1>20, <2>3 DEF Near
  <2> QED  BY ONLY <1>2, <1>18, <2>1, <2>2, <2>4
<1>23. CASE Base(d, s) + d.dx \in {CountryLeft - half(d.vk), CountryRight + half(d.vk)}
  BY ONLY <1>23 DEF AtEdge
<1> QED  BY ONLY <1>6, <1>7, <1>22, <1>23

\* A button that is not disabled changes the view.
LEMMA InMoves ==
  ASSUME NEW s, NEW v, CameraOK(v, s), v.k < PLUS_LIMIT
  PROVE  MapView(v, "in").k > v.k
<1>1. PICK u : u = MapView(v, "in")
  OBVIOUS
<1>2. KitView(v) /\ v.k \in Nat /\ v.k >= 151
  BY Limits DEF CameraOK, KitView
<1>3. PICK z : z = OneStepIn(v.k)
  OBVIOUS
<1>4. z \in Int /\ 3 * v.k < 2 * z + 2
  BY ONLY <1>2, <1>3, StepsInt
<1>5. u.k = clampK(z, v)
  BY ONLY <1>1, <1>3, CameraOK(v, s), InView
<1>6. u.k \in 151 .. KMAX /\ (u.k = KMAX \/ u.k >= z)
  BY ONLY <1>2, <1>4, <1>5, Clamped
<1>7. u.k > v.k
  BY ONLY <1>2, <1>4, <1>6, v.k < PLUS_LIMIT, Limits
<1> QED  BY ONLY <1>1, <1>7

LEMMA OutMoves ==
  ASSUME NEW s, NEW v, CameraOK(v, s), v.k > CMIN \/ v.mode = "province"
  PROVE  MapView(v, "out") # v
<1>1. PICK u : u = MapView(v, "out")
  OBVIOUS
<1>2. KitView(v) /\ v.k \in Nat /\ v.k >= 151
  BY Limits DEF CameraOK, KitView
<1>3. PICK z : z = OneStepOut(v.k)
  OBVIOUS
<1>4. z \in Int /\ 3 * z <= 2 * v.k
  BY ONLY <1>2, <1>3, StepsInt
<1>5. CASE v.mode = "province" /\ u = Framed(v, "country")
  <2>1. u.mode = "country"
    BY <1>2, <1>5, FramedOK
  <2> QED  BY ONLY <1>1, <1>5, <2>1
<1>6. CASE /\ v.mode = "province" => z > minK(v)
           /\ u.mode = v.mode /\ u.k = clampK(z, v)
  <2>1. u.k \in 151 .. KMAX /\ (u.k = minK(v) \/ u.k <= z) /\ u.k >= minK(v)
    BY ONLY <1>2, <1>4, <1>6, Clamped
  <2>2. minK(v) \in 151 .. 550 /\ v.mode \in {"country", "province"}
    BY <1>2, FloorsKept DEF KitView
  <2>3. minK(v) < v.k
    BY ONLY <1>2, <1>4, <1>6, <2>2, v.k > CMIN \/ v.mode = "province", Limits
  <2>4. u.k < v.k
    BY ONLY <1>2, <1>4, <2>1, <2>2, <2>3, Limits
  <2> QED  BY ONLY <1>1, <1>2, <2>4
<1>7. \/ v.mode = "province" /\ z <= minK(v) /\ u = Framed(v, "country")
      \/ /\ v.mode = "province" => z > minK(v)
         /\ u.mode = v.mode /\ u.k = clampK(z, v)
  BY ONLY <1>1, <1>3, CameraOK(v, s), OutView
<1> QED  BY ONLY <1>5, <1>6, <1>7

-----------------------------------------------------------------------------
(* The camera, step by step. *)

LEMMA CameraInitInv == KitCameraInit => CameraInv
<1> SUFFICES ASSUME KitCameraInit PROVE CameraInv
  OBVIOUS
<1>0. PICK m : m = IF frameId = "area-map" THEN "province" ELSE "country"
  OBVIOUS
<1>1. view = [mode |-> m, k |-> 1000, dx |-> 0, fit |-> 0, vk |-> 1000] /\ m \in {"country", "province"}
  <2>1. view = [mode |-> IF frameId = "area-map" THEN "province" ELSE "country",
                k |-> 1000, dx |-> 0, fit |-> 0, vk |-> 1000]
    BY DEF KitCameraInit
  <2> QED  BY ONLY <1>0, <2>1
<1>2. view.mode = m /\ view.k = 1000 /\ view.dx = 0 /\ view.fit = 0 /\ view.vk = 1000
  BY ONLY <1>1
<1>3. KitView(view)
  <2>1. 1000 \in 151 .. KMAX
    BY Limits
  <2> QED  BY ONLY <1>1, <1>2, <2>1 DEF KitView, Fits
<1>4. minK(view) \in 151 .. 550
  BY <1>3, FloorsKept
<1>5. CameraOK(view, about)
  BY ONLY <1>2, <1>3, <1>4 DEF CameraOK
<1>6. ButtonsTrue
  <2>1. tileCamera = "none"
    BY DEF KitCameraInit
  <2>2. view.k < PLUS_LIMIT /\ view.k > CMIN
    BY <1>2 DEF PLUS_LIMIT, CMIN
  <2> QED  BY ONLY <2>1, <2>2 DEF ButtonsTrue
<1>7. about \in Subjects /\ tileZoom = 62 /\ drawDue = TRUE
  BY DEF KitCameraInit
<1>8. tileZoom \in Int
  BY ONLY <1>7
<1> QED  BY ONLY <1>2, <1>5, <1>6, <1>7, <1>8 DEF CameraInv

\* The buttons that have just been painted say what the camera can do.
LEMMA PaintedTrue ==
  ASSUME NEW v, NEW s, CameraOK(v, s), NEW tile, NEW z \in Int, paintButtons(v, tile, z)
  PROVE  /\ tile = "none" /\ ~plusOff' => v.k < PLUS_LIMIT
         /\ tile = "none" /\ ~minusOff' => v.k > CMIN \/ (v.mode = "province" /\ s # Unshaped)
         /\ tile = "loaded" => (~plusOff' => z < 170) /\ (~minusOff' => z > 45) /\ ~backOff'
<1>1. KitView(v) /\ v.k \in Int /\ v.mode \in {"country", "province"}
      /\ (v.fit \in {0, 1000} \/ (s # Unshaped /\ v.fit = FitOf[s]))
  BY Limits DEF CameraOK, KitView
<1>2. minK(v) \in 151 .. 550 /\ (v.mode = "country" \/ v.fit \in {0, 1000} => minK(v) = 550)
  BY <1>1, FloorsKept
<1>3. /\ plusOff' = IF tile = "none" THEN v.k >= PLUS_LIMIT ELSE z >= 170
      /\ minusOff' = IF tile = "none" THEN v.k <= minK(v) ELSE z <= 45
      /\ backOff' = (tile = "none" /\ ~(v.k > 1000 \/ (frameId = "area-map" /\ v.mode = "province")))
  BY DEF paintButtons
<1>4. ASSUME tile = "none" PROVE (~plusOff' => ~(v.k >= PLUS_LIMIT)) /\ (~minusOff' => ~(v.k <= minK(v)))
  BY ONLY <1>3, <1>4, Zenon
<1>5. ASSUME tile = "loaded" PROVE (~plusOff' => ~(z >= 170)) /\ (~minusOff' => ~(z <= 45)) /\ ~backOff'
  <2>1. tile # "none"
    BY ONLY <1>5
  <2> QED  BY ONLY <1>3, <2>1, Zenon
<1>6. ~(v.k >= PLUS_LIMIT) => v.k < PLUS_LIMIT
  BY ONLY <1>1, Limits
<1>7. ~(v.k <= minK(v)) => v.k > CMIN \/ (v.mode = "province" /\ s # Unshaped)
  BY ONLY <1>1, <1>2, Limits
<1>8. (~(z >= 170) => z < 170) /\ (~(z <= 45) => z > 45)
  OBVIOUS
<1> QED  BY ONLY <1>4, <1>5, <1>6, <1>7, <1>8, Zenon

LEMMA RepaintKeeps ==
  ASSUME CameraInv, NEW v, CameraOK(v, about), v.fit = view.fit, Repaints(v)
  PROVE  CameraInv'
<1>1. /\ view' = v /\ drawDue' = TRUE /\ paintButtons(v, tileCamera, tileZoom)
      /\ about' = about /\ middle' = middle /\ assetsIn' = assetsIn /\ tileCamera' = tileCamera /\ tileZoom' = tileZoom
  BY DEF Repaints, tileVars
<1>2. about \in Subjects /\ tileZoom \in Int /\ (~assetsIn => view.fit = 0)
  BY DEF CameraInv
<1>3. /\ tileCamera = "none" /\ ~plusOff' => v.k < PLUS_LIMIT
      /\ tileCamera = "none" /\ ~minusOff' => v.k > CMIN \/ (v.mode = "province" /\ about # Unshaped)
      /\ tileCamera = "loaded" => (~plusOff' => tileZoom < 170) /\ (~minusOff' => tileZoom > 45) /\ ~backOff'
  BY <1>1, <1>2, PaintedTrue
<1>4. ButtonsTrue'
  BY <1>1, <1>3 DEF ButtonsTrue
<1>5. CameraOK(view, about)'
  BY <1>1 DEF CameraOK, KitView, minK
<1> QED  BY <1>1, <1>2, <1>4, <1>5 DEF CameraInv

LEMMA DrawStep == CameraInv /\ Draw => CameraInv'
<1> SUFFICES ASSUME CameraInv, Draw PROVE CameraInv'
  OBVIOUS
<1>1. PICK v, s, d : v = view /\ s = about /\ d = view'
  OBVIOUS
<1>2. s \in Subjects /\ CameraOK(v, s) /\ d = KitDrawn(v, s) /\ tileZoom \in Int
  BY <1>1 DEF CameraInv, Draw
<1>3. CameraOK(d, s) /\ IsDrawn(d, s) /\ d.k = v.k /\ d.mode = IF s = Unshaped THEN "country" ELSE v.mode
  BY ONLY <1>2, DrawKeeps DEF Drawable
<1>4. /\ about' = about /\ tileZoom' = tileZoom /\ tileCamera' = tileCamera /\ assetsIn' = TRUE
      /\ plusOff' = plusOff /\ minusOff' = minusOff /\ backOff' = backOff
      /\ middle' = Base(view', about) + view'.dx
  BY DEF Draw, tileVars, paintedVars
<1>5. ButtonsTrue'
  <2>1. ButtonsTrue
    BY DEF CameraInv
  <2>2. view'.k = view.k /\ (view.mode = "province" /\ about # Unshaped => view'.mode = "province")
    BY ONLY <1>1, <1>3
  <2> QED  BY ONLY <1>4, <2>1, <2>2 DEF ButtonsTrue
<1>6. CameraOK(view, about)'
  <2>1. CameraOK(view', about')
    BY ONLY <1>1, <1>3, <1>4
  <2> QED  BY ONLY <2>1 DEF CameraOK, KitView, minK
<1>7. IsDrawn(view, about)'
  <2>1. IsDrawn(view', about')
    BY ONLY <1>1, <1>3, <1>4
  <2> QED  BY ONLY <2>1 DEF IsDrawn, half, Base
<1>8. middle' = Base(view', about') + view'.dx
  BY ONLY <1>4
<1>9. (middle = Base(view, about) + view.dx)'
  BY ONLY <1>8 DEF Base
<1> QED  BY ONLY <1>1, <1>2, <1>4, <1>5, <1>6, <1>7, <1>9 DEF CameraInv

LEMMA SubjectStep == CameraInv /\ SubjectChanges => CameraInv'
<1> SUFFICES ASSUME CameraInv, SubjectChanges PROVE CameraInv'
  OBVIOUS
<1>1. PICK v, u, s : v = view /\ u = Framed(v, "province") /\ s = about'
  OBVIOUS
<1>2. /\ s \in Subjects /\ view' = (IF assetsIn THEN KitDrawn(u, s) ELSE u)
      /\ drawDue' = ~assetsIn /\ assetsIn' = assetsIn /\ tileCamera' = tileCamera
      /\ middle' = (IF assetsIn THEN Base(view', s) + view'.dx ELSE middle)
  BY <1>1 DEF SubjectChanges
<1>3. CameraOK(v, about) /\ tileZoom \in Int /\ (~assetsIn => v.fit = 0) /\ ButtonsTrue
  BY <1>1 DEF CameraInv
<1>4. KitView(u) /\ u.k >= minK(u) /\ u.mode = "province" /\ u.k = 1000 /\ u.fit = v.fit
  <2>1. KitView(v)
    BY <1>3 DEF CameraOK
  <2> QED  BY ONLY <1>1, <2>1, FramedOK
<1>5. PICK d : d = view'
  OBVIOUS
<1>6. ASSUME assetsIn PROVE CameraOK(d, s) /\ IsDrawn(d, s) /\ d.k = 1000
  <2>1. Drawable(u, s)
    BY ONLY <1>4 DEF Drawable
  <2>2. d = KitDrawn(u, s)
    BY ONLY <1>2, <1>5, <1>6
  <2>3. CameraOK(d, s) /\ IsDrawn(d, s) /\ d.k = 1000 /\ d.mode = IF s = Unshaped THEN "country" ELSE "province"
    BY ONLY <1>2, <1>4, <2>1, <2>2, DrawKeeps
  <2> QED  BY ONLY <1>6, <2>3
<1>7. ASSUME ~assetsIn PROVE CameraOK(d, s) /\ d.k = 1000 /\ d.fit = 0
  <2>1. d = u
    BY ONLY <1>2, <1>5, <1>7
  <2>2. CameraOK(d, s) /\ d.k = 1000 /\ d.fit = 0
    BY ONLY <1>3, <1>4, <1>7, <2>1 DEF CameraOK
  <2> QED  BY ONLY <1>7, <2>2
<1>8. CameraOK(d, s) /\ d.k = 1000 /\ (assetsIn => IsDrawn(d, s)) /\ (~assetsIn => d.fit = 0)
  BY ONLY <1>6, <1>7
<1>9. tileZoom' \in Int
  <2>1. tileZoom' = tileZoom \/ tileZoom' \in {62, 130}
    BY DEF SubjectChanges
  <2> QED  BY <1>3, <2>1
<1>10. ButtonsTrue'
  <2>1. view'.k < PLUS_LIMIT /\ view'.k > CMIN
    BY <1>5, <1>8 DEF PLUS_LIMIT, CMIN
  <2>2. CASE tileCamera # "loaded"
    BY ONLY <1>2, <2>1, <2>2 DEF ButtonsTrue
  <2>3. CASE tileCamera = "loaded" /\ tileZoom' # tileZoom
    <3>1. paintButtons(d, tileCamera, tileZoom')
      BY <1>5, <2>3 DEF SubjectChanges
    <3>2. (~plusOff' => tileZoom' < 170) /\ (~minusOff' => tileZoom' > 45) /\ ~backOff'
      BY ONLY <1>8, <1>9, <2>3, <3>1, PaintedTrue
    <3> QED  BY ONLY <1>2, <2>1, <3>2 DEF ButtonsTrue
  <2>4. CASE tileCamera = "loaded" /\ tileZoom' = tileZoom
    <3>1. plusOff' = plusOff /\ minusOff' = minusOff /\ backOff' = backOff
      BY <2>4 DEF SubjectChanges, paintedVars
    <3>2. (~plusOff => tileZoom < 170) /\ (~minusOff => tileZoom > 45) /\ ~backOff
      BY ONLY <1>3, <2>4 DEF ButtonsTrue
    <3>3. tileCamera' # "none"
      BY ONLY <1>2, <2>4
    <3> QED  BY ONLY <2>4, <3>1, <3>2, <3>3 DEF ButtonsTrue
  <2> QED  BY ONLY <2>2, <2>3, <2>4
<1>11. CameraOK(view, about)'
  <2>1. CameraOK(view', about')
    BY ONLY <1>1, <1>5, <1>8
  <2> QED  BY ONLY <2>1 DEF CameraOK, KitView, minK
<1>12. drawDue' \/ IsDrawn(view, about)'
  <2>1. drawDue' \/ IsDrawn(view', about')
    BY ONLY <1>1, <1>2, <1>5, <1>8
  <2> QED  BY ONLY <2>1 DEF IsDrawn, half, Base
<1>13. drawDue' \/ (middle = Base(view, about) + view.dx)'
  <2>1. drawDue' \/ middle' = Base(view', about') + view'.dx
    BY ONLY <1>1, <1>2
  <2> QED  BY ONLY <2>1 DEF Base
<1>14. (~assetsIn => view.fit = 0 /\ drawDue)'
  BY ONLY <1>2, <1>5, <1>8
<1> QED  BY ONLY <1>1, <1>2, <1>9, <1>10, <1>11, <1>12, <1>13, <1>14 DEF CameraInv

\* The tile camera comes, is lost, or moves: the view is left, the buttons hear of it.
LEMMA TilesKeep ==
  ASSUME CameraInv, UNCHANGED <<about, view, middle, assetsIn>>, drawDue' \in {TRUE, drawDue}, tileZoom' \in Int,
         \/ tileCamera' = "mounted"
         \/ tileCamera' # "none" /\ paintButtons(view, tileCamera', tileZoom')
  PROVE  CameraInv'
<1>1. CameraOK(view, about)
  BY DEF CameraInv
<1>2. PICK v, s, t, z : v = view /\ s = about /\ t = tileCamera' /\ z = tileZoom'
  OBVIOUS
<1>3. t # "none" /\ (t = "loaded" => (~plusOff' => z < 170) /\ (~minusOff' => z > 45) /\ ~backOff')
  <2>1. CASE t = "mounted"
    BY ONLY <2>1
  <2>2. CASE t # "none" /\ paintButtons(v, t, z)
    <3>1. CameraOK(v, s) /\ z \in Int
      BY <1>1, <1>2
    <3> QED  BY ONLY <2>2, <3>1, PaintedTrue
  <2> QED  BY <1>2, <2>1, <2>2
<1>4. ButtonsTrue'
  BY ONLY <1>2, <1>3 DEF ButtonsTrue
<1>5. CameraOK(view, about)'
  BY <1>1 DEF CameraOK, KitView, minK
<1>6. IsDrawn(view, about) => IsDrawn(view, about)'
  BY DEF IsDrawn, half, Base
<1>7. (middle = Base(view, about) + view.dx) => (middle = Base(view, about) + view.dx)'
  BY DEF Base
<1> QED  BY <1>4, <1>5, <1>6, <1>7 DEF CameraInv

LEMMA CameraNextInv == CameraInv /\ [KitCameraNext]_cameraVars => CameraInv'
<1> SUFFICES ASSUME CameraInv, [KitCameraNext]_cameraVars PROVE CameraInv'
  OBVIOUS
<1>a. CameraOK(view, about) /\ view.fit = view.fit /\ tileZoom \in Int /\ KitView(view)
  BY DEF CameraInv, CameraOK
<1>b. PICK v, s : v = view /\ s = about
  OBVIOUS
<1>c. CameraOK(v, s)
  BY <1>a, <1>b
<1>1. CASE Draw
  BY <1>1, DrawStep
<1>2. ASSUME NEW a \in {"in", "out", "country", "province"}, Repaints(MapView(view, a)) PROVE CameraInv'
  <2>1. PICK u : u = MapView(v, a)
    OBVIOUS
  <2>2. CASE a = "in"
    <3>1. CameraOK(u, s) /\ u.fit = v.fit
      <4>1. CameraOK(u, s)
        BY ONLY <1>c, <2>1, <2>2, InView
      <4>2. u = [v EXCEPT !.k = clampK(OneStepIn(v.k), v)]
        BY ONLY <2>1, <2>2 DEF MapView
      <4>3. v = [mode |-> v.mode, k |-> v.k, dx |-> v.dx, fit |-> v.fit, vk |-> v.vk]
        BY ONLY <1>c DEF CameraOK, KitView
      <4> QED  BY ONLY <4>1, <4>2, <4>3
    <3> QED  BY <1>2, <1>b, <2>1, <3>1, RepaintKeeps
  <2>3. CASE a = "out"
    <3>1. CameraOK(u, s)
      BY ONLY <1>c, <2>1, <2>3, OutView
    <3>2. u.fit = v.fit
      <4>1. v = [mode |-> v.mode, k |-> v.k, dx |-> v.dx, fit |-> v.fit, vk |-> v.vk]
        BY ONLY <1>c DEF CameraOK, KitView
      <4>2. u = Framed(v, "country") \/ u = [v EXCEPT !.k = clampK(OneStepOut(v.k), v)]
        BY ONLY <2>1, <2>3 DEF MapView
      <4>3. CASE u = Framed(v, "country")
        <5>1. KitView(v)
          BY ONLY <1>c DEF CameraOK
        <5> QED  BY ONLY <5>1, <4>3, FramedOK
      <4>4. CASE u = [v EXCEPT !.k = clampK(OneStepOut(v.k), v)]
        BY ONLY <4>1, <4>4
      <4> QED  BY ONLY <4>2, <4>3, <4>4
    <3> QED  BY <1>2, <1>b, <2>1, <3>1, <3>2, RepaintKeeps
  <2>4. CASE a \in {"country", "province"}
    <3>1. u = Framed(v, a)
      BY ONLY <2>1, <2>4 DEF MapView
    <3>2. CameraOK(u, s)
      BY ONLY <1>c, <2>4, <3>1, FramedKeeps
    <3>3. u.fit = v.fit
      <4>1. KitView(v)
        BY ONLY <1>c DEF CameraOK
      <4> QED  BY ONLY <4>1, <2>4, <3>1, FramedOK
    <3> QED  BY <1>2, <1>b, <2>1, <3>2, <3>3, RepaintKeeps
  <2> QED  BY <2>2, <2>3, <2>4
<1>3. CASE PressButton
  <2>1. PICK a \in {"in", "out", "country"} : Repaints(MapView(view, a))
    BY <1>3 DEF PressButton
  <2>2. a \in {"in", "out", "country", "province"}
    OBVIOUS
  <2> QED  BY <1>2, <2>1, <2>2
<1>4. CASE PressKey
  <2>1. PICK a \in {"in", "out", "country", "province"} : Repaints(MapView(view, a))
    BY <1>4 DEF PressKey
  <2> QED  BY <1>2, <2>1
<1>5. CASE PanMap
  <2>1. PICK px \in PanPixels : Repaints(Pan(view, px))
    BY <1>5 DEF PanMap
  <2>2. PICK u : u = Pan(v, px)
    OBVIOUS
  <2>3. CameraOK(u, s) /\ u.fit = v.fit
    BY ONLY <1>c, <2>2, px \in PanPixels, PanView
  <2> QED  BY <1>b, <2>1, <2>2, <2>3, RepaintKeeps
<1>6. CASE WheelMap
  <2>1. PICK f \in WheelFactors, sx \in PointerAt : Repaints(ZoomAt(view, f, sx))
    BY <1>6 DEF WheelMap
  <2>2. PICK u : u = ZoomAt(v, f, sx)
    OBVIOUS
  <2>3. CameraOK(u, s) /\ u.fit = v.fit
    BY ONLY <1>c, <2>2, f \in WheelFactors, sx \in PointerAt, WheelView
  <2> QED  BY <1>b, <2>1, <2>2, <2>3, RepaintKeeps
<1>7. CASE SubjectChanges
  BY <1>7, SubjectStep
<1>8. CASE TilesMount
  BY <1>8, <1>a, TilesKeep DEF TilesMount
<1>9. CASE TilesLoad
  <2>1. tileCamera' = "loaded" /\ paintButtons(view, tileCamera', tileZoom')
    BY <1>9 DEF TilesLoad
  <2>2. tileZoom' \in Int
    BY <1>9, <1>a DEF TilesLoad, fitSubject
  <2>3. UNCHANGED <<about, view, middle, assetsIn>> /\ drawDue' = TRUE
    BY <1>9 DEF TilesLoad
  <2>4. tileCamera' # "none"
    BY ONLY <2>1
  <2> QED  BY <2>1, <2>2, <2>3, <2>4, TilesKeep
<1>10. CASE TilesFail
  <2>1. tileCamera' = "failed" /\ paintButtons(view, tileCamera', tileZoom')
    BY <1>10 DEF TilesFail
  <2>2. tileZoom' \in Int
    BY <1>10, <1>a DEF TilesFail
  <2>3. UNCHANGED <<about, view, middle, assetsIn>> /\ drawDue' = TRUE
    BY <1>10 DEF TilesFail
  <2>4. tileCamera' # "none"
    BY ONLY <2>1
  <2> QED  BY <2>1, <2>2, <2>3, <2>4, TilesKeep
<1>11. CASE TilesZoom
  <2>1. tileCamera' = "loaded" /\ paintButtons(view, tileCamera', tileZoom')
    BY <1>11 DEF TilesZoom
  <2>2. tileZoom' \in Int
    BY <1>11 DEF TilesZoom, TileZooms
  <2>3. UNCHANGED <<about, view, middle, assetsIn>> /\ drawDue' = drawDue
    BY <1>11 DEF TilesZoom
  <2>4. tileCamera' # "none"
    BY ONLY <2>1
  <2> QED  BY <2>1, <2>2, <2>3, <2>4, TilesKeep
<1>12. CASE UNCHANGED cameraVars
  BY <1>12 DEF cameraVars, CameraInv, CameraOK, KitView, minK, IsDrawn, half, Base, ButtonsTrue, paintedVars, tileVars
<1> QED
  BY <1>1, <1>3, <1>4, <1>5, <1>6, <1>7, <1>8, <1>9, <1>10, <1>11, <1>12 DEF KitCameraNext

LEMMA CameraInvKeepsPlace == CameraInv => CameraKeepsPlace
<1> SUFFICES ASSUME CameraInv PROVE CameraKeepsPlace
  OBVIOUS
<1>1. PICK v, s : v = view /\ s = about
  OBVIOUS
<1>2. CameraOK(v, s) /\ s \in Subjects /\ ButtonsTrue
  BY <1>1 DEF CameraInv
<1>3. ASSUME ~drawDue
      PROVE  /\ middle = Base(view, about) + view.dx
             /\ middle + half(view.vk) >= CountryLeft /\ middle - half(view.vk) <= CountryRight
  <2>1. IsDrawn(v, s) /\ middle = Base(v, s) + v.dx
    BY <1>1, <1>3 DEF CameraInv
  <2>2. PICK h \in Nat : h = half(v.vk)
    <3>1. v.vk \in Nat \ {0}
      BY ONLY <1>2 DEF CameraOK, KitView
    <3> QED  BY ONLY <3>1, HalfNat
  <2>3. PICK b \in Int : b = Base(v, s) + v.dx
    <3>1. s # Unshaped \/ v.mode # "province"
      BY ONLY <2>1 DEF IsDrawn
    <3>2. v.dx \in Int
      BY ONLY <1>2 DEF CameraOK, KitView
    <3>3. Base(v, s) \in Int
      BY ONLY <1>2, <3>1, MiddleIsPlace
    <3> QED  BY ONLY <3>2, <3>3
  <2>4. CountryLeft - h <= b /\ b <= CountryRight + h
    BY ONLY <2>1, <2>2, <2>3 DEF IsDrawn
  <2>5. b + h >= CountryLeft /\ b - h <= CountryRight
    BY ONLY <2>4, b \in Int, h \in Nat DEF CountryLeft, CountryRight
  <2> QED  BY ONLY <1>1, <2>1, <2>2, <2>3, <2>5
<1>4. ASSUME ~drawDue
      PROVE  LET out == KitDrawn(MapView(view, "out"), about)
             IN  out.vk <= view.vk + 10 /\ 3 * out.vk >= 2 * view.vk - 30
  <2>1. IsDrawn(v, s)
    BY <1>1, <1>4 DEF CameraInv
  <2>2. PICK u, d : u = MapView(v, "out") /\ d = KitDrawn(u, s)
    OBVIOUS
  <2>3. d.vk <= v.vk + 10 /\ 3 * d.vk >= 2 * v.vk - 30
    BY ONLY <1>2, <2>1, <2>2, OutDrawn
  <2> QED  BY ONLY <1>1, <2>2, <2>3
<1>5. ASSUME ~drawDue, NEW px \in PanPixels
      PROVE  LET to == KitDrawn(Pan(view, px), about)
             IN  AtEdge(to, about) \/ Near(PlaceAt(to, px), PlaceAt(view, 0), 2)
  <2>1. IsDrawn(v, s)
    BY <1>1, <1>5 DEF CameraInv
  <2>2. PICK d : d = KitDrawn(Pan(v, px), s)
    OBVIOUS
  <2>3. \/ AtEdge(d, s)
        \/ Near(Base(d, s) + d.dx + (px * 1000) \div d.vk, Base(v, s) + v.dx + (0 * 1000) \div v.vk, 2)
    BY ONLY <1>2, <2>1, <2>2, px \in PanPixels, PanDrawn
  <2>4. AtEdge(d, s) \/ Near(PlaceAt(d, px), PlaceAt(v, 0), 2)
    BY ONLY <1>1, <2>3 DEF PlaceAt
  <2> QED  BY ONLY <1>1, <2>2, <2>4
<1>6. ASSUME ~drawDue, NEW f \in WheelFactors, NEW sx \in PointerAt
      PROVE  LET to == KitDrawn(ZoomAt(view, f, sx), about)
             IN  AtEdge(to, about) \/ Near(PlaceAt(to, sx), PlaceAt(view, sx), 2 + 1000 \div f)
  <2>1. IsDrawn(v, s)
    BY <1>1, <1>6 DEF CameraInv
  <2>2. PICK d : d = KitDrawn(ZoomAt(v, f, sx), s)
    OBVIOUS
  <2>3. \/ AtEdge(d, s)
        \/ Near(Base(d, s) + d.dx + (sx * 1000) \div d.vk, Base(v, s) + v.dx + (sx * 1000) \div v.vk, 2 + 1000 \div f)
    BY ONLY <1>2, <2>1, <2>2, f \in WheelFactors, sx \in PointerAt, WheelDrawn
  <2>4. AtEdge(d, s) \/ Near(PlaceAt(d, sx), PlaceAt(v, sx), 2 + 1000 \div f)
    BY ONLY <1>1, <2>3 DEF PlaceAt
  <2> QED  BY ONLY <1>1, <2>2, <2>4
<1>7. tileCamera = "none" => /\ ~plusOff => MapView(view, "in").k > view.k
                             /\ ~minusOff => MapView(view, "out") # view
  <2>1. view.k < PLUS_LIMIT => MapView(view, "in").k > view.k
    BY ONLY <1>1, <1>2, InMoves
  <2>2. view.k > CMIN \/ view.mode = "province" => MapView(view, "out") # view
    BY ONLY <1>1, <1>2, OutMoves
  <2> QED  BY ONLY <1>2, <2>1, <2>2 DEF ButtonsTrue
<1>8. tileCamera = "loaded" => (~plusOff => tileZoom < 170) /\ (~minusOff => tileZoom > 45) /\ ~backOff
  BY ONLY <1>2 DEF ButtonsTrue
<1> QED  BY ONLY <1>3, <1>4, <1>5, <1>6, <1>7, <1>8, Zenon DEF CameraKeepsPlace, AtEdge, atEdge

\* The camera of the kit's maps: for any provinces, any pan, any turn of the wheel and any
\* place of the pointer tried, whatever the canvas measures, a drawn map has the country in
\* its window, minus is at most a step, a pan by so many pixels moves the map by as many
\* units of the drawing and a zoom leaves the place so many units from the middle, to the
\* roundings unless the clamp stops them, and a button that is not disabled moves its
\* camera.
THEOREM CameraAlwaysKeepsPlace == KitCameraSpec => []CameraKeepsPlace
  BY CameraInitInv, CameraNextInv, CameraInvKeepsPlace, PTL DEF KitCameraSpec

\* map-render.js:204-206, where it holds: on a canvas as wide on screen as the drawing is in
\* units, the place a drag takes hold of stays under the pointer.
THEOREM DragFollowsAtFrameWidth ==
  ASSUME ScreenWidth = FRAME_W
  PROVE  KitCameraSpec => []PanFollowsPointer
<1>1. ASSUME NEW x \in Int PROVE UnitsOf(x) = x
  <2>1. PICK n, t, q \in Int : n = FRAME_W /\ t = x * n /\ q = t \div n
    BY QuotientBounds DEF FRAME_W
  <2>2. n = 926 /\ n * q <= t /\ t < n * q + n
    BY <2>1, QuotientBounds DEF FRAME_W
  <2>3. q = x
    BY ONLY <2>1, <2>2, x \in Int, n \in Int, t \in Int, q \in Int
  <2> QED  BY ONLY <2>1, <2>3, ScreenWidth = FRAME_W DEF UnitsOf
<1>2. CameraKeepsPlace => PanFollowsPointer
  <2> SUFFICES ASSUME CameraKeepsPlace, ~drawDue, NEW px \in PanPixels,
                      NEW to, to = KitDrawn(Pan(view, px), about)
               PROVE  atEdge(to) \/ Near(PlaceUnder(to, px), PlaceUnder(view, 0), 2)
    BY DEF PanFollowsPointer
  <2>1. atEdge(to) \/ Near(PlaceAt(to, px), PlaceAt(view, 0), 2)
    BY DEF CameraKeepsPlace
  <2>2. UnitsOf(px) = px /\ UnitsOf(0) = 0
    BY <1>1, KitCameraAssumption
  <2> QED  BY ONLY <2>1, <2>2 DEF PlaceUnder
<1> QED  BY <1>2, CameraAlwaysKeepsPlace, PTL

-----------------------------------------------------------------------------
LEMMA ChromeInitTypes == ChromeInit => ChromeTypeOK
<1> SUFFICES ASSUME ChromeInit PROVE ChromeTypeOK
  OBVIOUS
<1>1. PICK auto \in BOOLEAN :
        fresh = [busy |-> FALSE, failed |-> FALSE, auto |-> auto, timer |-> auto, waiting |-> {}]
  BY DEF ChromeInit
<1>2. phone \in BOOLEAN
  BY DEF ChromeInit, isPhoneViewport
<1>3. chromeGestures \in 0 .. MaxGestures
  BY ChromeAssumption DEF ChromeInit
<1>4. keptFold \in BOOLEAN /\ readerFold \in BOOLEAN /\ wind \in BOOLEAN
  BY DEF ChromeInit
<1>5. fresh \in [busy : BOOLEAN, failed : BOOLEAN, auto : BOOLEAN, timer : BOOLEAN,
                 waiting : SUBSET Providers]
  BY <1>1
<1>6. /\ viewport \in Viewports /\ refreshAt \in {"footer", "row"} /\ pops \subseteq Pops
      /\ legend \in [open : BOOLEAN, queued : BOOLEAN, auto : {"none", "open", "shut"}]
      /\ list \in [open : BOOLEAN, foldedLegend : BOOLEAN]
  BY <1>4 DEF ChromeInit
<1> QED  BY <1>2, <1>3, <1>4, <1>5, <1>6 DEF ChromeTypeOK

LEMMA ChromeNextTypes == ChromeTypeOK /\ [ChromeNext]_chromeVars => ChromeTypeOK'
<1> SUFFICES ASSUME ChromeTypeOK, [ChromeNext]_chromeVars PROVE ChromeTypeOK'
  OBVIOUS
<1> DEFINE Key == [open : BOOLEAN, queued : BOOLEAN, auto : {"none", "open", "shut"}]
           Lists == [open : BOOLEAN, foldedLegend : BOOLEAN]
           Store == [busy : BOOLEAN, failed : BOOLEAN, auto : BOOLEAN, timer : BOOLEAN,
                     waiting : SUBSET Providers]
<1>1. /\ viewport \in Viewports /\ phone \in BOOLEAN /\ chromeGestures \in 0 .. MaxGestures
      /\ legend \in Key /\ keptFold \in BOOLEAN /\ readerFold \in BOOLEAN /\ wind \in BOOLEAN
      /\ list \in Lists /\ refreshAt \in {"footer", "row"} /\ pops \subseteq Pops
      /\ fresh \in Store
  BY DEF ChromeTypeOK
<1>2. legend.open \in BOOLEAN /\ legend.auto \in {"none", "open", "shut"} /\ ListLeft \in Lists
  BY <1>1 DEF ListLeft
<1>3. \A open \in BOOLEAN : SetLegendOpen(open) \in Key
  BY <1>1 DEF SetLegendOpen, autoTarget
<1>4. KeyLeft \in Key /\ KeyLeft.open \in BOOLEAN
  BY <1>1, <1>3 DEF KeyLeft
<1>5. chromeGestures' \in 0 .. MaxGestures
  <2>1. ChromeGesture \/ chromeGestures' = chromeGestures
    BY DEF ChromeNext, ReaderFolds, ShowWind, Escape, ReaderTaps, OnToggle, OpenList, CloseList,
           CloseLegend, Press, PickWindowOption, MapClick, Rotate, AskRefresh, Interval,
           RequestDone, SetAuto, ProviderDone, ProviderRejects, chromeVars
  <2> QED  BY <1>1, <2>1, ChromeAssumption DEF ChromeGesture
<1>6. viewport' \in Viewports /\ phone' = phone /\ refreshAt' \in {"footer", "row"}
  BY <1>1
  DEF ChromeNext, ReaderFolds, ShowWind, Escape, ReaderTaps, OnToggle, OpenList, CloseList,
      CloseLegend, Press, PickWindowOption, MapClick, Rotate, AskRefresh, Interval,
      RequestDone, SetAuto, ProviderDone, ProviderRejects, chromeVars, popVars
<1>7. /\ legend' \in Key /\ readerFold' \in BOOLEAN /\ keptFold' \in BOOLEAN /\ list' \in Lists
  <2> HIDE DEF Key, Lists
  <2>1. CASE UNCHANGED legendVars
    BY <1>1, <2>1 DEF legendVars
  <2>2. ASSUME NEW open \in BOOLEAN, ReaderFolds(open)
        PROVE  legend' \in Key /\ readerFold' \in BOOLEAN /\ keptFold' = keptFold /\ list' = list
    <3>1. [legend EXCEPT !.open = open, !.queued = TRUE] \in Key
      BY <1>1 DEF Key
    <3> QED  BY <2>2, <3>1 DEF ReaderFolds
  <2>3. CASE ReaderTaps
    <3>1. [KeyLeft EXCEPT !.open = ~@, !.queued = TRUE] \in Key
      BY <1>4 DEF Key
    <3>2. readerFold' \in BOOLEAN /\ keptFold' = keptFold /\ list' \in {list, ListLeft}
      BY <1>4, <2>3 DEF ReaderTaps
    <3> QED  BY <1>1, <1>2, <2>3, <3>1, <3>2 DEF ReaderTaps
  <2>4. CASE OnToggle
    <3>1. [legend EXCEPT !.queued = FALSE, !.auto = "none"] \in Key
      BY <1>1 DEF Key
    <3>2. readerFold' = readerFold /\ keptFold' \in {keptFold, legend.open} /\ list' \in {list, ListLeft}
      BY <2>4 DEF OnToggle
    <3> QED  BY <1>1, <1>2, <2>4, <3>1, <3>2 DEF OnToggle
  <2>5. CASE OpenList
    <3>1. [open |-> TRUE, foldedLegend |-> list.foldedLegend \/ legend.open] \in Lists
      BY <1>1 DEF Lists
    <3> QED  BY <1>1, <1>3, <2>5, <3>1 DEF OpenList
  <2>6. ASSUME CloseList \/ CloseLegend \/ MapClick \/ \E p \in Pops : Press(p)
        PROVE  /\ legend' \in Key /\ UNCHANGED <<readerFold, keptFold>>
               /\ list' \in {list, ListLeft}
    BY <1>1, <1>2, <1>3, <1>4, <2>6 DEF CloseList, CloseLegend, MapClick, Press
  <2>7. ASSUME \/ \E open \in BOOLEAN : ShowWind(open) \/ Escape(open)
               \/ PickWindowOption \/ AskRefresh \/ Interval \/ RequestDone \/ SetAuto
               \/ \E v \in Viewports : Rotate(v)
               \/ \E p \in Providers : ProviderDone(p) \/ ProviderRejects(p)
               \/ UNCHANGED chromeVars
        PROVE  UNCHANGED legendVars
    BY <2>7 DEF ShowWind, Escape, PickWindowOption, AskRefresh, Interval, RequestDone, SetAuto,
                Rotate, ProviderDone, ProviderRejects, chromeVars, legendVars
  <2> QED
    BY <1>1, <1>2, <2>1, <2>2, <2>3, <2>4, <2>5, <2>6, <2>7 DEF ChromeNext
<1>8. pops' \subseteq Pops /\ wind' \in BOOLEAN
  <2>1. ASSUME NEW p \in Pops, Press(p) PROVE pops' \subseteq Pops /\ wind' = wind
    BY <1>1, <2>1 DEF Press
  <2>2. ASSUME NEW open \in BOOLEAN, ShowWind(open) \/ Escape(open)
        PROVE  pops' \subseteq pops /\ wind' \in BOOLEAN
    BY <1>1, <2>2 DEF ShowWind, Escape
  <2>3. ASSUME PickWindowOption \/ MapClick PROVE pops' \subseteq pops /\ wind' = wind
    BY <2>3 DEF PickWindowOption, MapClick
  <2>4. ASSUME \/ \E open \in BOOLEAN : ReaderFolds(open)
               \/ ReaderTaps \/ OnToggle \/ OpenList \/ CloseList \/ CloseLegend
               \/ AskRefresh \/ Interval \/ RequestDone \/ SetAuto
               \/ \E v \in Viewports : Rotate(v)
               \/ \E p \in Providers : ProviderDone(p) \/ ProviderRejects(p)
               \/ UNCHANGED chromeVars
        PROVE  pops' = pops /\ wind' = wind
    BY <2>4 DEF ReaderFolds, ReaderTaps, OnToggle, OpenList, CloseList, CloseLegend, AskRefresh,
                Interval, RequestDone, SetAuto, Rotate, ProviderDone, ProviderRejects, chromeVars,
                popVars
  <2> QED  BY <1>1, <2>1, <2>2, <2>3, <2>4 DEF ChromeNext
<1>9. fresh' \in Store
  <2>1. BeginRequest(fresh) \in Store
    BY <1>1 DEF BeginRequest
  <2>2. ASSUME NEW p \in Providers, ProviderDone(p) \/ ProviderRejects(p) PROVE fresh' \in Store
    BY ZenonT(60), <1>1, <2>2 DEF ProviderDone, ProviderRejects
  <2>3. ASSUME RequestDone \/ SetAuto PROVE fresh' \in Store
    BY <1>1, <2>3 DEF RequestDone, SetAuto
  <2> HIDE DEF Store
  <2>4. ASSUME \/ \E open \in BOOLEAN : ReaderFolds(open) \/ ShowWind(open) \/ Escape(open)
               \/ ReaderTaps \/ OnToggle \/ OpenList \/ CloseList \/ CloseLegend
               \/ \E p \in Pops : Press(p)
               \/ PickWindowOption \/ MapClick
               \/ \E v \in Viewports : Rotate(v)
               \/ UNCHANGED chromeVars
        PROVE  fresh' = fresh
    BY <2>4 DEF ReaderFolds, ShowWind, Escape, ReaderTaps, OnToggle, OpenList, CloseList,
                CloseLegend, Press, PickWindowOption, MapClick, Rotate, chromeVars
  <2>5. ASSUME AskRefresh \/ Interval PROVE fresh' = BeginRequest(fresh)
    BY <2>5 DEF AskRefresh, Interval
  <2> QED  BY <1>1, <2>1, <2>2, <2>3, <2>4, <2>5 DEF ChromeNext
<1> QED  BY <1>1, <1>5, <1>6, <1>7, <1>8, <1>9 DEF ChromeTypeOK

\* The shape of the furniture's state (chrome.js, legend.js, refresh store).
THEOREM ChromeTypeCorrect == ChromeSpec => []ChromeTypeOK
  BY ChromeInitTypes, ChromeNextTypes, PTL DEF ChromeSpec

-----------------------------------------------------------------------------
\* What the homes and the padding are is known of the screen, so only the counters and
\* the sensors named are left.
SheetsShape ==
  /\ folded \in BOOLEAN /\ scrollOnExit \in BOOLEAN /\ returnY \in BOOLEAN /\ leaving \in BOOLEAN
  /\ asks \in 0 .. MaxAsks /\ openId \in Sensors \cup {NoSensor}
  /\ rendered \in 0 .. MaxPanels /\ panel \in {0, rendered}

LEMMA SheetsShapeTypes == SheetsInv /\ SheetsShape => SheetsTypeOK
<1> SUFFICES ASSUME SheetsInv, SheetsShape PROVE SheetsTypeOK
  OBVIOUS
<1>1. told \in BOOLEAN /\ homes = Belongs(told, wide, panel) /\ padded = Covers(homes, folded)
  BY DEF SheetsInv, Types, isFull
<1>2. panel \in 0 .. MaxPanels
  BY SheetsAssumption DEF SheetsShape
<1>3. homes \in [Homes -> 0 .. MaxPanels]
  BY <1>1, <1>2, SheetsAssumption DEF Belongs
<1>4. padded \in {"none", "strip", "dock"}
  BY <1>1 DEF Covers
<1> QED  BY <1>1, <1>3, <1>4 DEF SheetsTypeOK, SheetsShape, SheetsInv, Types

LEMMA SheetsNextTypes ==
  SheetsInv /\ SheetsShape /\ [SheetsNext]_sheetVars => SheetsShape'
<1> SUFFICES ASSUME SheetsInv, SheetsShape, [SheetsNext]_sheetVars PROVE SheetsShape'
  OBVIOUS
<1>1. /\ folded \in BOOLEAN /\ scrollOnExit \in BOOLEAN /\ returnY \in BOOLEAN
      /\ leaving \in BOOLEAN /\ native \in BOOLEAN /\ faux \in BOOLEAN
      /\ asks \in 0 .. MaxAsks /\ openId \in Sensors \cup {NoSensor}
      /\ rendered \in 0 .. MaxPanels /\ panel \in {0, rendered}
      /\ wide \in BOOLEAN
  BY DEF SheetsShape, SheetsInv, Types
<1>2. ASSUME NEW id \in Sensors \cup {NoSensor}, NEW ids, Card(id, ids)
      PROVE  /\ openId' \in Sensors \cup {NoSensor} /\ returnY' \in BOOLEAN
             /\ rendered' \in 0 .. MaxPanels /\ panel' \in {0, rendered'}
  <2>1. returnY' \in BOOLEAN
    BY <1>1, <1>2 DEF Card, isFull
  <2>2. rendered' \in 0 .. MaxPanels /\ panel' \in {0, rendered'}
    BY <1>1, <1>2, SheetsAssumption DEF Card
  <2> QED  BY <1>2, <2>1, <2>2 DEF Card
<1>3. CASE SensorCardMoves \/ EscapeCard
  <2>1. \E id \in Sensors \cup {NoSensor} : \E ids : Card(id, ids)
    <3>1. CASE EscapeCard
      BY <3>1 DEF EscapeCard
    <3>2. CASE \E s \in Sensors : Opens(s)
      BY <3>2 DEF Opens
    <3>3. CASE CloseCard
      BY <3>3 DEF CloseCard
    <3>4. CASE \E ids \in SUBSET Sensors : RegistryLands(ids)
      BY <1>1, <3>4 DEF RegistryLands
    <3> QED  BY <1>3, <3>1, <3>2, <3>3, <3>4 DEF SensorCardMoves
  <2>2. UNCHANGED <<screenVars, folded, scrollOnExit>>
    BY <1>3 DEF SensorCardMoves, EscapeCard
  <2> QED  BY <1>1, <1>2, <2>1, <2>2 DEF SheetsShape, screenVars
<1>4. CASE Screen
  <2>1. UNCHANGED <<cardVars, folded, returnY>>
    BY <1>4 DEF Screen
  <2>2. asks' \in 0 .. MaxAsks
    <3>1. \/ asks' = asks
          \/ asks < MaxAsks /\ asks' = asks + 1
          \/ asks > 0 /\ asks' = asks - 1
      BY <1>4 DEF Screen, PressFull, PressFauxOnly, Granted, Refused, NativeGone
    <3>2. MaxAsks \in Nat /\ asks \in 0 .. MaxAsks
      BY <1>1, SheetsAssumption
    <3> QED  BY ONLY <3>1, <3>2
  <2>3. leaving' \in BOOLEAN /\ scrollOnExit' \in BOOLEAN
    BY <1>1, <1>4
    DEF Screen, PressFull, PressFauxOnly, Granted, Refused, NativeGone, Paint, isFull
  <2> QED  BY <1>1, <2>1, <2>2, <2>3 DEF SheetsShape, cardVars
<1>5. CASE EscapeFaux \/ SheetHistory
  <2>1. UNCHANGED <<asks, cardVars, folded, returnY>>
    BY <1>5 DEF EscapeFaux, SheetHistory
  <2>2. leaving' \in BOOLEAN /\ scrollOnExit' \in BOOLEAN
    BY <1>1, <1>5 DEF EscapeFaux, SheetHistory, Paint
  <2> QED  BY <1>1, <2>1, <2>2 DEF SheetsShape, cardVars
<1>6. CASE FoldDock \/ Resize \/ UNCHANGED sheetVars
  BY <1>1, <1>6 DEF FoldDock, Resize, sheetVars, SheetsShape, screenVars, cardVars
<1> QED  BY <1>3, <1>4, <1>5, <1>6 DEF SheetsNext

\* The shape of the card's state (panel.js, sidedock, sensorsheet).
THEOREM SheetsTypeCorrect == SheetsSpec => []SheetsTypeOK
<1>1. SheetsInit => SheetsShape
  <2>1. 0 \in 0 .. MaxAsks /\ 0 \in 0 .. MaxPanels
    BY SheetsAssumption
  <2> QED  BY <2>1 DEF SheetsInit, SheetsShape
<1> QED
  BY SheetsInitInv, SheetsNextInv, SheetsShapeTypes, SheetsNextTypes, <1>1, PTL DEF SheetsSpec

-----------------------------------------------------------------------------
\* One fetch of an overlay at most, and only while its row says it is loading.
Calls == [of : Fetched \cup {"none"}, at : {"none", "fetch", "import"}, box : BOOLEAN]
CallsInv ==
  /\ applies \in [CallIds -> Calls]
  /\ \A k \in CallIds : applies[k].at = "fetch" => applies[k].of \in loading
  /\ \A o \in loading : \E k \in CallIds : applies[k].of = o /\ applies[k].at = "fetch"
  /\ \A k, j \in CallIds :
       applies[k].at = "fetch" /\ applies[j].at = "fetch" /\ applies[k].of = applies[j].of => k = j

OverlaysShape ==
  /\ ticked \subseteq Boxes /\ keptBoxes \subseteq Boxes /\ drawn \subseteq Boxes
  /\ on \subseteq Fetched /\ loading \subseteq Fetched
  /\ bodies \in [Fetched -> {"none", "held", "stale"}]
  /\ noted \in BOOLEAN /\ reduced \in BOOLEAN
  /\ streaks \in 0 .. started /\ started \in 0 .. MaxStreaks /\ frames \subseteq 1 .. MaxStreaks
  /\ detail \in {"coming", "shown", "off", "absent"}

LEMMA OverlaysShapeTypes == OverlaysInv /\ CallsInv /\ OverlaysShape => OverlaysTypeOK
<1> SUFFICES ASSUME OverlaysInv, CallsInv, OverlaysShape PROVE OverlaysTypeOK
  OBVIOUS
<1>1. \A o \in Fetched : o \in loading <=> \E k \in CallIds : applies[k].of = o /\ applies[k].at = "fetch"
  BY DEF CallsInv
<1>2. {noted, reduced, moving, trails, pageHidden} \subseteq BOOLEAN
  BY DEF OverlaysInv, OverlaysShape
<1> QED  BY <1>1, <1>2 DEF OverlaysTypeOK, CallsInv, OverlaysShape, Calls

\* A call is begun in a free place, for an overlay that is not being fetched, or one
\* whose body is in hand.
LEMMA CallBegins ==
  ASSUME CallsInv, NEW k \in CallIds, applies[k] = NoCall,
         NEW o \in Fetched, NEW at \in {"fetch", "import"}, NEW box \in BOOLEAN,
         at = "fetch" => o \notin loading,
         applies' = [applies EXCEPT ![k] = [of |-> o, at |-> at, box |-> box]],
         loading' = IF at = "fetch" THEN loading \cup {o} ELSE loading
  PROVE  CallsInv'
<1>1. PICK c : c = [of |-> o, at |-> at, box |-> box]
  OBVIOUS
<1>2. c \in Calls /\ c.of = o /\ c.at = at
  BY <1>1 DEF Calls
<1>3. applies' = [applies EXCEPT ![k] = c]
  BY <1>1
<1>4. /\ applies' \in [CallIds -> Calls] /\ applies'[k] = c
      /\ \A j \in CallIds \ {k} : applies'[j] = applies[j]
  BY <1>2, <1>3 DEF CallsInv
<1>5. applies[k].at # "fetch"
  BY DEF NoCall
<1>6. \A j \in CallIds : applies'[j].at = "fetch" => applies'[j].of \in loading'
  BY <1>2, <1>4 DEF CallsInv
<1>7. \A p \in loading' : \E j \in CallIds : applies'[j].of = p /\ applies'[j].at = "fetch"
  <2> SUFFICES ASSUME NEW p \in loading'
               PROVE  \E j \in CallIds : applies'[j].of = p /\ applies'[j].at = "fetch"
    OBVIOUS
  <2>1. CASE p \in loading
    <3>1. PICK j \in CallIds : applies[j].of = p /\ applies[j].at = "fetch"
      BY <2>1 DEF CallsInv
    <3>2. j # k
      BY <1>5, <3>1
    <3> QED  BY <1>4, <3>1, <3>2
  <2>2. CASE p = o /\ at = "fetch"
    BY <1>2, <1>4, <2>2
  <2> QED  BY <2>1, <2>2
<1>8. \A i, j \in CallIds :
        applies'[i].at = "fetch" /\ applies'[j].at = "fetch" /\ applies'[i].of = applies'[j].of => i = j
  <2> SUFFICES ASSUME NEW i \in CallIds, NEW j \in CallIds, applies'[i].at = "fetch",
                      applies'[j].at = "fetch", applies'[i].of = applies'[j].of
               PROVE  i = j
    OBVIOUS
  <2>1. CASE i # k /\ j # k
    BY <1>4, <2>1 DEF CallsInv
  <2>2. CASE i = k /\ j # k
    <3>1. applies[j].of = o /\ applies[j].at = "fetch" /\ at = "fetch"
      BY <1>2, <1>4, <2>2
    <3> QED  BY <3>1 DEF CallsInv
  <2>3. CASE i # k /\ j = k
    <3>1. applies[i].of = o /\ applies[i].at = "fetch" /\ at = "fetch"
      BY <1>2, <1>4, <2>3
    <3> QED  BY <3>1 DEF CallsInv
  <2> QED  BY <2>1, <2>2, <2>3
<1> QED  BY <1>4, <1>6, <1>7, <1>8 DEF CallsInv

\* A call that was not fetching ends.
LEMMA CallEnds ==
  ASSUME CallsInv, NEW k \in CallIds, applies[k].at # "fetch",
         applies' = [applies EXCEPT ![k] = NoCall], loading' = loading
  PROVE  CallsInv'
<1>1. NoCall \in Calls /\ NoCall.at # "fetch"
  BY DEF NoCall, Calls
<1>2. /\ applies' \in [CallIds -> Calls] /\ applies'[k] = NoCall
      /\ \A j \in CallIds \ {k} : applies'[j] = applies[j]
  BY <1>1 DEF CallsInv
<1> QED  BY <1>1, <1>2 DEF CallsInv

\* A fetch ends: the call is over, or goes on to its import.
LEMMA FetchEnds ==
  ASSUME CallsInv, NEW k \in CallIds, applies[k].at = "fetch",
         NEW c \in Calls, c.at # "fetch", applies' = [applies EXCEPT ![k] = c],
         loading' = loading \ {applies[k].of}
  PROVE  CallsInv'
<1>1. /\ applies' \in [CallIds -> Calls] /\ applies'[k] = c
      /\ \A j \in CallIds \ {k} : applies'[j] = applies[j]
  BY DEF CallsInv
<1>2. \A j \in CallIds : applies'[j].at = "fetch" => j # k /\ applies[j].at = "fetch" /\ applies'[j] = applies[j]
  BY <1>1
<1>3. \A j \in CallIds : applies'[j].at = "fetch" => applies'[j].of \in loading'
  BY <1>2 DEF CallsInv
<1>4. \A p \in loading' : \E j \in CallIds : applies'[j].of = p /\ applies'[j].at = "fetch"
  <2> SUFFICES ASSUME NEW p \in loading'
               PROVE  \E j \in CallIds : applies'[j].of = p /\ applies'[j].at = "fetch"
    OBVIOUS
  <2>1. PICK j \in CallIds : applies[j].of = p /\ applies[j].at = "fetch"
    BY DEF CallsInv
  <2>2. j # k
    BY <2>1
  <2> QED  BY <1>1, <2>1, <2>2
<1>5. \A i, j \in CallIds :
        applies'[i].at = "fetch" /\ applies'[j].at = "fetch" /\ applies'[i].of = applies'[j].of => i = j
  BY <1>2 DEF CallsInv
<1> QED  BY <1>1, <1>3, <1>4, <1>5 DEF CallsInv

LEMMA CallsNextInv == CallsInv /\ OverlaysShape /\ [OverlaysNext]_overlayVars => CallsInv'
<1> SUFFICES ASSUME CallsInv, OverlaysShape, [OverlaysNext]_overlayVars PROVE CallsInv'
  OBVIOUS
<1>1. ASSUME UNCHANGED <<applies, loading>> PROVE CallsInv'
  BY <1>1 DEF CallsInv
<1>2. ASSUME NEW k \in CallIds, Shows(k) PROVE CallsInv'
  BY <1>2, CallEnds DEF Shows
<1>3. ASSUME NEW o \in Fetched, TurnOn(o) PROVE CallsInv'
  <2>1. CASE UNCHANGED <<applies, loading>>
    BY <1>1, <2>1
  <2>2. CASE ~Drops(o) /\ Asks(o, TRUE)
    <3>1. PICK k \in CallIds, at \in {"fetch", "import"} :
            /\ at = IF bodies[o] = "none" THEN "fetch" ELSE "import"
            /\ applies[k] = NoCall
            /\ applies' = [applies EXCEPT ![k] = [of |-> o, at |-> at, box |-> TRUE]]
      BY <2>2 DEF Asks
    <3>2. loading' = IF at = "fetch" THEN loading \cup {o} ELSE loading
      BY <2>2, <3>1 DEF Asks
    <3>3. o \notin loading
      BY <2>2 DEF Drops
    <3> QED  BY <3>1, <3>2, <3>3, CallBegins
  <2> QED  BY <1>3, <2>1, <2>2 DEF TurnOn
<1>4. ASSUME NEW k \in CallIds, Lands(k) PROVE CallsInv'
  <2>1. applies[k] \in Calls /\ NoCall \in Calls /\ NoCall.at # "fetch"
    BY DEF CallsInv, NoCall, Calls
  <2>2. PICK c : c = [applies[k] EXCEPT !.at = "import"]
    OBVIOUS
  <2>3. c \in Calls /\ c.at # "fetch"
    BY <2>1, <2>2 DEF Calls
  <2>4. applies' = [applies EXCEPT ![k] = NoCall] \/ applies' = [applies EXCEPT ![k] = c]
    BY <1>4, <2>2 DEF Lands
  <2>5. applies[k].at = "fetch" /\ loading' = loading \ {applies[k].of}
    BY <1>4 DEF Lands
  <2> QED  BY <2>1, <2>3, <2>4, <2>5, FetchEnds
<1>5. ASSUME NEW k \in CallIds, FetchFails(k) PROVE CallsInv'
  <2>1. NoCall \in Calls /\ NoCall.at # "fetch"
    BY DEF NoCall, Calls
  <2> QED  BY <1>5, <2>1, FetchEnds DEF FetchFails
<1>6. CASE refreshWind
  <2>1. CASE UNCHANGED <<applies, loading>>
    BY <1>1, <2>1
  <2>2. CASE "wind" \in on /\ "wind" \notin loading
    <3>1. PICK k \in CallIds :
            /\ applies[k] = NoCall
            /\ applies' = [applies EXCEPT ![k] = [of |-> "wind", at |-> "fetch", box |-> FALSE]]
      BY <1>6, <2>2 DEF refreshWind
    <3>2. loading' = loading \cup {"wind"} /\ "wind" \in Fetched
      BY <1>6, <2>2 DEF refreshWind, Fetched
    <3> QED  BY <2>2, <3>1, <3>2, CallBegins
  <2> QED  BY <1>6, <2>1, <2>2 DEF refreshWind
<1>7. ASSUME \/ \E o \in Fetched : TurnOff(o)
             \/ HourPasses \/ Frame \/ MoveStart \/ MoveStop \/ PageVisibility
             \/ ToggleBasemap \/ DetailLands \/ UNCHANGED overlayVars
      PROVE  UNCHANGED <<applies, loading>>
  BY <1>7 DEF TurnOff, HourPasses, Frame, MoveStart, MoveStop, PageVisibility, ToggleBasemap,
              DetailLands, overlayVars
<1> QED  BY <1>1, <1>2, <1>3, <1>4, <1>5, <1>6, <1>7 DEF OverlaysNext

LEMMA OverlaysNextShape ==
  OverlaysInv /\ CallsInv /\ OverlaysShape /\ [OverlaysNext]_overlayVars => OverlaysShape'
<1> SUFFICES ASSUME OverlaysInv, CallsInv, OverlaysShape, [OverlaysNext]_overlayVars
             PROVE  OverlaysShape'
  OBVIOUS
<1>1. /\ ticked \subseteq Boxes /\ keptBoxes \subseteq Boxes /\ drawn \subseteq Boxes
      /\ on \subseteq Fetched /\ loading \subseteq Fetched
      /\ bodies \in [Fetched -> {"none", "held", "stale"}]
      /\ noted \in BOOLEAN /\ reduced \in BOOLEAN
      /\ streaks \in 0 .. started /\ started \in 0 .. MaxStreaks /\ frames \subseteq 1 .. MaxStreaks
      /\ detail \in {"coming", "shown", "off", "absent"}
      /\ Fetched \subseteq Boxes /\ "basemap" \in Boxes /\ "wind" \in Fetched
      /\ MaxStreaks \in Nat
  BY OverlaysAssumption DEF OverlaysShape, Fetched, Boxes
<1>2. \A k \in CallIds : /\ applies[k].at = "fetch" => applies[k].of \in Fetched
  BY <1>1 DEF CallsInv
<1>3. streaks' \in 0 .. started' /\ started' \in 0 .. MaxStreaks /\ frames' \subseteq 1 .. MaxStreaks
  <2>1. CASE UNCHANGED <<streaks, started, frames>>
    BY <1>1, <2>1
  <2>2. ASSUME StartStreaks PROVE /\ streaks' = started + 1 /\ started' = started + 1
                                  /\ frames' \subseteq frames \cup {started + 1}
                                  /\ started < MaxStreaks
    BY <2>2 DEF StartStreaks, runFrames, StopStreaks
  <2>3. ASSUME StreaksOff PROVE streaks' = 0 /\ started' = started /\ frames' \subseteq frames
    BY <2>3 DEF StreaksOff, StopStreaks
  <2>4. CASE PageVisibility
    <3>1. streaks' = streaks /\ started' = started
      BY <2>4 DEF PageVisibility
    <3>2. streaks = 0 \/ streaks \in 1 .. MaxStreaks
      BY <1>1
    <3>3. frames' \subseteq frames \/ (streaks # 0 /\ frames' = frames \cup {streaks})
      BY <2>4 DEF PageVisibility
    <3> QED  BY <1>1, <3>1, <3>2, <3>3
  <2>5. CASE StartStreaks
    <3>1. PICK n \in Nat : n = started /\ n < MaxStreaks /\ MaxStreaks \in Nat
      BY <1>1, <2>2, <2>5
    <3>2. n + 1 \in 1 .. MaxStreaks /\ n + 1 \in 0 .. n + 1 /\ n + 1 \in 0 .. MaxStreaks
      BY ONLY <3>1
    <3>3. streaks' = n + 1 /\ started' = n + 1 /\ frames' \subseteq frames \cup {n + 1}
      BY <2>2, <2>5, <3>1
    <3> QED  BY <1>1, <3>2, <3>3
  <2>6. CASE StreaksOff
    <3>1. PICK n \in Nat : n = started /\ n \in 0 .. MaxStreaks
      BY <1>1
    <3>2. 0 \in 0 .. n
      BY ONLY <3>1
    <3> QED  BY <1>1, <2>3, <2>6, <3>1, <3>2
  <2> QED
    BY <2>1, <2>4, <2>5, <2>6
    DEF OverlaysNext, Shows, TurnOn, TurnOff, Lands, FetchFails, HourPasses, refreshWind,
        Frame, MoveStart, MoveStop, ToggleBasemap, DetailLands, streakVars, overlayVars
<1>4. ticked' \subseteq Boxes /\ keptBoxes' \subseteq Boxes
  <2>1. ASSUME NEW o \in Boxes, SettleBox(o, TRUE, FALSE)
        PROVE  ticked' \subseteq Boxes /\ keptBoxes' \subseteq Boxes
    BY <1>1, <2>1 DEF SettleBox
  <2>2. ASSUME NEW o \in Fetched, TurnOn(o) \/ TurnOff(o)
        PROVE  ticked' \subseteq Boxes /\ keptBoxes' \subseteq Boxes
    <3>1. ticked' \subseteq ticked \cup {o} /\ keptBoxes' \subseteq keptBoxes \cup {o}
      BY <2>2 DEF TurnOn, TurnOff
    <3> QED  BY <1>1, <3>1
  <2>3. ASSUME NEW k \in CallIds, FetchFails(k)
        PROVE  ticked' \subseteq Boxes /\ keptBoxes' \subseteq Boxes
    BY <1>1, <1>2, <2>1, <2>3 DEF FetchFails
  <2>4. CASE ToggleBasemap
    BY <1>1, <2>4 DEF ToggleBasemap
  <2>5. ASSUME \/ \E k \in CallIds : Shows(k) \/ Lands(k)
               \/ HourPasses \/ refreshWind \/ Frame \/ MoveStart \/ MoveStop \/ PageVisibility
               \/ DetailLands \/ UNCHANGED overlayVars
        PROVE  ticked' = ticked /\ keptBoxes' = keptBoxes
    BY <2>5 DEF Shows, Lands, HourPasses, refreshWind, Frame, MoveStart, MoveStop, PageVisibility,
                DetailLands, overlayVars, boxVars
  <2> QED  BY <1>1, <2>2, <2>3, <2>4, <2>5 DEF OverlaysNext
<1>5. on' \subseteq Fetched /\ loading' \subseteq Fetched /\ drawn' \subseteq Boxes
  <2>1. ASSUME NEW o \in Fetched, TurnOn(o) \/ TurnOff(o)
        PROVE  /\ on' \subseteq on \cup {o} /\ loading' \subseteq loading \cup {o}
               /\ drawn' \subseteq drawn \cup {o}
    BY <2>1 DEF TurnOn, TurnOff, Asks
  <2>2. ASSUME NEW k \in CallIds, Lands(k) \/ FetchFails(k)
        PROVE  /\ on' \subseteq on \cup {applies[k].of} /\ loading' \subseteq loading
               /\ drawn' \subseteq drawn \cup {applies[k].of} /\ applies[k].at = "fetch"
    BY <2>2 DEF Lands, FetchFails
  <2>3. ASSUME NEW k \in CallIds, Shows(k)
        PROVE  on' \subseteq on \cup {"wind"} /\ loading' = loading /\ drawn' \subseteq drawn \cup {"wind"}
    BY <2>3 DEF Shows
  <2>4. ASSUME refreshWind PROVE on' = on /\ loading' \subseteq loading \cup {"wind"} /\ drawn' = drawn
    BY <2>4 DEF refreshWind
  <2>5. ASSUME ToggleBasemap PROVE on' = on /\ loading' = loading /\ drawn' \subseteq drawn \cup {"basemap"}
    BY <2>5 DEF ToggleBasemap
  <2>6. ASSUME \/ HourPasses \/ Frame \/ MoveStart \/ MoveStop \/ PageVisibility
               \/ DetailLands \/ UNCHANGED overlayVars
        PROVE  on' = on /\ loading' = loading /\ drawn' = drawn
    BY <2>6 DEF HourPasses, Frame, MoveStart, MoveStop, PageVisibility, DetailLands, overlayVars
  <2>7. ASSUME NEW o \in Boxes, on' \subseteq on \cup ({o} \cap Fetched),
               loading' \subseteq loading \cup ({o} \cap Fetched), drawn' \subseteq drawn \cup {o}
        PROVE  on' \subseteq Fetched /\ loading' \subseteq Fetched /\ drawn' \subseteq Boxes
    BY <1>1, <2>7
  <2>8. ASSUME NEW k \in CallIds, Lands(k) \/ FetchFails(k)
        PROVE  on' \subseteq Fetched /\ loading' \subseteq Fetched /\ drawn' \subseteq Boxes
    <3>1. applies[k].of \in Fetched
      BY <1>2, <2>2, <2>8
    <3> QED  BY <1>1, <2>2, <2>8, <3>1
  <2> QED  BY <1>1, <2>1, <2>3, <2>4, <2>5, <2>6, <2>8 DEF OverlaysNext
<1>6. bodies' \in [Fetched -> {"none", "held", "stale"}]
  <2>1. ASSUME NEW k \in CallIds, Lands(k) PROVE bodies' \in [Fetched -> {"none", "held", "stale"}]
    BY <1>1, <2>1 DEF Lands
  <2>2. ASSUME HourPasses \/ refreshWind PROVE bodies' \in [Fetched -> {"none", "held", "stale"}]
    BY <1>1, <2>2 DEF HourPasses, refreshWind
  <2>3. ASSUME \/ \E k \in CallIds : Shows(k) \/ FetchFails(k)
               \/ \E o \in Fetched : TurnOn(o) \/ TurnOff(o)
               \/ Frame \/ MoveStart \/ MoveStop \/ PageVisibility
               \/ ToggleBasemap \/ DetailLands \/ UNCHANGED overlayVars
        PROVE  bodies' = bodies
    BY <2>3 DEF Shows, FetchFails, TurnOn, TurnOff, Frame, MoveStart, MoveStop, PageVisibility,
                ToggleBasemap, DetailLands, overlayVars
  <2> QED  BY <1>1, <2>1, <2>2, <2>3 DEF OverlaysNext
<1>7. noted' \in BOOLEAN /\ reduced' = reduced /\ detail' \in {"coming", "shown", "off", "absent"}
  BY <1>1
  DEF OverlaysNext, Shows, TurnOn, TurnOff, Lands, FetchFails, HourPasses, refreshWind, Frame,
      MoveStart, MoveStop, PageVisibility, ToggleBasemap, DetailLands, overlayVars
<1> QED  BY <1>1, <1>3, <1>4, <1>5, <1>6, <1>7 DEF OverlaysShape

LEMMA OverlaysInitTypes == OverlaysInit => CallsInv /\ OverlaysShape
<1> SUFFICES ASSUME OverlaysInit PROVE CallsInv /\ OverlaysShape
  OBVIOUS
<1>1. PICK First : First = [of : Fetched, at : {"fetch"}, box : {FALSE}]
  OBVIOUS
<1>2. /\ applies \in [CallIds -> {NoCall} \cup First]
      /\ \A o \in Fetched : Cardinality({k \in CallIds : applies[k].of = o}) = IF o \in ticked THEN 1 ELSE 0
      /\ loading = ticked \cap Fetched
  BY <1>1 DEF OverlaysInit
<1>3. NoCall \in Calls /\ NoCall.at # "fetch" /\ NoCall.of \notin Fetched
  BY DEF NoCall, Calls, Fetched
<1>4. First \subseteq Calls /\ \A c \in First : c.at = "fetch" /\ c.of \in Fetched
  BY <1>1 DEF Calls
<1>5. \A k \in CallIds : applies[k].at = "fetch" <=> applies[k].of \in Fetched
  BY <1>2, <1>3, <1>4
<1>6. IsFiniteSet(CallIds)
  <2>1. IsFiniteSet(1 .. MaxCalls)
    BY OverlaysAssumption, FS_Interval
  <2> QED  BY <2>1 DEF CallIds
<1>7. ASSUME NEW o \in Fetched
      PROVE  /\ o \in loading <=> \E k \in CallIds : applies[k].of = o
             /\ \A j, k \in CallIds : applies[j].of = o /\ applies[k].of = o => j = k
  <2>1. PICK of : of = {k \in CallIds : applies[k].of = o}
    OBVIOUS
  <2>2. IsFiniteSet(of) /\ Cardinality(of) = IF o \in ticked THEN 1 ELSE 0
    BY <1>2, <1>6, <2>1, FS_Subset
  <2>3. CASE o \in ticked
    <3>1. PICK k : of = {k}
      BY <2>2, <2>3, FS_Singleton
    <3> QED  BY <1>2, <2>1, <2>3, <3>1
  <2>4. CASE o \notin ticked
    <3>1. of = {}
      BY <2>2, <2>4, FS_EmptySet
    <3> QED  BY <1>2, <2>1, <2>4, <3>1
  <2> QED  BY <2>3, <2>4
<1>8. applies \in [CallIds -> Calls]
  BY <1>2, <1>3, <1>4
<1>9. CallsInv
  BY <1>2, <1>5, <1>7, <1>8 DEF CallsInv
<1>10. /\ 0 \in 0 .. 0 /\ 0 \in 0 .. MaxStreaks
  BY OverlaysAssumption
<1>11. OverlaysShape
  BY <1>10 DEF OverlaysShape, OverlaysInit, Boxes
<1> QED  BY <1>9, <1>11

\* The shape of the overlays' state; the row of an overlay says it is loading exactly
\* while a fetch of it is in flight (setWind, setBoundaries).
THEOREM OverlaysTypeCorrect == OverlaysSpec => []OverlaysTypeOK
  BY OverlaysInitInv, OverlaysInitTypes, OverlaysNextInv, CallsNextInv, OverlaysNextShape,
     OverlaysShapeTypes, PTL DEF OverlaysSpec

-----------------------------------------------------------------------------
(***************************************************************************)
(* The table's rows, the pages cut from them, and the finder.              *)
(*                                                                         *)
(* Whatever is asked, the rows kept are rows of the server's table, none   *)
(* of them twice, and the sort moves them about: so what is to be shown of *)
(* the pages is arithmetic of where a page begins and ends.                *)
(***************************************************************************)
TableRows == [name : DOMAIN TextOf, value : Int \cup {NoReading}, sensors : Nat]

LEMMA RowsAre ==
  /\ Len(Rows) \in Nat /\ DOMAIN Rows = 1 .. Len(Rows)
  /\ \A i \in DOMAIN Rows : Rows[i] \in TableRows /\ Rows[i].name \in Int
  /\ \A i, j \in DOMAIN Rows : Rows[i] = Rows[j] => i = j
<1>1. Rows \in Seq(TableRows)
  BY ListsAssumption DEF TableRows
<1>2. Len(Rows) \in Nat /\ DOMAIN Rows = 1 .. Len(Rows) /\ \A i \in DOMAIN Rows : Rows[i] \in TableRows
  BY <1>1
<1>3. DOMAIN TextOf \subseteq Nat
  BY ListsAssumption
<1>4. \A r \in TableRows : r.name \in Int
  BY <1>3 DEF TableRows
<1> QED  BY <1>2, <1>4, ListsAssumption

\* A list is made of rows of the table, none of them twice: the c places of e.
Takes(got, c, e) ==
  /\ c \in Nat /\ e \in [1 .. c -> DOMAIN Rows] /\ Apart(c, e)
  /\ got \in [1 .. c -> TableRows] /\ \A k \in 1 .. c : got[k] = Rows[e[k]]

LEMMA TakesWhole == Takes(Rows, Len(Rows), [k \in 1 .. Len(Rows) |-> k])
<1>1. PICK e, c : c = Len(Rows) /\ e = [k \in 1 .. Len(Rows) |-> k]
  OBVIOUS
<1>2. c \in Nat /\ DOMAIN Rows = 1 .. c /\ \A k \in 1 .. c : Rows[k] \in TableRows
  BY <1>1, RowsAre
<1>3. Rows \in [1 .. c -> TableRows]
  <2>1. Rows \in Seq(TableRows)
    BY ListsAssumption DEF TableRows
  <2> QED  BY ONLY <1>1, <2>1
<1>4. e \in [1 .. c -> DOMAIN Rows] /\ \A k \in 1 .. c : e[k] = k
  BY <1>1, <1>2
<1>5. Apart(c, e)
  BY <1>2, <1>4 DEF Apart
<1> QED  BY <1>1, <1>2, <1>3, <1>4, <1>5 DEF Takes

\* Part of such a list, in any order, is one too.
PicksFrom(part, got, c, d, g) ==
  d \in Nat /\ g \in [1 .. d -> 1 .. c] /\ Apart(d, g) /\ part = [k \in 1 .. d |-> got[g[k]]]
LEMMA TakesPart ==
  ASSUME NEW got, NEW c, NEW e, Takes(got, c, e),
         NEW part, NEW d, NEW g, PicksFrom(part, got, c, d, g)
  PROVE  \E h : Takes(part, d, h)
<1>0. d \in Nat /\ g \in [1 .. d -> 1 .. c] /\ Apart(d, g) /\ part = [k \in 1 .. d |-> got[g[k]]]
  BY DEF PicksFrom
<1>1. PICK h : h = [k \in 1 .. d |-> e[g[k]]]
  OBVIOUS
<1>2. \A k \in 1 .. d : g[k] \in 1 .. c /\ h[k] = e[g[k]] /\ part[k] = got[g[k]]
  BY <1>0, <1>1
<1>3. /\ c \in Nat /\ \A k \in 1 .. c : e[k] \in DOMAIN Rows /\ got[k] \in TableRows /\ got[k] = Rows[e[k]]
  BY DEF Takes
<1>4. \A i, j \in 1 .. c : i # j => e[i] # e[j]
  <2> SUFFICES ASSUME NEW i \in 1 .. c, NEW j \in 1 .. c, i # j PROVE e[i] # e[j]
    OBVIOUS
  <2>1. i < j \/ j < i
    OBVIOUS
  <2> QED  BY <2>1 DEF Takes, Apart
<1>5. Apart(d, h)
  <2> SUFFICES ASSUME NEW i \in 1 .. d, NEW j \in 1 .. d, i < j PROVE h[i] # h[j]
    BY DEF Apart
  <2>1. g[i] # g[j]
    BY <1>0 DEF Apart
  <2> QED  BY <1>2, <1>4, <2>1
<1>6. h \in [1 .. d -> DOMAIN Rows]
  BY <1>1, <1>2, <1>3
<1>7. part \in [1 .. d -> TableRows]
  BY <1>0, <1>2, <1>3
<1>8. Takes(part, d, h)
  BY <1>0, <1>2, <1>3, <1>5, <1>6, <1>7 DEF Takes
<1> QED  BY <1>8

\* filter keeps of a list what it is told to keep.
LEMMA OnlyTakes ==
  ASSUME NEW got, NEW c, NEW e, Takes(got, c, e), NEW K \in SUBSET DOMAIN got,
         NEW part, part = Only(got, K)
  PROVE  \E d, h : Takes(part, d, h)
<1>1. c \in Nat /\ DOMAIN got = 1 .. c
  BY DEF Takes
<1>2. IsFiniteSet(1 .. c)
  BY <1>1, FS_Interval
<1>3. IsFiniteSet(K) /\ K \subseteq Int
  BY <1>1, <1>2, FS_Subset
<1>4. PICK g, d : g = Ascending(K) /\ d = Cardinality(K)
  OBVIOUS
<1>5. Climbs(K, g)
  BY <1>3, <1>4, AscendingClimbs
<1>6. d \in Nat /\ g \in [1 .. d -> K] /\ \A i, j \in 1 .. d : i < j => g[i] < g[j]
  BY <1>4, <1>5 DEF Climbs
<1>7. g \in [1 .. d -> 1 .. c]
  BY <1>1, <1>6
<1>8. Apart(d, g)
  <2> SUFFICES ASSUME NEW i \in 1 .. d, NEW j \in 1 .. d, i < j PROVE g[i] # g[j]
    BY DEF Apart
  <2>1. g[i] \in Int /\ g[j] \in Int /\ g[i] < g[j]
    BY <1>1, <1>7, <1>6
  <2> QED  BY <2>1
<1>9. part = [k \in 1 .. d |-> got[g[k]]]
  BY <1>4, <1>6 DEF Only
<1>10. PicksFrom(part, got, c, d, g)
  BY <1>6, <1>7, <1>8, <1>9 DEF PicksFrom
<1>11. \E h : Takes(part, d, h)
  BY <1>10, TakesPart
<1> QED  BY <1>11

LEMMA KeptTakes ==
  ASSUME NEW a
  PROVE  \E d, h : Takes(Kept(a), d, h)
<1>1. PICK K \in SUBSET DOMAIN Rows : filterRows(Rows, a.mode) = Only(Rows, K)
  BY DEF filterRows
<1>2. PICK left : left = filterRows(Rows, a.mode)
  OBVIOUS
<1>3. PICK c, e : Takes(left, c, e)
  BY <1>1, <1>2, TakesWhole, OnlyTakes
<1>4. PICK Q \in SUBSET DOMAIN left : queryRows(left, a.query) = Only(left, Q)
  BY DEF queryRows
<1>5. Kept(a) = Only(left, Q)
  BY <1>2, <1>4 DEF Kept
<1> QED  BY <1>3, <1>5, OnlyTakes

-----------------------------------------------------------------------------
(* The order. *)

SortKeys == DataKeys \cup {"name"}
\* What the sort compares: the silent last, then the key, turned if the order is.
Sunk(r) == IF Silent(r) THEN 1 ELSE 0
Turned(dir, x) == IF dir = "asc" THEN x ELSE -x
Weight(r, key, dir) == IF key = "value" /\ Silent(r) THEN 0 ELSE Turned(dir, r[key])

LEMMA BeforeIsByWeight ==
  ASSUME NEW a \in TableRows, NEW b \in TableRows, NEW key \in SortKeys, NEW dir \in {"asc", "desc"}
  PROVE  /\ Sunk(a) \in Int /\ Weight(a, key, dir) \in Int
         /\ Before(a, b, key, dir)
              <=> \/ Sunk(a) < Sunk(b)
                  \/ Sunk(a) = Sunk(b) /\ Weight(a, key, dir) < Weight(b, key, dir)
<1>1. ASSUME NEW r \in TableRows, ~(key = "value" /\ Silent(r)) PROVE r[key] \in Int
  <2>1. DOMAIN TextOf \subseteq Nat
    BY ListsAssumption
  <2>2. r.value \in Int \cup {NoReading} /\ r.sensors \in Nat /\ r.name \in Int
    BY <2>1 DEF TableRows
  <2> QED  BY <1>1, <2>2 DEF SortKeys, DataKeys, Silent
<1>2. PICK u, v, x, y, s, t : /\ u = Sunk(a) /\ v = Sunk(b) /\ x = Weight(a, key, dir)
                              /\ y = Weight(b, key, dir) /\ s = a[key] /\ t = b[key]
  OBVIOUS
<1>0. PICK p, q, none : p = a.value /\ q = b.value /\ none = NoReading
  OBVIOUS
<1>3. /\ ~(key = "value" /\ p = none) => s \in Int
      /\ ~(key = "value" /\ q = none) => t \in Int
  BY <1>0, <1>1, <1>2 DEF Silent
<1>4. u = (IF p = none THEN 1 ELSE 0) /\ v = (IF q = none THEN 1 ELSE 0)
  BY <1>0, <1>2 DEF Sunk, Silent
<1>5. /\ x = IF key = "value" /\ p = none THEN 0 ELSE IF dir = "asc" THEN s ELSE -s
      /\ y = IF key = "value" /\ q = none THEN 0 ELSE IF dir = "asc" THEN t ELSE -t
  BY <1>0, <1>2 DEF Weight, Turned, Silent
<1>6. Before(a, b, key, dir) <=>
        \/ p # none /\ q = none
        \/ /\ (p = none) <=> (q = none) /\ ~(key = "value" /\ p = none)
           /\ IF dir = "asc" THEN s < t ELSE t < s
  BY <1>0, <1>2 DEF Before, Silent
<1>8. x \in Int /\ y \in Int /\ u \in Int /\ v \in Int
  BY <1>3, <1>4, <1>5
<1>9. ASSUME ~((p = none) <=> (q = none))
      PROVE  Before(a, b, key, dir) <=> u < v \/ (u = v /\ x < y)
  BY <1>4, <1>6, <1>9
<1>10. ASSUME p = none, q = none, key = "value"
       PROVE  Before(a, b, key, dir) <=> u < v \/ (u = v /\ x < y)
  BY <1>4, <1>5, <1>6, <1>10
<1>11. ASSUME (p = none) <=> (q = none), ~(key = "value" /\ p = none)
       PROVE  Before(a, b, key, dir) <=> u < v \/ (u = v /\ x < y)
  BY <1>3, <1>4, <1>5, <1>6, <1>11
<1>12. Before(a, b, key, dir) <=> u < v \/ (u = v /\ x < y)
  BY <1>9, <1>10, <1>11
<1> QED  BY <1>2, <1>8, <1>12

Leads(got, key, dir, i, j) ==
  \/ Before(got[i], got[j], key, dir)
  \/ i < j /\ ~Before(got[j], got[i], key, dir)
Led(got, c, key, dir) == {p \in (1 .. c) \X (1 .. c) : Leads(got, key, dir, p[1], p[2])}

LEMMA LeadsOrders ==
  ASSUME NEW c \in Nat, NEW got \in [1 .. c -> TableRows], NEW key \in SortKeys, NEW dir \in {"asc", "desc"}
  PROVE  Orders(1 .. c, Led(got, c, key, dir))
<1>1. PICK u, w : /\ u = [k \in 1 .. c |-> Sunk(got[k])]
                  /\ w = [k \in 1 .. c |-> Weight(got[k], key, dir)]
  OBVIOUS
<1>2. ASSUME NEW i \in 1 .. c, NEW j \in 1 .. c
      PROVE  /\ u[i] \in Int /\ w[i] \in Int
             /\ Before(got[i], got[j], key, dir) <=> u[i] < u[j] \/ (u[i] = u[j] /\ w[i] < w[j])
  <2>1. got[i] \in TableRows /\ got[j] \in TableRows
    OBVIOUS
  <2>2. /\ u[i] = Sunk(got[i]) /\ u[j] = Sunk(got[j])
        /\ w[i] = Weight(got[i], key, dir) /\ w[j] = Weight(got[j], key, dir)
    BY <1>1
  <2> QED  BY <2>1, <2>2, BeforeIsByWeight
<1>3. PICK before : before = Led(got, c, key, dir)
  OBVIOUS
<1>4. ASSUME NEW i \in 1 .. c, NEW j \in 1 .. c
      PROVE  <<i, j>> \in before
               <=> \/ u[i] < u[j] \/ (u[i] = u[j] /\ w[i] < w[j])
                   \/ i < j /\ ~(u[j] < u[i] \/ (u[j] = u[i] /\ w[j] < w[i]))
  <2>1. <<i, j>> \in before <=> Leads(got, key, dir, i, j)
    BY <1>3 DEF Led
  <2>2. /\ Before(got[i], got[j], key, dir) <=> u[i] < u[j] \/ (u[i] = u[j] /\ w[i] < w[j])
        /\ Before(got[j], got[i], key, dir) <=> u[j] < u[i] \/ (u[j] = u[i] /\ w[j] < w[i])
    BY <1>2
  <2> QED  BY <2>1, <2>2 DEF Leads
<1>5. \A i \in 1 .. c : u[i] \in Int /\ w[i] \in Int
  BY <1>2
<1>10. ASSUME NEW i \in 1 .. c, NEW j \in 1 .. c
       PROVE  <<i, j>> \in before <=> \/ u[i] < u[j]
                                      \/ u[i] = u[j] /\ w[i] < w[j]
                                      \/ u[i] = u[j] /\ w[i] = w[j] /\ i < j
  BY <1>4, <1>5
<1>6. \A i \in 1 .. c : <<i, i>> \notin before
  BY <1>10, <1>5
<1>7. \A i, j \in 1 .. c : i # j => <<i, j>> \in before \/ <<j, i>> \in before
  <2> SUFFICES ASSUME NEW i \in 1 .. c, NEW j \in 1 .. c, i # j,
                      <<i, j>> \notin before, <<j, i>> \notin before
               PROVE  FALSE
    OBVIOUS
  <2>1. /\ ~(u[i] < u[j] \/ (u[i] = u[j] /\ w[i] < w[j]) \/ (u[i] = u[j] /\ w[i] = w[j] /\ i < j))
        /\ ~(u[j] < u[i] \/ (u[j] = u[i] /\ w[j] < w[i]) \/ (u[j] = u[i] /\ w[j] = w[i] /\ j < i))
    BY <1>10
  <2> QED  BY <1>5, <2>1
<1>8. \A i, j, k \in 1 .. c : <<i, j>> \in before /\ <<j, k>> \in before => <<i, k>> \in before
  <2> SUFFICES ASSUME NEW i \in 1 .. c, NEW j \in 1 .. c, NEW k \in 1 .. c,
                      <<i, j>> \in before, <<j, k>> \in before
               PROVE  <<i, k>> \in before
    OBVIOUS
  <2>1. /\ u[i] < u[j] \/ (u[i] = u[j] /\ w[i] < w[j]) \/ (u[i] = u[j] /\ w[i] = w[j] /\ i < j)
        /\ u[j] < u[k] \/ (u[j] = u[k] /\ w[j] < w[k]) \/ (u[j] = u[k] /\ w[j] = w[k] /\ j < k)
    BY <1>10
  <2>2. u[i] < u[k] \/ (u[i] = u[k] /\ w[i] < w[k]) \/ (u[i] = u[k] /\ w[i] = w[k] /\ i < k)
    BY <1>5, <2>1
  <2> QED  BY <1>10, <2>2
<1>9. IsFiniteSet(1 .. c)
  BY FS_Interval
<1> QED  BY <1>3, <1>6, <1>7, <1>8, <1>9 DEF Orders

\* sortRows moves the rows about, the silent to the end.
Reordered(got, c, s) ==
  \E g \in [1 .. c -> 1 .. c] :
    /\ Apart(c, g) /\ s = [k \in 1 .. c |-> got[g[k]]]
    /\ \A k \in 1 .. c : \E i \in 1 .. c : g[i] = k
    /\ \A i, j \in 1 .. c : i < j /\ Silent(s[i]) => Silent(s[j])

LEMMA SortReorders ==
  ASSUME NEW c \in Nat, NEW got \in [1 .. c -> TableRows], NEW key \in SortKeys, NEW dir \in {"asc", "desc"}
  PROVE  Reordered(got, c, sortRows(got, key, dir))
<1>1. PICK before, g, s : /\ before = Led(got, c, key, dir) /\ g = Sorted(1 .. c, before)
                          /\ s = sortRows(got, key, dir)
  OBVIOUS
<1>2. IsFiniteSet(1 .. c) /\ Cardinality(1 .. c) = c
  BY FS_Interval
<1>3. InTurn(1 .. c, before, g)
  BY <1>1, LeadsOrders, SortedInTurn
<1>4. /\ g \in [1 .. c -> 1 .. c]
      /\ \A i, j \in 1 .. c : i < j => <<g[i], g[j]>> \in before /\ g[i] # g[j]
      /\ \A k \in 1 .. c : \E i \in 1 .. c : g[i] = k
  BY <1>2, <1>3 DEF InTurn
<1>5. s = [k \in 1 .. c |-> got[g[k]]]
  <2>1. DOMAIN got = 1 .. c
    OBVIOUS
  <2>2. sortRows(got, key, dir)
          = [k \in 1 .. c |-> got[Sorted(1 .. c, Led(got, c, key, dir))[k]]]
    BY <2>1 DEF sortRows, Led, Leads
  <2> QED  BY <1>1, <2>2
<1>6. ASSUME NEW i \in 1 .. c, NEW j \in 1 .. c, i < j, Silent(s[i])
      PROVE  Silent(s[j])
  <2>1. /\ g[i] \in 1 .. c /\ g[j] \in 1 .. c /\ s[i] = got[g[i]] /\ s[j] = got[g[j]]
    BY <1>4, <1>5
  <2>2. Leads(got, key, dir, g[i], g[j])
    BY <1>1, <1>4, <1>6 DEF Led
  <2>3. \/ Before(s[i], s[j], key, dir)
        \/ ~Before(s[j], s[i], key, dir)
    BY <2>1, <2>2 DEF Leads
  <2>4. ASSUME ~Silent(s[j]) PROVE FALSE
    <3>1. ~Before(s[i], s[j], key, dir) /\ Before(s[j], s[i], key, dir)
      BY <1>6, <2>4 DEF Before, Silent
    <3> QED  BY <2>3, <3>1
  <2> QED  BY <2>4
<1>7. Apart(c, g)
  BY <1>4 DEF Apart
<1> QED  BY <1>1, <1>4, <1>5, <1>6, <1>7 DEF Reordered

-----------------------------------------------------------------------------
(* The pages. *)

\* Which rows a page of a chosen size holds: those after from, up to to.
Above(d, p) == (p - 1) * d
Upto(n, d, p) == IF p * d > n THEN n ELSE p * d

LEMMA PageEnds ==
  ASSUME NEW n \in Nat, n > 0, NEW d \in Nat, d > 0, NEW m, m = (n + d - 1) \div d
  PROVE  /\ m \in Nat \ {0} /\ (m - 1) * d < n /\ n <= m * d
         /\ \A p \in 1 .. m : Above(d, p) \in Nat /\ Upto(n, d, p) \in Nat
                              /\ Above(d, p) < Upto(n, d, p) /\ Upto(n, d, p) <= n
<1>1. n + d - 1 \in Int /\ d \in Int /\ d > 0 /\ n + d - 1 >= d
  OBVIOUS
<1>2. m \in Int /\ d * m <= n + d - 1 /\ n + d - 1 < d * m + d /\ m >= 1
  BY <1>1, QuotientBounds
<1>3. (m - 1) * d = d * m - d /\ m * d = d * m
  BY <1>2
<1>4. m * d \in Int /\ (m - 1) * d < n /\ n <= m * d
  <2>1. PICK x \in Int : x = d * m
    BY <1>2
  <2> QED  BY <1>2, <1>3, <2>1
<1>5. ASSUME NEW p \in 1 .. m
      PROVE  /\ Above(d, p) \in Nat /\ Upto(n, d, p) \in Nat
             /\ Above(d, p) < Upto(n, d, p) /\ Upto(n, d, p) <= n
  <2>1. p \in Int /\ 1 <= p /\ p <= m
    BY <1>2
  <2>2. (p - 1) * d <= (m - 1) * d /\ 0 <= (p - 1) * d /\ (p - 1) * d \in Int
    BY <1>2, <2>1
  <2>3. p * d = (p - 1) * d + d
    BY <2>1
  <2>4. PICK a \in Int : a = (p - 1) * d
    BY <2>2
  <2>5. Above(d, p) = a /\ Upto(n, d, p) = IF a + d > n THEN n ELSE a + d
    BY <2>3, <2>4 DEF Above, Upto
  <2> QED  BY <1>4, <2>2, <2>4, <2>5
<1> QED  BY <1>2, <1>4, <1>5

\* Every row is of exactly one page.
OnlyOn(q, m, n, d, i) == \A p \in 1 .. m : Above(d, p) < i /\ i <= Upto(n, d, p) <=> p = q
LEMMA OnePageEach ==
  ASSUME NEW n \in Nat, n > 0, NEW d \in Nat, d > 0, NEW m, m = (n + d - 1) \div d, NEW i \in 1 .. n
  PROVE  \E q \in 1 .. m : OnlyOn(q, m, n, d, i)
<1>1. m \in Nat \ {0} /\ n <= m * d /\ (m - 1) * d < n
  BY PageEnds
<1>2. PICK q : q = (i + d - 1) \div d
  OBVIOUS
<1>3. q \in Int /\ d * q <= i + d - 1 /\ i + d - 1 < d * q + d /\ q >= 1
  <2>1. i + d - 1 \in Int /\ d \in Int /\ d > 0 /\ i + d - 1 >= d
    OBVIOUS
  <2> QED  BY <1>2, <2>1, QuotientBounds
<1>4. PICK x \in Int : x = q * d
  BY <1>3
<1>5. x <= i + d - 1 /\ i <= x /\ (q - 1) * d = x - d
  BY <1>3, <1>4
<1>6. q <= m
  <2> SUFFICES ASSUME q > m PROVE FALSE
    BY <1>1, <1>3
  <2>1. m * d <= (q - 1) * d
    BY <1>1, <1>3
  <2>2. m * d \in Int
    BY <1>1
  <2> QED  BY <1>1, <1>5, <2>1, <2>2
<1>7. ASSUME NEW p \in 1 .. m
      PROVE  Above(d, p) < i /\ i <= Upto(n, d, p) <=> p = q
  <2>1. p \in Int /\ p * d \in Int /\ (p - 1) * d = p * d - d
    BY <1>1
  <2>2. PICK y \in Int : y = p * d
    BY <2>1
  <2>3. Above(d, p) = y - d /\ Upto(n, d, p) = IF y > n THEN n ELSE y
    BY <2>1, <2>2 DEF Above, Upto
  <2>4. CASE p = q
    BY <1>4, <1>5, <2>2, <2>3, <2>4
  <2>5. CASE p < q
    <3>1. p * d <= (q - 1) * d
      BY <1>3, <2>1, <2>5
    <3>2. y < i
      BY <1>5, <2>2, <3>1
    <3> QED  BY <2>3, <2>5, <3>2
  <2>6. CASE p > q
    <3>1. q * d <= (p - 1) * d
      BY <1>3, <2>1, <2>6
    <3>2. i <= y - d
      BY <1>4, <1>5, <2>1, <2>2, <3>1
    <3> QED  BY <2>3, <2>6, <3>2
  <2> QED  BY <1>3, <2>1, <2>4, <2>5, <2>6
<1>8. q \in 1 .. m /\ OnlyOn(q, m, n, d, i)
  BY <1>1, <1>3, <1>6, <1>7 DEF OnlyOn
<1> QED  BY <1>8

\* The rows of a page, as a stretch of the rows sorted.
CutOf(part, s, a, b) ==
  /\ DOMAIN part = 1 .. b - a /\ Len(part) = b - a
  /\ \A k \in 1 .. b - a : part[k] = s[a + k]

LEMMA PageCut ==
  ASSUME NEW n \in Nat, n > 0, NEW s \in [1 .. n -> TableRows], NEW d \in Nat, d > 0,
         NEW p \in 1 .. pageCount(n, d)
  PROVE  /\ pageCount(n, d) = (n + d - 1) \div d
         /\ CutOf(pageSlice(s, d, p).rows, s, Above(d, p), Upto(n, d, p))
<1>1. PICK m : m = (n + d - 1) \div d
  OBVIOUS
<1>2. pageCount(n, d) = m
  BY <1>1 DEF pageCount, ALL
<1>3. PICK a, b : a = Above(d, p) /\ b = Upto(n, d, p)
  OBVIOUS
<1>4. /\ m \in Nat /\ p \in 1 .. m /\ a \in Nat /\ b \in Nat /\ a < b /\ b <= n
  BY <1>1, <1>2, <1>3, PageEnds
<1>5. Len(s) = n
  <2>1. s \in Seq(TableRows) /\ DOMAIN s = 1 .. n
    BY ONLY n \in Nat, s \in [1 .. n -> TableRows]
  <2> QED  BY ONLY <2>1, n \in Nat
<1>6. pageSlice(s, d, p).rows = SubSeq(s, a + 1, b)
  <2>1. d # ALL
    BY DEF ALL
  <2>2. pageCount(Len(s), d) = m /\ ~(p > m)
    BY <1>2, <1>4, <1>5
  <2> QED  BY <1>3, <1>5, <2>1, <2>2 DEF pageSlice, Above, Upto
<1>7. PICK part : part = SubSeq(s, a + 1, b)
  OBVIOUS
<1>8. \A i \in a + 1 .. b : s[i] \in TableRows
  BY <1>4
<1>9. /\ part \in Seq(TableRows) /\ Len(part) = b - (a + 1) + 1
      /\ \A k \in 1 .. b - (a + 1) + 1 : part[k] = s[a + 1 + k - 1]
  <2>1. a + 1 \in Int /\ b \in Int /\ a + 1 <= b
    BY <1>4
  <2> QED  BY <1>7, <1>8, <2>1, SubSeqProperties
<1>10. b - (a + 1) + 1 = b - a /\ \A k \in 1 .. b - a : a + 1 + k - 1 = a + k
  BY <1>4
<1>11. DOMAIN part = 1 .. b - a /\ Len(part) = b - a
  BY <1>9, <1>10
<1>12. CutOf(part, s, a, b)
  BY <1>9, <1>10, <1>11 DEF CutOf
<1> QED  BY <1>1, <1>2, <1>3, <1>6, <1>7, <1>12

LEMMA OptionsDivide ==
  ASSUME NEW d \in perPageOptions(Len(Rows))
  PROVE  d \in Nat /\ d >= 5 /\ Len(Rows) % d = 0
  BY RowsAre DEF perPageOptions

-----------------------------------------------------------------------------
(* What the lists show. *)

Modes == {"all", "withdata", "nodata"}
TableAsks == [mode : Modes, query : DOMAIN FoundIn, key : SortKeys, dir : {"asc", "desc"},
         perPage : {ALL} \cup perPageOptions(Len(Rows)), page : Nat \ {0}, hidden : SUBSET DataKeys]

\* The rows asked for, sorted: as many as are kept, the same ones.
Answers(a, s, n, e) ==
  /\ Takes(s, n, e)
  /\ {Kept(a)[k] : k \in DOMAIN Kept(a)} = {s[k] : k \in 1 .. n}
  /\ Kept(a) # <<>> => n > 0
  /\ \A i, j \in 1 .. n : i < j /\ Silent(s[i]) => Silent(s[j])

LEMMA AnswerTakes ==
  ASSUME NEW a \in TableAsks
  PROVE  \E n, e : Answers(a, sortRows(Kept(a), a.key, a.dir), n, e)
<1>1. PICK kept, n, h : kept = Kept(a) /\ Takes(kept, n, h)
  BY KeptTakes
<1>2. n \in Nat /\ kept \in [1 .. n -> TableRows]
  BY <1>1 DEF Takes
<1>3. a.key \in SortKeys /\ a.dir \in {"asc", "desc"}
  BY DEF TableAsks
<1>4. PICK s : s = sortRows(kept, a.key, a.dir)
  OBVIOUS
<1>5. Reordered(kept, n, s)
  BY <1>2, <1>3, <1>4, SortReorders
<1>6. PICK g \in [1 .. n -> 1 .. n] :
        /\ Apart(n, g) /\ s = [k \in 1 .. n |-> kept[g[k]]]
        /\ \A k \in 1 .. n : \E i \in 1 .. n : g[i] = k
        /\ \A i, j \in 1 .. n : i < j /\ Silent(s[i]) => Silent(s[j])
  BY <1>5 DEF Reordered
<1>7. PicksFrom(s, kept, n, n, g)
  BY <1>2, <1>6 DEF PicksFrom
<1>8. PICK e : Takes(s, n, e)
  BY <1>1, <1>7, TakesPart
<1>9. {kept[k] : k \in DOMAIN kept} = {s[k] : k \in 1 .. n}
  <2>1. DOMAIN kept = 1 .. n /\ \A k \in 1 .. n : g[k] \in 1 .. n /\ s[k] = kept[g[k]]
    BY <1>2, <1>6
  <2> QED  BY <1>6, <2>1
<1>10. kept # <<>> => n > 0
  <2> SUFFICES ASSUME n = 0 PROVE kept = <<>>
    BY <1>2
  <2>1. kept \in [1 .. 0 -> TableRows]
    BY <1>2
  <2> QED  BY ONLY <2>1
<1>11. Answers(a, s, n, e)
  BY <1>1, <1>6, <1>8, <1>9, <1>10 DEF Answers
<1> QED  BY <1>1, <1>4, <1>11

LEMMA TakesApart ==
  ASSUME NEW s, NEW n, NEW e, Takes(s, n, e)
  PROVE  \A i, j \in 1 .. n : s[i] = s[j] => i = j
<1> SUFFICES ASSUME NEW i \in 1 .. n, NEW j \in 1 .. n, i # j PROVE s[i] # s[j]
  OBVIOUS
<1>1. n \in Nat /\ e[i] \in DOMAIN Rows /\ e[j] \in DOMAIN Rows /\ s[i] = Rows[e[i]] /\ s[j] = Rows[e[j]]
  BY DEF Takes
<1>2. i < j \/ j < i
  BY <1>1
<1>3. e[i] # e[j]
  BY <1>2 DEF Takes, Apart
<1> QED  BY <1>1, <1>3, RowsAre

\* The pages that show a row.
PagesOfRow(s, d, m, r) ==
  {p \in 1 .. m : \E k \in DOMAIN pageSlice(s, d, p).rows : pageSlice(s, d, p).rows[k] = r}

\* A row asked for is of one page, another of none.
LEMMA RowOnOnePage ==
  ASSUME NEW a \in TableAsks, NEW s, NEW n, NEW e, Answers(a, s, n, e),
         NEW m, m = pageCount(Len(s), a.perPage), NEW r
  PROVE  (r \in {s[k] : k \in 1 .. n}) = (Cardinality(PagesOfRow(s, a.perPage, m, r)) = 1)
<1>1. PICK d : d = a.perPage
  OBVIOUS
<1>2. d = ALL \/ (d \in Nat /\ d > 0 /\ d # ALL)
  <2>1. d \in {ALL} \cup perPageOptions(Len(Rows))
    BY <1>1 DEF TableAsks
  <2> QED  BY <2>1, OptionsDivide DEF ALL
<1>3. n \in Nat /\ s \in [1 .. n -> TableRows] /\ Takes(s, n, e)
  BY DEF Answers, Takes
<1>4. \A i, j \in 1 .. n : s[i] = s[j] => i = j
  BY <1>3, TakesApart
<1>5. Len(s) = n /\ DOMAIN s = 1 .. n
  <2>1. n \in Nat /\ s \in [1 .. n -> TableRows]
    BY <1>3
  <2>2. s \in Seq(TableRows) /\ DOMAIN s = 1 .. n
    BY ONLY <2>1
  <2> QED  BY ONLY <2>1, <2>2
<1>6. PICK P : P = PagesOfRow(s, d, m, r)
  OBVIOUS
<1>7. ASSUME NEW q, P = {q} PROVE Cardinality(P) = 1
  BY <1>7, FS_Singleton
<1>8. P = {} => Cardinality(P) # 1
  BY FS_EmptySet
<1>9. CASE d = ALL
  <2>1. m = 1 /\ pageSlice(s, d, 1).rows = s
    BY <1>1, <1>5, <1>9 DEF pageCount, pageSlice
  <2>2. P = {p \in {1} : \E k \in 1 .. n : s[k] = r}
    BY <1>5, <1>6, <2>1 DEF PagesOfRow
  <2>3. CASE r \in {s[k] : k \in 1 .. n}
    <3>1. P = {1}
      BY <2>2, <2>3
    <3> QED  BY <1>1, <1>6, <1>7, <2>3, <3>1
  <2>4. CASE r \notin {s[k] : k \in 1 .. n}
    <3>1. P = {}
      BY <2>2, <2>4
    <3> QED  BY <1>1, <1>6, <1>8, <2>4, <3>1
  <2> QED  BY <2>3, <2>4
<1>10. CASE d # ALL /\ n = 0
  <2>1. r \notin {s[k] : k \in 1 .. n}
    BY <1>10
  <2>2. m = 1
    BY <1>1, <1>5, <1>10 DEF pageCount
  <2>3. pageSlice(s, d, 1).rows = SubSeq(s, (1 - 1) * d + 1, IF 1 * d > 0 THEN 0 ELSE 1 * d)
    BY <1>1, <1>5, <1>10, <2>2 DEF pageSlice
  <2>4. (1 - 1) * d + 1 = 1 /\ 1 * d = d /\ d > 0
    BY <1>2, <1>10
  <2>5. pageSlice(s, d, 1).rows = SubSeq(s, 1, 0)
    BY <2>3, <2>4
  <2>6. SubSeq(s, 1, 0) = <<>>
    BY SubSeqEmpty
  <2>7. P = {}
    BY <1>6, <2>2, <2>5, <2>6 DEF PagesOfRow
  <2> QED  BY <1>1, <1>6, <1>8, <2>1, <2>7
<1>11. CASE d # ALL /\ n # 0
  <2>1. d \in Nat /\ d > 0 /\ n > 0 /\ m = pageCount(n, d)
    BY <1>1, <1>2, <1>3, <1>5, <1>11
  <2>2. \A p \in 1 .. m : CutOf(pageSlice(s, d, p).rows, s, Above(d, p), Upto(n, d, p))
    BY <1>3, <2>1, PageCut
  <2>3. m = (n + d - 1) \div d
    BY <1>11, <2>1 DEF pageCount
  <2>4. \A p \in 1 .. m : /\ Above(d, p) \in Nat /\ Upto(n, d, p) \in Nat
                          /\ Above(d, p) < Upto(n, d, p) /\ Upto(n, d, p) <= n
    BY <1>3, <2>1, <2>3, PageEnds
  <2>5. ASSUME NEW p \in 1 .. m
        PROVE  p \in P <=> \E i \in 1 .. n : s[i] = r /\ Above(d, p) < i /\ i <= Upto(n, d, p)
    <3>1. PICK part, x, y : part = pageSlice(s, d, p).rows /\ x = Above(d, p) /\ y = Upto(n, d, p)
      OBVIOUS
    <3>2. /\ x \in Nat /\ y \in Nat /\ x < y /\ y <= n
          /\ DOMAIN part = 1 .. y - x /\ \A k \in 1 .. y - x : part[k] = s[x + k]
      BY <2>2, <2>4, <3>1 DEF CutOf
    <3>3. p \in P <=> \E k \in DOMAIN part : part[k] = r
      BY <1>6, <3>1 DEF PagesOfRow
    <3>4. ASSUME NEW k \in 1 .. y - x, part[k] = r
          PROVE  \E i \in 1 .. n : s[i] = r /\ x < i /\ i <= y
      <4>1. x + k \in 1 .. n /\ x < x + k /\ x + k <= y /\ s[x + k] = r
        BY <1>3, <3>2, <3>4
      <4> QED  BY <4>1
    <3>5. ASSUME NEW i \in 1 .. n, s[i] = r, x < i, i <= y
          PROVE  \E k \in 1 .. y - x : part[k] = r
      <4>1. i - x \in 1 .. y - x /\ x + (i - x) = i
        BY <1>3, <3>2, <3>5
      <4> QED  BY <3>2, <3>5, <4>1
    <3> QED  BY <3>1, <3>2, <3>3, <3>4, <3>5
  <2>6. CASE r \in {s[k] : k \in 1 .. n}
    <3>1. PICK i \in 1 .. n : s[i] = r
      BY <2>6
    <3>2. \A j \in 1 .. n : s[j] = r <=> j = i
      BY <1>4, <3>1
    <3>3. \E q \in 1 .. m : OnlyOn(q, m, n, d, i)
      <4>1. n \in Nat /\ n > 0 /\ d \in Nat /\ d > 0 /\ m = (n + d - 1) \div d /\ i \in 1 .. n
        BY <1>3, <2>1, <2>3
      <4> QED  BY ONLY <4>1, OnePageEach
    <3>4. PICK q \in 1 .. m : \A p \in 1 .. m : Above(d, p) < i /\ i <= Upto(n, d, p) <=> p = q
      BY <3>3 DEF OnlyOn
    <3>5. P \subseteq 1 .. m
      BY <1>6 DEF PagesOfRow
    <3>6. P = {q}
      BY <2>5, <3>1, <3>2, <3>4, <3>5
    <3> QED  BY <1>1, <1>6, <1>7, <2>6, <3>6
  <2>7. CASE r \notin {s[k] : k \in 1 .. n}
    <3>1. P \subseteq 1 .. m
      BY <1>6 DEF PagesOfRow
    <3>2. P = {}
      BY <2>5, <2>7, <3>1
    <3> QED  BY <1>1, <1>6, <1>8, <2>7, <3>2
  <2> QED  BY <2>6, <2>7
<1> QED  BY <1>9, <1>10, <1>11

LEMMA AskedPagesShowEveryRow == ask \in TableAsks => PagesShowEveryRow
<1> SUFFICES ASSUME ask \in TableAsks PROVE PagesShowEveryRow
  OBVIOUS
<1>1. PICK a, d, s : a = ask /\ d = ask.perPage /\ s = sortRows(Kept(ask), ask.key, ask.dir)
  OBVIOUS
<1>2. PICK n, e : Answers(a, s, n, e)
  BY <1>1, AnswerTakes
<1>3. n \in Nat /\ s \in [1 .. n -> TableRows]
  BY <1>2 DEF Answers, Takes
<1>4. Len(s) = n /\ DOMAIN s = 1 .. n
  <2>1. s \in Seq(TableRows) /\ DOMAIN s = 1 .. n
    BY ONLY <1>3
  <2> QED  BY ONLY <1>3, <2>1
<1>5. PICK m : m = pageCount(n, d)
  OBVIOUS
<1>6. d = ALL \/ (d \in perPageOptions(Len(Rows)) /\ d \in Nat /\ d >= 5 /\ d # ALL)
  BY <1>1, OptionsDivide DEF TableAsks, ALL
<1>7. \A i, j \in DOMAIN s : i < j /\ Silent(s[i]) => Silent(s[j])
  BY <1>2, <1>4 DEF Answers
<1>8. ASSUME NEW i \in DOMAIN Rows
      PROVE  (Rows[i] \in {Kept(a)[k] : k \in DOMAIN Kept(a)})
               = (Cardinality(PagesOfRow(s, d, m, Rows[i])) = 1)
  <2>1. PICK r : r = Rows[i]
    OBVIOUS
  <2>2. a \in TableAsks /\ m = pageCount(Len(s), a.perPage) /\ d = a.perPage
    BY <1>1, <1>4, <1>5
  <2>3. (r \in {s[k] : k \in 1 .. n}) = (Cardinality(PagesOfRow(s, d, m, r)) = 1)
    BY <1>2, <2>2, RowOnOnePage
  <2>4. {Kept(a)[k] : k \in DOMAIN Kept(a)} = {s[k] : k \in 1 .. n}
    BY <1>2 DEF Answers
  <2> QED  BY <2>1, <2>3, <2>4
<1>9. ASSUME d # ALL, n > 0, NEW p \in 1 .. m
      PROVE  CutOf(pageSlice(s, d, p).rows, s, Above(d, p), Upto(n, d, p))
  BY <1>3, <1>6, <1>9, <1>5, PageCut
<1>10. ASSUME d # ALL, n > 0
       PROVE  /\ m = (n + d - 1) \div d /\ m \in Nat \ {0}
              /\ \A p \in 1 .. m : Above(d, p) \in Nat /\ Upto(n, d, p) \in Nat
                                   /\ Above(d, p) < Upto(n, d, p) /\ Upto(n, d, p) <= n
  <2>1. m = (n + d - 1) \div d
    BY <1>5, <1>10 DEF pageCount
  <2>2. d \in Nat /\ d > 0
    BY <1>6, <1>10
  <2> QED  BY <1>3, <1>10, <2>1, <2>2, PageEnds
<1>11. Kept(a) # <<>> => View(a).rows # <<>>
  <2> SUFFICES ASSUME Kept(a) # <<>> PROVE View(a).rows # <<>>
    OBVIOUS
  <2>1. n > 0
    BY <1>2 DEF Answers
  <2>2. a.page \in Nat \ {0} /\ d = a.perPage
    BY <1>1 DEF TableAsks
  <2>3. View(a) = pageSlice(s, d, a.page)
    BY <1>1 DEF View
  <2>4. CASE d = ALL
    <3>1. View(a).rows = s
      BY <2>3, <2>4 DEF pageSlice
    <3>2. 1 \in DOMAIN s
      BY <1>3, <1>4, <2>1
    <3> QED  BY <3>1, <3>2
  <2>5. CASE d # ALL
    <3>1. PICK q : q = IF a.page > m THEN m ELSE a.page
      OBVIOUS
    <3>2. q \in 1 .. m /\ ~(q > m)
      BY <1>10, <2>1, <2>2, <2>5, <3>1
    <3>3. pageSlice(s, d, a.page).rows = pageSlice(s, d, q).rows
      BY <1>4, <1>5, <3>1, <3>2 DEF pageSlice
    <3>4. Len(pageSlice(s, d, q).rows) = Upto(n, d, q) - Above(d, q)
      BY <1>9, <2>1, <2>5, <3>2 DEF CutOf
    <3>5. Len(pageSlice(s, d, q).rows) # 0
      BY <1>10, <2>1, <2>5, <3>2, <3>4
    <3>6. Len(<<>>) = 0
      OBVIOUS
    <3> QED  BY <2>3, <3>3, <3>5, <3>6
  <2> QED  BY <2>4, <2>5
<1>12. ASSUME n = Len(Rows), NEW p \in 1 .. m
       PROVE  Len(pageSlice(s, d, p).rows) = Len(pageSlice(s, d, 1).rows)
  <2>0. Len(Rows) >= 2
    BY ListsAssumption
  <2>1. n > 0 /\ n \in Nat
    BY <1>3, <1>12, <2>0
  <2>2. CASE d = ALL
    <3>1. m = 1
      BY <1>5, <2>2 DEF pageCount
    <3>2. p = 1
      BY <1>12, <3>1
    <3> QED  BY <3>2
  <2>3. CASE d # ALL
    <3>1. d \in Nat /\ d > 0 /\ n % d = 0
      BY <1>6, <1>12, <2>3, OptionsDivide
    <3>2. PICK q : q = n \div d
      OBVIOUS
    <3>3. q \in Int /\ n = d * q
      <4>1. n \in Int /\ d \in Int /\ d > 0
        BY <2>1, <3>1
      <4>2. q \in Int /\ n % d = n - d * q
        BY <3>2, <4>1, QuotientBounds
      <4>3. PICK x \in Int : x = d * q
        BY <3>1, <4>2
      <4> QED  BY <2>1, <3>1, <4>2, <4>3
    <3>4. m = q
      <4>1. d * q <= n + d - 1 /\ n + d - 1 < d * q + d /\ n + d - 1 \in Int /\ d > 0 /\ d \in Int
        BY <2>1, <3>1, <3>3
      <4> QED  BY <1>10, <2>1, <2>3, <3>3, <4>1, QuotientIs
    <3>5. ASSUME NEW o \in 1 .. m PROVE Upto(n, d, o) - Above(d, o) = d
      <4>1. o \in Int /\ o <= q
        BY <3>3, <3>4
      <4>2. o * d <= q * d /\ q * d = n /\ (o - 1) * d = o * d - d /\ o * d \in Int
        BY <3>1, <3>3, <4>1
      <4>3. PICK x \in Int : x = o * d
        BY <4>2
      <4> QED  BY <2>1, <3>1, <4>2, <4>3 DEF Upto, Above
    <3>6. 1 \in 1 .. m
      BY <1>10, <2>1, <2>3
    <3>7. /\ Len(pageSlice(s, d, p).rows) = Upto(n, d, p) - Above(d, p)
          /\ Len(pageSlice(s, d, 1).rows) = Upto(n, d, 1) - Above(d, 1)
      BY <1>9, <2>1, <2>3, <3>6 DEF CutOf
    <3> QED  BY <3>5, <3>6, <3>7
  <2> QED  BY <2>2, <2>3
<1>13. Len(s) = Len(Rows) =>
         \A p \in 1 .. m : Len(pageSlice(s, d, p).rows) = Len(pageSlice(s, d, 1).rows)
  BY <1>4, <1>12
<1>14. \A i \in DOMAIN Rows :
         (Rows[i] \in {Kept(a)[k] : k \in DOMAIN Kept(a)})
           = (Cardinality({p \in 1 .. m : \E k \in DOMAIN pageSlice(s, d, p).rows :
                             pageSlice(s, d, p).rows[k] = Rows[i]}) = 1)
  BY <1>8 DEF PagesOfRow
<1>15. pageCount(Len(s), d) = m
  BY <1>4, <1>5
<1> HIDE DEF pageSlice, pageCount, sortRows, Kept, Silent, View
<1> QED  BY ZenonT(60), <1>1, <1>7, <1>11, <1>13, <1>14, <1>15 DEF PagesShowEveryRow

-----------------------------------------------------------------------------
(* What the comboboxes offer. *)

\* The rows' names, and the areas, are a finite set of names.
Named(S) == IsFiniteSet(S) /\ S \subseteq DOMAIN TextOf

LEMMA RowNamesNamed ==
  ASSUME NEW mode
  PROVE  Named(NamesOf(filterRows(Rows, mode)))
<1>1. PICK K \in SUBSET DOMAIN Rows : filterRows(Rows, mode) = Only(Rows, K)
  BY DEF filterRows
<1>2. PICK left : left = filterRows(Rows, mode)
  OBVIOUS
<1>3. PICK c, e : Takes(left, c, e)
  BY <1>1, <1>2, TakesWhole, OnlyTakes
<1>4. c \in Nat /\ left \in [1 .. c -> TableRows]
  BY <1>3 DEF Takes
<1>5. PICK T, f : T = NamesOf(left) /\ f = [i \in 1 .. c |-> left[i].name]
  OBVIOUS
<1>6. f \in Surjection(1 .. c, T)
  BY <1>4, <1>5 DEF Surjection, NamesOf
<1>7. IsFiniteSet(1 .. c)
  BY <1>4, FS_Interval
<1>8. IsFiniteSet(T)
  BY <1>6, <1>7, FS_Surjection
<1>9. T \subseteq DOMAIN TextOf
  <2>1. \A r \in TableRows : r.name \in DOMAIN TextOf
    BY DEF TableRows
  <2> QED  BY <1>4, <1>5, <2>1 DEF NamesOf
<1> QED  BY <1>2, <1>5, <1>8, <1>9 DEF Named

\* A list of names: as long as there are places in it.
Offers(s) ==
  /\ Len(s) \in Nat /\ DOMAIN s = 1 .. Len(s)
  /\ \A i \in 1 .. Len(s) : s[i] \in DOMAIN TextOf

LEMMA MatchesOffer ==
  ASSUME NEW S, Named(S), NEW q
  PROVE  Offers(matchAreas(S, q))
<1>1. PICK T : T = IF q = "" THEN S ELSE S \cap FoundIn[q]
  OBVIOUS
<1>2. T \subseteq S /\ S \subseteq DOMAIN TextOf
  BY <1>1 DEF Named
<1>3. IsFiniteSet(T)
  BY <1>2, FS_Subset DEF Named
<1>4. DOMAIN TextOf \subseteq Nat
  BY ListsAssumption
<1>5. T \subseteq Int
  BY <1>2, <1>4
<1>6. PICK s : s = Ascending(T)
  OBVIOUS
<1>7. Climbs(T, s)
  BY <1>3, <1>5, <1>6, AscendingClimbs
<1>8. Len(s) = Cardinality(T) /\ DOMAIN s = 1 .. Cardinality(T)
  BY <1>7, ClimbsLen
<1>9. Cardinality(T) \in Nat /\ s \in [1 .. Cardinality(T) -> T]
  BY <1>7 DEF Climbs
<1>10. Offers(s)
  BY <1>2, <1>8, <1>9 DEF Offers
<1>11. matchAreas(S, q) = s
  BY <1>1, <1>6 DEF matchAreas
<1> QED  BY <1>10, <1>11

LEMMA SuggestionsOffer ==
  ASSUME areas \in AreaLists \cup {{}}
  PROVE  Offers(suggestions)
<1>1. Named(areas)
  <2>1. CASE areas = {}
    BY <2>1, FS_EmptySet DEF Named
  <2>2. CASE areas \in AreaLists
    BY <2>2, ListsAssumption DEF Named
  <2> QED  BY <2>1, <2>2
<1>2. CASE widget = "table"
  <2>1. suggestions = matchAreas(NamesOf(filterRows(Rows, ask.mode)), ask.query)
    BY <1>2 DEF suggestions
  <2> QED  BY <2>1, RowNamesNamed, MatchesOffer
<1>3. CASE widget # "table"
  <2>1. suggestions = matchAreas(areas, ask.query)
    BY <1>3 DEF suggestions
  <2> QED  BY <1>1, <2>1, MatchesOffer
<1> QED  BY <1>2, <1>3

-----------------------------------------------------------------------------
(* What every gesture keeps. *)

ListsInv ==
  /\ ask \in TableAsks /\ OrderIsOnScreen /\ OpensOnlyTheMeant
  /\ active \in Int /\ listOpen \in BOOLEAN /\ focused \in BOOLEAN /\ threw \in BOOLEAN
  /\ areas \in AreaLists \cup {{}}

LEMMA ListsInitInv == ListsInit => ListsInv
<1> SUFFICES ASSUME ListsInit PROVE ListsInv
  OBVIOUS
<1>1. ask = [mode |-> "all", query |-> "", key |-> "value", dir |-> "desc", perPage |-> ALL,
             page |-> 1, hidden |-> {}]
  BY DEF ListsInit
<1>2. "" \in DOMAIN FoundIn
  BY ListsAssumption
<1>3. ask \in TableAsks
  <2>1. /\ "all" \in Modes /\ "value" \in SortKeys /\ "desc" \in {"asc", "desc"}
        /\ ALL \in {ALL} \cup perPageOptions(Len(Rows)) /\ 1 \in Nat \ {0} /\ {} \in SUBSET DataKeys
    BY DEF Modes, SortKeys, DataKeys
  <2> QED  BY <1>1, <1>2, <2>1 DEF TableAsks
<1>4. OrderIsOnScreen
  BY <1>1 DEF OrderIsOnScreen, DataKeys
<1>5. OpensOnlyTheMeant
  <2>1. picked = [name |-> 0, typed |-> "", cursor |-> FALSE, among |-> <<>>]
    BY DEF ListsInit
  <2> QED  BY <2>1 DEF OpensOnlyTheMeant
<1>6. active = -1 /\ listOpen = FALSE /\ focused = FALSE /\ threw = FALSE /\ areas = {}
  BY DEF ListsInit
<1>7. active \in Int /\ areas \in AreaLists \cup {{}}
  BY <1>6
<1>8. listOpen \in BOOLEAN /\ focused \in BOOLEAN /\ threw \in BOOLEAN
  BY <1>6
<1> QED  BY <1>3, <1>4, <1>5, <1>7, <1>8 DEF ListsInv

\* The order stays on screen while neither it nor the columns change.
OnScreen(a) == DataKeys \ a.hidden # {} /\ a.key \notin a.hidden

\* A text asked for, on a page that is there.
LEMMA TextAsked ==
  ASSUME ask \in TableAsks, OnScreen(ask), NEW q \in DOMAIN FoundIn, NEW p \in Nat \ {0},
         NEW u, u = [ask EXCEPT !.query = q, !.page = p]
  PROVE  u \in TableAsks /\ OnScreen(u)
<1>1. u = [mode |-> ask.mode, query |-> q, key |-> ask.key, dir |-> ask.dir,
           perPage |-> ask.perPage, page |-> p, hidden |-> ask.hidden]
  BY DEF TableAsks
<1> QED  BY <1>1 DEF TableAsks, OnScreen

LEMMA QueryAsked ==
  ASSUME ask \in TableAsks, OnScreen(ask), NEW q \in DOMAIN FoundIn,
         NEW u, u = [ask EXCEPT !.query = q]
  PROVE  u \in TableAsks /\ OnScreen(u)
<1>1. u = [ask EXCEPT !.query = q, !.page = ask.page] /\ ask.page \in Nat \ {0}
  BY DEF TableAsks
<1> QED  BY <1>1, TextAsked

\* What a step of the lists has to keep.
KeepsAsk == ask' \in TableAsks /\ OnScreen(ask')
KeepsRest ==
  /\ active' \in Int /\ listOpen' \in BOOLEAN /\ focused' \in BOOLEAN /\ threw' \in BOOLEAN
  /\ areas' \in AreaLists \cup {{}}

LEMMA StepKeeps ==
  ASSUME ListsInv, KeepsAsk, KeepsRest, UNCHANGED picked \/ OpensOnlyTheMeant'
  PROVE  ListsInv'
<1>1. OrderIsOnScreen'
  BY DEF KeepsAsk, OnScreen, OrderIsOnScreen
<1>2. OpensOnlyTheMeant'
  <2>1. CASE UNCHANGED picked
    BY <2>1 DEF ListsInv, OpensOnlyTheMeant
  <2> QED  BY <2>1
<1> QED  BY <1>1, <1>2 DEF ListsInv, KeepsAsk, KeepsRest

\* The table's own controls leave the comboboxes closed.
LEMMA ControlKeeps ==
  ASSUME ListsInv, NEW u \in TableAsks, OnScreen(u), OnTable(u), Elsewhere
  PROVE  ListsInv'
<1>1. KeepsAsk
  BY DEF OnTable, KeepsAsk
<1>2. KeepsRest
  BY DEF ListsInv, OnTable, Elsewhere, KeepsRest
<1>3. UNCHANGED picked
  BY DEF OnTable
<1> QED  BY <1>1, <1>2, <1>3, StepKeeps

LEMMA ColumnStays ==
  ASSUME NEW h \in SUBSET DataKeys, DataKeys \ h # {}, NEW k \in DataKeys
  PROVE  nextHidden(h, k) \in SUBSET DataKeys /\ DataKeys \ nextHidden(h, k) # {}
<1>1. CASE k \in h
  BY <1>1 DEF nextHidden
<1>2. CASE k \notin h /\ Cardinality(DataKeys \ h) <= 1
  BY <1>2 DEF nextHidden
<1>3. CASE k \notin h /\ ~(Cardinality(DataKeys \ h) <= 1)
  <2>1. nextHidden(h, k) = h \cup {k}
    BY <1>3 DEF nextHidden
  <2>2. ASSUME DataKeys \ (h \cup {k}) = {} PROVE FALSE
    <3>1. DataKeys \ h = {k}
      BY <1>3, <2>2
    <3>2. Cardinality({k}) = 1
      BY FS_Singleton
    <3> QED  BY <1>3, <3>1, <3>2
  <2> QED  BY <2>1, <2>2
<1> QED  BY <1>1, <1>2, <1>3

LEMMA ListsTableKeeps ==
  ASSUME ListsInv
  PROVE  /\ \A k \in SortKeys : SortBy(k) => ListsInv'
         /\ \A m \in Modes : SetMode(m) => ListsInv'
         /\ \A n \in {ALL} \cup perPageOptions(Len(Rows)) : SetPerPage(n) => ListsInv'
         /\ \A w \in {"first", "prev", "next", "last"} : Go(w) => ListsInv'
         /\ \A k \in DataKeys : ToggleColumn(k) => ListsInv'
<1>0. ask \in TableAsks /\ OnScreen(ask)
  BY DEF ListsInv, OrderIsOnScreen, OnScreen
<1>1. ASSUME NEW k \in SortKeys, SortBy(k) PROVE ListsInv'
  <2>1. PICK d : d = IF k # ask.key THEN firstDir(k) ELSE IF ask.dir = "asc" THEN "desc" ELSE "asc"
    OBVIOUS
  <2>2. d \in {"asc", "desc"}
    BY <2>1 DEF firstDir
  <2>3. PICK u : u = [ask EXCEPT !.key = k, !.page = 1, !.dir = d]
    OBVIOUS
  <2>4. OnTable(u) /\ Elsewhere /\ k \notin ask.hidden
    BY <1>1, <2>1, <2>3 DEF SortBy
  <2>5. u = [mode |-> ask.mode, query |-> ask.query, key |-> k, dir |-> d,
             perPage |-> ask.perPage, page |-> 1, hidden |-> ask.hidden]
    BY <1>0, <2>3 DEF TableAsks
  <2>6. u \in TableAsks /\ OnScreen(u)
    BY <1>0, <2>2, <2>4, <2>5 DEF TableAsks, OnScreen
  <2> QED  BY <2>4, <2>6, ControlKeeps
<1>2. ASSUME NEW m \in Modes, SetMode(m) PROVE ListsInv'
  <2>1. PICK u : u = [ask EXCEPT !.mode = m, !.page = 1]
    OBVIOUS
  <2>2. OnTable(u) /\ Elsewhere
    BY <1>2, <2>1 DEF SetMode
  <2>3. u = [mode |-> m, query |-> ask.query, key |-> ask.key, dir |-> ask.dir,
             perPage |-> ask.perPage, page |-> 1, hidden |-> ask.hidden]
    BY <1>0, <2>1 DEF TableAsks
  <2>4. u \in TableAsks /\ OnScreen(u)
    BY <1>0, <2>3 DEF TableAsks, OnScreen
  <2> QED  BY <2>2, <2>4, ControlKeeps
<1>3. ASSUME NEW n \in {ALL} \cup perPageOptions(Len(Rows)), SetPerPage(n) PROVE ListsInv'
  <2>1. PICK u : u = [ask EXCEPT !.perPage = n, !.page = 1]
    OBVIOUS
  <2>2. OnTable(u) /\ Elsewhere
    BY <1>3, <2>1 DEF SetPerPage
  <2>3. u = [mode |-> ask.mode, query |-> ask.query, key |-> ask.key, dir |-> ask.dir,
             perPage |-> n, page |-> 1, hidden |-> ask.hidden]
    BY <1>0, <2>1 DEF TableAsks
  <2>4. u \in TableAsks /\ OnScreen(u)
    BY <1>0, <2>3 DEF TableAsks, OnScreen
  <2> QED  BY <2>2, <2>4, ControlKeeps
<1>4. ASSUME NEW w \in {"first", "prev", "next", "last"}, Go(w) PROVE ListsInv'
  <2>1. PICK v : v = View(ask)
    OBVIOUS
  <2>2. PICK to : to = CASE w = "first" -> 1
                         [] w = "prev" -> IF v.page > 1 THEN v.page - 1 ELSE 1
                         [] w = "next" -> IF v.page < v.pages THEN v.page + 1 ELSE v.pages
                         [] w = "last" -> v.pages
    OBVIOUS
  <2>3. PICK u : u = [ask EXCEPT !.page = to]
    OBVIOUS
  <2>4. OnTable(u) /\ Elsewhere
    BY <1>4, <2>1, <2>2, <2>3 DEF Go
  <2>5. PICK s, n, e : s = sortRows(Kept(ask), ask.key, ask.dir) /\ Answers(ask, s, n, e)
    BY <1>0, AnswerTakes
  <2>6. n \in Nat /\ Len(s) = n
    <3>1. n \in Nat /\ s \in [1 .. n -> TableRows]
      BY <2>5 DEF Answers, Takes
    <3>2. s \in Seq(TableRows) /\ DOMAIN s = 1 .. n
      BY ONLY <3>1
    <3> QED  BY ONLY <3>1, <3>2
  <2>7. PICK d : d = ask.perPage
    OBVIOUS
  <2>8. pageCount(n, d) \in Nat \ {0}
    <3>1. CASE d = ALL \/ n = 0
      BY <3>1 DEF pageCount
    <3>2. CASE ~(d = ALL \/ n = 0)
      <4>1. d \in Nat /\ d > 0 /\ n > 0
        BY <1>0, <2>6, <2>7, <3>2, OptionsDivide DEF TableAsks
      <4>2. pageCount(n, d) = (n + d - 1) \div d
        BY <3>2 DEF pageCount
      <4> QED  BY <2>6, <4>1, <4>2, PageEnds
    <3> QED  BY <3>1, <3>2
  <2>9. v.pages = pageCount(n, d) /\ v.page = IF ask.page > pageCount(n, d) THEN pageCount(n, d) ELSE ask.page
    BY <2>1, <2>5, <2>6, <2>7 DEF View, pageSlice
  <2>10. ask.page \in Nat \ {0}
    BY <1>0 DEF TableAsks
  <2>11. v.pages \in Nat \ {0} /\ v.page \in Nat \ {0}
    BY <2>8, <2>9, <2>10
  <2>12. to \in Nat \ {0}
    BY <2>2, <2>11
  <2>13. u = [mode |-> ask.mode, query |-> ask.query, key |-> ask.key, dir |-> ask.dir,
              perPage |-> ask.perPage, page |-> to, hidden |-> ask.hidden]
    BY <1>0, <2>3 DEF TableAsks
  <2>14. u \in TableAsks /\ OnScreen(u)
    BY <1>0, <2>12, <2>13 DEF TableAsks, OnScreen
  <2> QED  BY <2>4, <2>14, ControlKeeps
<1>5. ASSUME NEW k \in DataKeys, ToggleColumn(k) PROVE ListsInv'
  <2>1. PICK h, key, dir : /\ h = nextHidden(ask.hidden, k)
                           /\ key = IF ask.key \in h THEN "name" ELSE ask.key
                           /\ dir = IF ask.key \in h THEN firstDir("name") ELSE ask.dir
    OBVIOUS
  <2>2. PICK u : u = [ask EXCEPT !.hidden = h, !.key = key, !.dir = dir]
    OBVIOUS
  <2>3. OnTable(u) /\ Elsewhere
    BY <1>5, <2>1, <2>2 DEF ToggleColumn
  <2>4. h \in SUBSET DataKeys /\ DataKeys \ h # {}
    <3>1. ask.hidden \in SUBSET DataKeys /\ DataKeys \ ask.hidden # {}
      BY <1>0 DEF TableAsks, OnScreen
    <3> QED  BY <1>5, <2>1, <3>1, ColumnStays
  <2>5. "name" \notin h
    BY <2>4 DEF DataKeys
  <2>6. key \in SortKeys /\ key \notin h /\ dir \in {"asc", "desc"}
    BY <1>0, <2>1, <2>5 DEF TableAsks, SortKeys, firstDir
  <2>7. u = [mode |-> ask.mode, query |-> ask.query, key |-> key, dir |-> dir,
             perPage |-> ask.perPage, page |-> ask.page, hidden |-> h]
    BY <1>0, <2>2 DEF TableAsks
  <2>8. u \in TableAsks /\ OnScreen(u)
    BY <1>0, <2>4, <2>6, <2>7 DEF TableAsks, OnScreen
  <2> QED  BY <2>3, <2>8, ControlKeeps
<1> QED  BY <1>1, <1>2, <1>3, <1>4, <1>5

LEMMA AreasHold == ListsInv => areas \in AreaLists \cup {{}}
  BY DEF ListsInv

\* The text of a name offered can be asked for.
LEMMA OfferedText ==
  ASSUME NEW n \in DOMAIN TextOf
  PROVE  TextOf[n] \in DOMAIN FoundIn
  BY ListsAssumption

LEMMA ListClosedRest ==
  ASSUME ListsInv, active' \in {-1, active}, listOpen' = FALSE, UNCHANGED <<focused, threw, areas>>
  PROVE  KeepsRest
<1>1. active \in Int /\ areas \in AreaLists \cup {{}}
  BY DEF ListsInv
<1>2. active' \in Int /\ areas' \in AreaLists \cup {{}}
  BY <1>1
<1>3. focused \in BOOLEAN /\ threw \in BOOLEAN
  BY DEF ListsInv
<1>4. listOpen' \in BOOLEAN /\ focused' \in BOOLEAN /\ threw' \in BOOLEAN
  BY <1>3
<1> QED  BY <1>2, <1>4 DEF KeepsRest

LEMMA NarrowKeeps ==
  ASSUME ListsInv, NEW n \in DOMAIN TextOf, Narrow(n)
  PROVE  ListsInv'
<1>1. ask \in TableAsks /\ OnScreen(ask)
  BY DEF ListsInv, OrderIsOnScreen, OnScreen
<1>2. PICK u, q, p : q = TextOf[n] /\ p = 1 /\ u = [ask EXCEPT !.query = q, !.page = p]
  OBVIOUS
<1>3. q \in DOMAIN FoundIn /\ p \in Nat \ {0}
  BY <1>2, OfferedText
<1>4. u \in TableAsks /\ OnScreen(u)
  BY <1>1, <1>2, <1>3, TextAsked
<1>5. KeepsAsk
  BY <1>2, <1>4 DEF Narrow, KeepsAsk
<1>6. KeepsRest
  <2>1. active' = -1 /\ listOpen' = FALSE /\ UNCHANGED <<focused, threw, areas>>
    BY DEF Narrow
  <2> QED  BY <2>1, ListClosedRest
<1>7. UNCHANGED picked
  BY DEF Narrow
<1> QED  BY <1>5, <1>6, <1>7, StepKeeps

\* What may be opened: a name among those offered, pointed at, typed or left alone.
Meant(n, from) ==
  LET among == {suggestions[i] : i \in DOMAIN suggestions}
  IN /\ n \in among
     /\ (active # -1 \/ from = "mouse") \/ among = {n} \/ TextOf[n] = ask.query

LEMMA PickKeeps ==
  ASSUME ListsInv, NEW n \in DOMAIN TextOf, NEW from, pick(n, from), Meant(n, from)
  PROVE  ListsInv'
<1>1. ask \in TableAsks /\ OnScreen(ask)
  BY DEF ListsInv, OrderIsOnScreen, OnScreen
<1>2. PICK u, q : q = TextOf[n] /\ u = [ask EXCEPT !.query = q]
  OBVIOUS
<1>3. q \in DOMAIN FoundIn
  BY <1>2, OfferedText
<1>4. u \in TableAsks /\ OnScreen(u)
  BY <1>1, <1>2, <1>3, QueryAsked
<1>5. KeepsAsk
  BY <1>2, <1>4 DEF pick, KeepsAsk
<1>6. KeepsRest
  <2>1. active' = -1 /\ listOpen' = FALSE /\ UNCHANGED <<focused, threw, areas>>
    BY DEF pick
  <2> QED  BY <2>1, ListClosedRest
<1>7. OpensOnlyTheMeant'
  <2>1. PICK there, cursor : there = suggestions /\ cursor = (active # -1 \/ from = "mouse")
    OBVIOUS
  <2>2. picked' = [name |-> n, typed |-> ask.query, cursor |-> cursor, among |-> there]
    BY <2>1 DEF pick
  <2>3. /\ n \in {there[i] : i \in DOMAIN there}
        /\ cursor \/ {there[i] : i \in DOMAIN there} = {n} \/ TextOf[n] = ask.query
    BY <2>1 DEF Meant
  <2>4. /\ picked'.name = n /\ picked'.typed = ask.query /\ picked'.among = there
        /\ picked'.cursor = cursor
    BY <2>2
  <2> QED  BY <2>3, <2>4 DEF OpensOnlyTheMeant
<1> QED  BY <1>5, <1>6, <1>7, StepKeeps

\* A name is opened by Enter only if it is meant.
LEMMA EnterMeans ==
  ASSUME ListsInv, EnterInFinder
  PROVE  ListsInv'
<1>1. Offers(suggestions)
  BY AreasHold, SuggestionsOffer
<1>2. PICK there : there = suggestions
  OBVIOUS
<1>3. /\ Len(there) \in Nat /\ DOMAIN there = 1 .. Len(there)
      /\ \A i \in 1 .. Len(there) : there[i] \in DOMAIN TextOf
  BY <1>1, <1>2 DEF Offers
<1>4. active \in Int
  BY DEF ListsInv
<1>5. CASE active < 0
  <2>1. PICK n \in exactMatch(there, ask.query) : pick(n, "keys")
    BY <1>2, <1>5 DEF EnterInFinder
  <2>2. PICK among : among = {there[i] : i \in DOMAIN there}
    OBVIOUS
  <2>3. n \in among /\ (TextOf[n] = ask.query \/ Len(there) = 1)
    BY <2>1, <2>2 DEF exactMatch
  <2>4. n \in DOMAIN TextOf
    BY <1>3, <2>2, <2>3
  <2>5. Len(there) = 1 => among = {n}
    <3> SUFFICES ASSUME Len(there) = 1 PROVE among = {n}
      OBVIOUS
    <3>1. DOMAIN there = {1}
      BY <1>3
    <3> QED  BY <2>2, <2>3, <3>1
  <2>6. Meant(n, "keys")
    BY <1>2, <2>2, <2>3, <2>5 DEF Meant
  <2> QED  BY <2>1, <2>4, <2>6, PickKeeps
<1>6. CASE ~(active < 0)
  <2>1. active < Len(there) /\ pick(there[active + 1], "keys")
    BY <1>2, <1>6 DEF EnterInFinder
  <2>2. active + 1 \in 1 .. Len(there)
    BY <1>3, <1>4, <1>6, <2>1
  <2>3. PICK n : n = there[active + 1]
    OBVIOUS
  <2>4. n \in DOMAIN TextOf /\ n \in {there[i] : i \in DOMAIN there} /\ active # -1
    BY <1>3, <1>4, <1>6, <2>2, <2>3
  <2>5. Meant(n, "keys")
    BY <1>2, <2>4 DEF Meant
  <2> QED  BY <2>1, <2>3, <2>4, <2>5, PickKeeps
<1> QED  BY <1>5, <1>6

LEMMA ComboKeeps ==
  ASSUME ListsInv
  PROVE  /\ Focus \/ Blur \/ EnterInTable \/ EscapeList => ListsInv'
         /\ \A q \in Texts : TypeText(q) => ListsInv'
         /\ \A step \in {1, -1} : MoveCursor(step) => ListsInv'
         /\ \A jump \in {"home", "end"} : JumpCursor(jump) => ListsInv'
         /\ \A n \in DOMAIN TextOf : PressOption(n) => ListsInv'
         /\ \A as \in AreaLists : AreasLand(as) => ListsInv'
<1>a. ask \in TableAsks /\ OnScreen(ask) /\ active \in Int
  BY DEF ListsInv, OrderIsOnScreen, OnScreen
<1>b. Offers(suggestions)
  BY AreasHold, SuggestionsOffer
<1>c. PICK there : there = suggestions
  OBVIOUS
<1>d. /\ Len(there) \in Nat /\ DOMAIN there = 1 .. Len(there)
      /\ \A i \in 1 .. Len(there) : there[i] \in DOMAIN TextOf
  BY <1>b, <1>c DEF Offers
<1>e. ask.page \in Nat \ {0}
  BY <1>a DEF TableAsks
<1>1. ASSUME Focus \/ Blur PROVE ListsInv'
  <2>1. UNCHANGED <<ask, threw, areas, picked>> /\ listOpen' \in BOOLEAN /\ focused' \in BOOLEAN
        /\ active' \in {-1, active}
    BY <1>1 DEF Focus, Blur
  <2>2. KeepsAsk
    BY <1>a, <2>1 DEF KeepsAsk
  <2>3. KeepsRest
    BY <1>a, <2>1 DEF KeepsRest, ListsInv
  <2> QED  BY <2>1, <2>2, <2>3, StepKeeps
<1>2. ASSUME EnterInTable PROVE ListsInv'
  <2>1. CASE active < Len(there)
    <3>1. Narrow(there[active + 1]) /\ active >= 0
      BY <1>2, <1>c, <2>1 DEF EnterInTable
    <3>2. active + 1 \in 1 .. Len(there)
      BY <1>a, <1>d, <2>1, <3>1
    <3>3. there[active + 1] \in DOMAIN TextOf
      BY <1>d, <3>2
    <3> QED  BY <3>1, <3>3, NarrowKeeps
  <2>2. CASE ~(active < Len(there))
    <3>1. threw' = TRUE /\ UNCHANGED <<ask, comboVars, areas, picked>>
      BY <1>2, <1>c, <2>2 DEF EnterInTable
    <3>2. KeepsAsk
      BY <1>a, <3>1 DEF KeepsAsk
    <3>3. KeepsRest
      BY <3>1 DEF KeepsRest, comboVars, ListsInv
    <3> QED  BY <3>1, <3>2, <3>3, StepKeeps
  <2> QED  BY <2>1, <2>2
<1>3. ASSUME EscapeList PROVE ListsInv'
  <2>1. UNCHANGED <<focused, threw, areas, picked>> /\ listOpen' = FALSE /\ active' \in {-1, active}
    BY <1>3 DEF EscapeList
  <2>2. KeepsRest
    BY <2>1, ListClosedRest
  <2>3. PICK p : p = IF widget = "table" THEN 1 ELSE ask.page
    OBVIOUS
  <2>4. PICK u : u = [ask EXCEPT !.query = "", !.page = p]
    OBVIOUS
  <2>5. ask' = IF listOpen THEN ask ELSE u
    BY <1>3, <2>3, <2>4 DEF EscapeList
  <2>9. "" \in DOMAIN FoundIn
    BY ListsAssumption
  <2>10. p \in Nat \ {0}
    <3>1. CASE widget = "table"
      BY <2>3, <3>1
    <3>2. CASE widget # "table"
      BY <1>e, <2>3, <3>2
    <3> QED  BY <3>1, <3>2
  <2>6. "" \in DOMAIN FoundIn /\ p \in Nat \ {0}
    BY <2>9, <2>10
  <2>7. u \in TableAsks /\ OnScreen(u)
    BY <1>a, <2>4, <2>6, TextAsked
  <2>8. KeepsAsk
    BY <1>a, <2>5, <2>7 DEF KeepsAsk
  <2> QED  BY <2>1, <2>2, <2>8, StepKeeps
<1>4. ASSUME NEW q \in Texts, TypeText(q) PROVE ListsInv'
  <2>1. UNCHANGED <<focused, threw, areas, picked>> /\ listOpen' = TRUE /\ active' = -1
    BY <1>4 DEF TypeText
  <2>2. KeepsRest
    BY <2>1 DEF KeepsRest, ListsInv
  <2>3. PICK u, p : p = 1 /\ u = [ask EXCEPT !.query = q, !.page = p]
    OBVIOUS
  <2>4. ask' = u
    BY <1>4, <2>3 DEF TypeText
  <2>8. Texts \subseteq DOMAIN FoundIn
    BY ListsAssumption
  <2>5. q \in DOMAIN FoundIn /\ p \in Nat \ {0}
    BY <2>3, <2>8
  <2>6. u \in TableAsks /\ OnScreen(u)
    BY <1>a, <2>3, <2>5, TextAsked
  <2>7. KeepsAsk
    BY <2>4, <2>6 DEF KeepsAsk
  <2> QED  BY <2>1, <2>2, <2>7, StepKeeps
<1>5. ASSUME NEW step \in {1, -1}, MoveCursor(step) PROVE ListsInv'
  <2>1. PICK n : n = Len(there)
    OBVIOUS
  <2>2. UNCHANGED <<focused, ask, threw, areas, picked>> /\ listOpen' = TRUE /\ n > 0
        /\ active' = IF active < 0 THEN (IF step > 0 THEN 0 ELSE n - 1) ELSE (active + step + n) % n
    BY <1>5, <1>c, <2>1 DEF MoveCursor
  <2>3. active' \in Int
    <3>1. n \in Int /\ n > 0 /\ active + step + n \in Int
      BY <1>a, <1>d, <2>1, <2>2
    <3>2. (active + step + n) % n \in Int
      BY <3>1
    <3> QED  BY <2>2, <3>1, <3>2
  <2>4. KeepsAsk
    BY <1>a, <2>2 DEF KeepsAsk
  <2>5. KeepsRest
    BY <2>2, <2>3 DEF KeepsRest, ListsInv
  <2> QED  BY <2>2, <2>4, <2>5, StepKeeps
<1>6. ASSUME NEW jump \in {"home", "end"}, JumpCursor(jump) PROVE ListsInv'
  <2>1. UNCHANGED <<focused, listOpen, ask, threw, areas, picked>>
        /\ active' = IF jump = "home" THEN 0 ELSE Len(there) - 1
    BY <1>6, <1>c DEF JumpCursor
  <2>2. active' \in Int
    BY <1>d, <2>1
  <2>3. KeepsAsk
    BY <1>a, <2>1 DEF KeepsAsk
  <2>4. KeepsRest
    BY <2>1, <2>2 DEF KeepsRest, ListsInv
  <2> QED  BY <2>1, <2>3, <2>4, StepKeeps
<1>7. ASSUME NEW n \in DOMAIN TextOf, PressOption(n) PROVE ListsInv'
  <2>1. CASE widget = "table"
    <3>1. Narrow(n)
      BY <1>7, <2>1 DEF PressOption
    <3> QED  BY <3>1, NarrowKeeps
  <2>2. CASE widget # "table"
    <3>1. pick(n, "mouse") /\ n \in {suggestions[i] : i \in DOMAIN suggestions}
      BY <1>7, <2>2 DEF PressOption
    <3>2. Meant(n, "mouse")
      BY <3>1 DEF Meant
    <3> QED  BY <3>1, <3>2, PickKeeps
  <2> QED  BY <2>1, <2>2
<1>8. ASSUME NEW as \in AreaLists, AreasLand(as) PROVE ListsInv'
  <2>1. UNCHANGED <<ask, comboVars, threw, picked>> /\ areas' = as
    BY <1>8 DEF AreasLand
  <2>2. KeepsAsk
    BY <1>a, <2>1 DEF KeepsAsk
  <2>3. KeepsRest
    BY <2>1 DEF KeepsRest, ListsInv, comboVars
  <2> QED  BY <2>1, <2>2, <2>3, StepKeeps
<1> QED  BY <1>1, <1>2, <1>3, <1>4, <1>5, <1>6, <1>7, <1>8

LEMMA ListsStutters == ASSUME ListsInv, UNCHANGED listVars PROVE ListsInv'
<1>1. UNCHANGED <<ask, picked, active, listOpen, focused, threw, areas>>
  BY DEF listVars, comboVars
<1>2. KeepsAsk
  BY <1>1 DEF KeepsAsk, ListsInv, OnScreen, OrderIsOnScreen
<1>3. KeepsRest
  BY <1>1 DEF KeepsRest, ListsInv
<1> QED  BY <1>1, <1>2, <1>3, StepKeeps

LEMMA ListsNextInv == ListsInv /\ [ListsNext]_listVars => ListsInv'
<1> SUFFICES ASSUME ListsInv, [ListsNext]_listVars PROVE ListsInv'
  OBVIOUS
<1> USE DEF SortKeys, Modes
<1>1. CASE \E k \in SortKeys : SortBy(k)
  BY <1>1, ListsTableKeeps
<1>2. CASE \E m \in Modes : SetMode(m)
  BY <1>2, ListsTableKeeps
<1>3. CASE \E n \in {ALL} \cup perPageOptions(Len(Rows)) : SetPerPage(n)
  BY <1>3, ListsTableKeeps
<1>4. CASE \E w \in {"first", "prev", "next", "last"} : Go(w)
  BY <1>4, ListsTableKeeps
<1>5. CASE \E k \in DataKeys : ToggleColumn(k)
  BY <1>5, ListsTableKeeps
<1>6. CASE Focus \/ Blur \/ EnterInTable \/ EscapeList
  BY <1>6, ComboKeeps
<1>7. CASE EnterInFinder
  BY <1>7, EnterMeans
<1>8. CASE \E q \in Texts : TypeText(q)
  BY <1>8, ComboKeeps
<1>9. CASE \E step \in {1, -1} : MoveCursor(step)
  BY <1>9, ComboKeeps
<1>10. CASE \E jump \in {"home", "end"} : JumpCursor(jump)
  BY <1>10, ComboKeeps
<1>11. CASE \E n \in DOMAIN TextOf : PressOption(n)
  BY <1>11, ComboKeeps
<1>12. CASE \E as \in AreaLists : AreasLand(as)
  BY <1>12, ComboKeeps
<1>13. CASE UNCHANGED listVars
  BY <1>13, ListsStutters
<1> QED
  BY <1>1, <1>2, <1>3, <1>4, <1>5, <1>6, <1>7, <1>8, <1>9, <1>10, <1>11, <1>12, <1>13
  DEF ListsNext

LEMMA ListsInvShape == ListsInv => ListsTypeOK
<1> SUFFICES ASSUME ListsInv PROVE ListsTypeOK
  OBVIOUS
<1>1. ask \in TableAsks
  BY DEF ListsInv
<1>2. ask.mode \in Modes /\ ask.query \in DOMAIN FoundIn /\ ask.page \in Nat /\ ask.hidden \subseteq DataKeys
  BY <1>1 DEF TableAsks
<1> QED  BY <1>2 DEF ListsInv, ListsTypeOK, Modes

\* The table's and the finder's state keep their shape.
THEOREM ListsTypeCorrect == ListsSpec => []ListsTypeOK
  BY ListsInitInv, ListsNextInv, ListsInvShape, PTL DEF ListsSpec

\* The province table and the finder, for any rows, readings, texts and lists of areas:
\* whatever is filtered, searched, sorted and paged, each kept row is on exactly one
\* page, readings stand before silences, no page is empty while a row is kept, the
\* order's column is on screen, and only an area that was meant is opened.
THEOREM ListsAlwaysAnswer == ListsSpec => []ListsAnswer
<1>1. ListsInv => ListsAnswer
  BY AskedPagesShowEveryRow DEF ListsInv, ListsAnswer
<1> QED  BY <1>1, ListsInitInv, ListsNextInv, PTL DEF ListsSpec

=============================================================================
