------------------------------- MODULE Chrome -------------------------------
(***************************************************************************)
(* The furniture around the map canvas: the colour key, the layers list,   *)
(* the window menu with the refresh controls it takes in on a phone, the   *)
(* wind note, the compass popover and the scale dialog                     *)
(* (web/src/lib/chrome.js, mapcontrols.js, mapwindow.js, maplayers.js,     *)
(* scaledialog.js), and the refresh store behind the refresh controls      *)
(* (freshness.svelte.js).                                                  *)
(*                                                                         *)
(* The key is a <details>: a write of its open state queues one toggle     *)
(* event, and writes made before that event runs share it.                 *)
(***************************************************************************)
EXTENDS Integers

CONSTANTS Providers,     \* the maps that registered a reload with the store
          MaxGestures    \* bound: what the reader does in one visit

ASSUME ChromeAssumption == MaxGestures \in Nat

VARIABLES
  viewport,    \* "portrait" (max-width 672px), "landscape" phone, or "wide"
  phone,       \* isPhoneViewport() as read at the mount
  chromeGestures,    \* what the reader has done so far
  legend,      \* [open, queued, auto]: auto is autoTarget
  readerFold,  \* ghost: the open state of the reader's own last change
  keptFold,      \* the flag under LEGEND_FOLD_KEY
  list,        \* [open, foldedLegend]: the layers list and legendFoldedForLayers
  refreshAt,   \* where the refresh controls are: the "footer" of the menu or the "row"
  pops,        \* the open pop-ups: window menu, compass, wind note, scale dialog
  wind,        \* the wind note is shown
  fresh        \* the store: [busy, failed, auto, timer, waiting]

chromeVars == <<viewport, phone, chromeGestures, legend, readerFold, keptFold, list, refreshAt, pops, wind, fresh>>
legendVars == <<legend, readerFold, keptFold, list>>
popVars == <<refreshAt, pops, wind>>

Viewports == {"portrait", "landscape", "wide"}
Pops == {"window", "compass", "windNote", "dialog"}
isPhoneViewport(v) == v \in {"portrait", "landscape"}

ChromeInit ==
  /\ viewport \in Viewports /\ phone = isPhoneViewport(viewport)
  /\ chromeGestures = 0
  /\ keptFold \in BOOLEAN
  /\ legend = [open |-> keptFold, queued |-> FALSE, auto |-> "none"]
  /\ readerFold = keptFold
  /\ list = [open |-> FALSE, foldedLegend |-> FALSE]
  /\ refreshAt = IF phone THEN "footer" ELSE "row"
  /\ pops = {} /\ wind = FALSE
  /\ \E auto \in BOOLEAN :
       fresh = [busy |-> FALSE, failed |-> FALSE, auto |-> auto,
                timer |-> auto, waiting |-> {}]

ChromeGesture == chromeGestures < MaxGestures /\ chromeGestures' = chromeGestures + 1

-----------------------------------------------------------------------------
(* The key and the layers list.                                            *)

autoTarget(open) == IF open THEN "open" ELSE "shut"

\* Mutant of SetLegendOpen: the event of a write made by the page looks like the
\* reader's.
SetLegendOpen_Unmarked(open) ==
  IF legend.open = open THEN legend
  ELSE [open |-> open, queued |-> TRUE, auto |-> legend.auto]

\* A write by the page, marked with the state it leaves.
SetLegendOpen(open) ==
  IF legend.open = open THEN legend
  ELSE [open |-> open, queued |-> TRUE, auto |-> autoTarget(open)]

\* The triangle by keyboard, and Escape with the focus in the key.
ReaderFolds(open) ==
  /\ ChromeGesture /\ legend.open # open
  /\ legend' = [legend EXCEPT !.open = open, !.queued = TRUE]
  /\ readerFold' = open
  /\ UNCHANGED <<viewport, phone, keptFold, list, popVars, fresh>>

\* A press anywhere outside an open layers list closes it, and restores the key.
ListLeft == [open |-> FALSE, foldedLegend |-> FALSE]
KeyLeft == IF list.open /\ list.foldedLegend THEN SetLegendOpen(TRUE) ELSE legend

\* The triangle or a tap on the key, by pointer: the press closes the list first,
\* and the click then turns over whatever state the key is in by now.
ReaderTaps ==
  /\ ChromeGesture
  /\ list' = IF list.open THEN ListLeft ELSE list
  /\ legend' = [KeyLeft EXCEPT !.open = ~@, !.queued = TRUE]
  /\ readerFold' = ~KeyLeft.open
  /\ UNCHANGED <<viewport, phone, keptFold, popVars, fresh>>

\* The toggle event: a fold the page made is not kept, the reader's is, and a key
\* the reader opens closes the layers list, which then restores nothing.
OnToggle ==
  /\ legend.queued
  /\ legend' = [legend EXCEPT !.queued = FALSE, !.auto = "none"]
  /\ IF legend.auto = autoTarget(legend.open)
     THEN UNCHANGED <<keptFold, list>>
     ELSE /\ keptFold' = legend.open
          /\ list' = IF legend.open /\ list.open
                     THEN ListLeft ELSE list
  /\ UNCHANGED <<viewport, phone, chromeGestures, readerFold, popVars, fresh>>

\* The list's button; Escape in it and a press beside it only close it.
OpenList ==
  /\ ChromeGesture /\ ~list.open
  /\ list' = [open |-> TRUE, foldedLegend |-> list.foldedLegend \/ legend.open]
  /\ legend' = SetLegendOpen(FALSE)
  /\ UNCHANGED <<viewport, phone, readerFold, keptFold, popVars, fresh>>

CloseList ==
  /\ ChromeGesture /\ list.open
  /\ list' = ListLeft /\ legend' = KeyLeft
  /\ UNCHANGED <<viewport, phone, readerFold, keptFold, popVars, fresh>>

\* closeLegend: the map starts to move, the replay bar opens or the attribution
\* card does; on a phone the key gives way.
CloseLegend ==
  /\ phone /\ legend.open
  /\ legend' = SetLegendOpen(FALSE)
  /\ UNCHANGED <<viewport, phone, chromeGestures, readerFold, keptFold, list, popVars, fresh>>

-----------------------------------------------------------------------------
(* The pop-ups and the wind note.                                          *)

\* A pop-up's button.  The window menu and the compass close on a press beside
\* them, so opening another one closes them; the note and the dialog do not.
Press(p) ==
  /\ ChromeGesture
  /\ "dialog" \notin pops
  /\ p = "windNote" => wind
  /\ p = "dialog" => legend.open
  /\ pops' = IF p \in pops THEN pops \ {p} ELSE (pops \ {"window", "compass"}) \cup {p}
  /\ list' = IF list.open THEN ListLeft ELSE list
  /\ legend' = KeyLeft
  /\ UNCHANGED <<viewport, phone, readerFold, keptFold, refreshAt, wind, fresh>>

\* A window is picked: the menu closes itself.
PickWindowOption ==
  /\ ChromeGesture /\ "window" \in pops
  /\ pops' = pops \ {"window"}
  /\ UNCHANGED <<viewport, phone, legendVars, refreshAt, wind, fresh>>

\* Escape: a modal dialog takes it alone; else the compass and the wind note hear
\* it on the document and both close.  The window menu closes only with the focus
\* inside it.
Escape(inMenu) ==
  /\ ChromeGesture /\ pops # {}
  /\ pops' = IF "dialog" \in pops THEN pops \ {"dialog"}
             ELSE pops \ ({"compass", "windNote"} \cup IF inMenu THEN {"window"} ELSE {})
  /\ UNCHANGED <<viewport, phone, legendVars, refreshAt, wind, fresh>>

\* showWind, and foldWind on a click on the map.
ShowWind(on) ==
  /\ wind # on
  /\ wind' = on
  /\ pops' = IF on THEN pops ELSE pops \ {"windNote"}
  /\ UNCHANGED <<viewport, phone, chromeGestures, legendVars, refreshAt, fresh>>

MapClick ==
  /\ ChromeGesture /\ "dialog" \notin pops
  /\ pops' = {}
  /\ list' = IF list.open THEN ListLeft ELSE list
  /\ legend' = KeyLeft
  /\ UNCHANGED <<viewport, phone, readerFold, keptFold, refreshAt, wind, fresh>>

\* A rotation: only the 672px breakpoint is listened to.
Rotate(v) ==
  /\ ChromeGesture /\ viewport # v
  /\ viewport' = v
  /\ refreshAt' = IF (v = "portrait") = (viewport = "portrait") THEN refreshAt
                  ELSE IF v = "portrait" THEN "footer" ELSE "row"
  /\ UNCHANGED <<phone, legendVars, pops, wind, fresh>>

-----------------------------------------------------------------------------
(* The refresh store.                                                      *)

\* request() up to its await.
BeginRequest(f) ==
  IF f.busy THEN f ELSE [f EXCEPT !.busy = TRUE, !.failed = FALSE, !.waiting = Providers]

\* The refresh button, and the interval of the automatic refresh.
AskRefresh == ChromeGesture /\ fresh' = BeginRequest(fresh) /\ UNCHANGED <<viewport, phone, legendVars, popVars>>

Interval ==
  /\ fresh.timer /\ fresh' = BeginRequest(fresh)
  /\ UNCHANGED <<viewport, phone, chromeGestures, legendVars, popVars>>

ProviderDone(p) ==
  /\ p \in fresh.waiting
  /\ fresh' = [fresh EXCEPT !.waiting = @ \ {p}]
  /\ UNCHANGED <<viewport, phone, chromeGestures, legendVars, popVars>>

\* Every provider is through: the store is idle again.
RequestDone ==
  /\ fresh.busy /\ fresh.waiting = {}
  /\ fresh' = [fresh EXCEPT !.busy = FALSE]
  /\ UNCHANGED <<viewport, phone, chromeGestures, legendVars, popVars>>

\* One provider rejects: the request ends at once, the other reloads go on.
ProviderRejects(p) ==
  /\ fresh.busy /\ p \in fresh.waiting
  /\ fresh' = [fresh EXCEPT !.busy = FALSE, !.failed = TRUE, !.waiting = @ \ {p}]
  /\ UNCHANGED <<viewport, phone, chromeGestures, legendVars, popVars>>

\* setAuto and the schedule() it calls.
SetAuto ==
  /\ ChromeGesture
  /\ fresh' = [fresh EXCEPT !.auto = ~@, !.timer = ~fresh.auto]
  /\ UNCHANGED <<viewport, phone, legendVars, popVars>>

ChromeNext ==
  \/ \E open \in BOOLEAN : ReaderFolds(open) \/ ShowWind(open) \/ Escape(open)
  \/ ReaderTaps \/ OnToggle \/ OpenList \/ CloseList \/ CloseLegend
  \/ \E p \in Pops : Press(p)
  \/ PickWindowOption \/ MapClick
  \/ \E v \in Viewports : Rotate(v)
  \/ AskRefresh \/ Interval \/ RequestDone \/ SetAuto
  \/ \E p \in Providers : ProviderDone(p) \/ ProviderRejects(p)

ChromeSpec == ChromeInit /\ [][ChromeNext]_chromeVars

-----------------------------------------------------------------------------
(* Properties.                                                             *)

\* The shape of the furniture's state.
ChromeTypeOK ==
  /\ viewport \in Viewports /\ phone \in BOOLEAN /\ chromeGestures \in 0 .. MaxGestures
  /\ legend \in [open : BOOLEAN, queued : BOOLEAN, auto : {"none", "open", "shut"}]
  /\ {keptFold, readerFold, wind} \subseteq BOOLEAN
  /\ list \in [open : BOOLEAN, foldedLegend : BOOLEAN]
  /\ refreshAt \in {"footer", "row"} /\ pops \subseteq Pops
  /\ fresh \in [busy : BOOLEAN, failed : BOOLEAN, auto : BOOLEAN, timer : BOOLEAN,
                waiting : SUBSET Providers]

\* What is remembered of the key's fold is only ever a fold the reader made: no
\* interleaving of the page's own folds (a moving map, the replay bar, the layers
\* list closing and restoring it) with the coalesced toggle event stores a fold
\* nobody chose (the autoTarget guard of chrome.js).
FoldIsReaders == [][keptFold' # keptFold => keptFold' = readerFold]_chromeVars
=============================================================================
