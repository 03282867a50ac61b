------------------------------- MODULE Sheets -------------------------------
(***************************************************************************)
(* The open sensor's card and its three homes: the panel under the map     *)
(* (islands/panel.js), the dock along the bottom of a wide map             *)
(* (lib/sidedock.svelte.js) and the sheet inside a full-screen frame       *)
(* (lib/sensorsheet.svelte.js).  The gauges and the star are moved between *)
(* them, never copied.  Full screen is native when the browser grants it   *)
(* and a class on the frame when it refuses (lib/mapcontrols.js).          *)
(*                                                                         *)
(* A panel section is numbered each time it is rendered anew, so gauges of *)
(* a section that is gone can be told from those of the one that is shown. *)
(***************************************************************************)
EXTENDS Integers

CONSTANTS Sensors, NoSensor,
          MaxPanels,   \* bound: sections rendered in one visit
          MaxAsks      \* bound: full-screen requests waiting for the browser

ASSUME SheetsAssumption ==
  /\ NoSensor \notin Sensors
  /\ MaxPanels \in Nat /\ MaxAsks \in Nat \ {0}

VARIABLES
  wide,        \* min-width 1024px; below it the page may scroll to the card
  embed,       \* the embed page never docks
  native,      \* doc.fullscreenElement is the frame
  faux,        \* the frame carries map--faux-full
  asks,        \* requestFullscreen calls the browser has not answered
  leaving,     \* exitFullscreen was called and has not taken effect
  told,        \* the state onChange passed last: `full` of dock and sheet
  openId,      \* vs.sensorId
  known,       \* the sensors the registry holds
  panel,       \* the section that is rendered, 0 for none
  rendered,    \* sections rendered so far
  homes,       \* the section whose gauges and star the dock and the sheet hold
  folded,      \* the dock's fold, as stored under FOLD_KEY
  padded,     \* the camera's bottom padding: none, the strip or the whole dock
  scrollOnExit,
  returnY      \* createPanelScroll keeps a place on the map to go back to

sheetVars == <<wide, embed, native, faux, asks, leaving, told, openId, known, panel, rendered, homes,
               folded, padded, scrollOnExit, returnY>>
screenVars == <<native, faux, asks, leaving, told>>
cardVars == <<openId, known, panel, rendered>>

Homes == {"dock", "sheet"}
isFull(n, f) == n \/ f
Shown(id, ids) == id \in ids
ShownId(id, ids) == IF Shown(id, ids) THEN id ELSE NoSensor
Covers(h, f) == IF h["dock"] = 0 THEN "none" ELSE IF f THEN "strip" ELSE "dock"

SheetsInit ==
  /\ wide \in BOOLEAN /\ embed \in BOOLEAN
  /\ native = FALSE /\ faux = FALSE /\ asks = 0 /\ leaving = FALSE /\ told = FALSE
  /\ openId \in Sensors \cup {NoSensor} /\ known = {} /\ panel = 0 /\ rendered = 0
  /\ homes = [h \in Homes |-> 0]
  /\ folded \in BOOLEAN /\ padded = "none"
  /\ scrollOnExit = FALSE /\ returnY = FALSE

-----------------------------------------------------------------------------
(* Homes.                                                                  *)

\* sync of one home: it takes the gauges it finds in the panel or already has from
\* it, and lets go of anything else; a home that does not want them lets go.
Sync(hs, h, wants, p) ==
  LET found == p # 0 /\ \A g \in Homes \ {h} : hs[g] # p
  IN [hs EXCEPT ![h] = IF wants /\ found THEN p ELSE 0]

SyncDock(hs, full, w, p) == Sync(hs, "dock", ~embed /\ ~full /\ w, p)
SyncSheet(hs, full, p) == Sync(hs, "sheet", full, p)

\* The follow effects, after the panel has rendered: the sheet's was made first.
Follow(p) == SyncDock(SyncSheet(homes, told, p), told, wide, p)

\* Mutant of OnChange: on the way in the sheet looks before the dock has let go.
OnChange_SheetFirst(full) ==
  IF full THEN SyncDock(SyncSheet(homes, TRUE, panel), TRUE, wide, panel)
          ELSE SyncDock(SyncSheet(homes, FALSE, panel), FALSE, wide, panel)

\* onChange: the home that gives up the gauges goes first, in either direction.
OnChange(full) ==
  IF full THEN SyncSheet(SyncDock(homes, TRUE, wide, panel), TRUE, panel)
          ELSE SyncDock(SyncSheet(homes, FALSE, panel), FALSE, wide, panel)

\* paint(): the button, and every home, learn what the screen is.
Paint(full) ==
  /\ told' = full
  /\ homes' = OnChange(full)
  /\ padded' = Covers(homes', folded)
  /\ scrollOnExit' = (scrollOnExit /\ full)

-----------------------------------------------------------------------------
(* Full screen.                                                            *)

PressFull ==
  \/ /\ ~isFull(native, faux)
     /\ asks < MaxAsks /\ asks' = asks + 1
     /\ UNCHANGED <<native, faux, leaving, told, homes, padded, scrollOnExit>>
  \/ /\ isFull(native, faux)
     /\ leaving' = native /\ faux' = FALSE
     /\ Paint(native)
     /\ UNCHANGED <<native, asks>>

\* A device without the API never asks: the class at once.
PressFauxOnly ==
  /\ ~isFull(native, faux)
  /\ faux' = TRUE
  /\ Paint(TRUE)
  /\ UNCHANGED <<native, asks, leaving>>

Granted ==
  /\ asks > 0 /\ asks' = asks - 1
  /\ native' = TRUE
  /\ Paint(TRUE)
  /\ UNCHANGED <<faux, leaving>>

Refused ==
  /\ asks > 0 /\ asks' = asks - 1
  /\ faux' = TRUE
  /\ Paint(TRUE)
  /\ UNCHANGED <<native, leaving>>

\* The browser leaves: by exitFullscreen, or on its own Escape.
NativeGone ==
  /\ native
  /\ native' = FALSE /\ leaving' = FALSE
  /\ Paint(isFull(FALSE, faux))
  /\ UNCHANGED <<faux, asks>>

Screen ==
  /\ PressFull \/ PressFauxOnly \/ Granted \/ Refused \/ NativeGone
  /\ UNCHANGED <<wide, embed, cardVars, folded, returnY>>

-----------------------------------------------------------------------------
(* The card.                                                               *)

\* The panel renders what the view state and the registry agree on, the follow
\* effects move its gauges, and the page scrolls to the card or back to the map.
Card(id, ids) ==
  /\ openId' = id /\ known' = ids
  /\ IF ~Shown(id, ids) THEN panel' = 0 /\ UNCHANGED rendered
     ELSE IF panel # 0 THEN UNCHANGED <<panel, rendered>>
     ELSE /\ rendered < MaxPanels /\ rendered' = rendered + 1
          /\ panel' = rendered + 1
  /\ homes' = Follow(panel')
  /\ padded' = Covers(homes', folded)
  /\ IF ShownId(id, ids) = ShownId(openId, known) THEN UNCHANGED returnY
     ELSE IF ~Shown(id, ids) THEN returnY' = FALSE
     ELSE returnY' \in {returnY, returnY \/ ~(wide \/ isFull(native, faux))}

Opens(s) == openId # s /\ Card(s, known)
CloseCard == openId # NoSensor /\ Card(NoSensor, known)
RegistryLands(ids) == ids # known /\ Card(openId, ids)

\* Escape: the sheet and the dock take it in the capture phase and close the
\* sensor; with neither, it leaves a faux full screen.
EscapeCard ==
  /\ \E h \in Homes : homes[h] # 0
  /\ Card(NoSensor, known)
  /\ UNCHANGED <<wide, embed, screenVars, folded, scrollOnExit>>

EscapeFaux ==
  /\ \A h \in Homes : homes[h] = 0
  /\ faux
  /\ faux' = FALSE /\ leaving' = (leaving \/ native)
  /\ Paint(native)
  /\ UNCHANGED <<wide, embed, native, asks, cardVars, folded, returnY>>

SensorCardMoves ==
  /\ \/ \E s \in Sensors : Opens(s)
     \/ CloseCard
     \/ \E ids \in SUBSET Sensors : RegistryLands(ids)
  /\ UNCHANGED <<wide, embed, screenVars, folded, scrollOnExit>>

\* The sheet's history button leaves full screen to show the chart on the page.
SheetHistory ==
  /\ homes["sheet"] # 0 /\ told
  /\ leaving' = native /\ faux' = FALSE
  /\ told' = native
  /\ homes' = OnChange(native)
  /\ padded' = Covers(homes', folded)
  /\ scrollOnExit' = native
  /\ UNCHANGED <<wide, embed, native, asks, cardVars, folded, returnY>>

FoldDock ==
  /\ homes["dock"] # 0
  /\ folded' = ~folded
  /\ padded' = Covers(homes, folded')
  /\ UNCHANGED <<wide, embed, screenVars, cardVars, homes, scrollOnExit, returnY>>

Resize ==
  /\ wide' = ~wide
  /\ homes' = SyncDock(homes, told, wide', panel)
  /\ padded' = Covers(homes', folded)
  /\ UNCHANGED <<embed, screenVars, cardVars, folded, scrollOnExit, returnY>>

SheetsNext == Screen \/ SensorCardMoves \/ EscapeCard \/ EscapeFaux \/ SheetHistory \/ FoldDock \/ Resize

SheetsSpec == SheetsInit /\ [][SheetsNext]_sheetVars

-----------------------------------------------------------------------------
(* Properties.                                                             *)

\* The shape of the card's state.
SheetsTypeOK ==
  /\ {wide, embed, native, faux, leaving, told, folded, scrollOnExit, returnY} \subseteq BOOLEAN
  /\ asks \in 0 .. MaxAsks /\ openId \in Sensors \cup {NoSensor} /\ known \subseteq Sensors
  /\ rendered \in 0 .. MaxPanels /\ panel \in {0, rendered}
  /\ homes \in [Homes -> 0 .. MaxPanels] /\ padded \in {"none", "strip", "dock"}

\* The gauges of the shown sensor are in exactly one home and in the one the reader
\* can see: the sheet when the frame is all there is on the screen, the dock on a
\* wide page, else the panel; the camera is padded by what the dock covers, and no
\* home keeps the gauges of a section that is gone.  It holds through refusals,
\* rotations, late registry answers and native exits that land after the click.
GaugesAreWhereSeen ==
  /\ homes["sheet"] = IF isFull(native, faux) THEN panel ELSE 0
  /\ homes["dock"] = IF ~isFull(native, faux) /\ wide /\ ~embed THEN panel ELSE 0
  /\ padded = Covers(homes, folded)
  /\ panel # 0 <=> openId \in known
=============================================================================
