------------------------------ MODULE Overlays ------------------------------
(***************************************************************************)
(* The overlays of the layers menu: the forecast wind (lib/mapwind.js and  *)
(* the canvas animation of lib/windstreaks.js), the province outlines      *)
(* (lib/mapboundaries.js) and the basemap detail (lib/mapstyle.js), each   *)
(* behind a checkbox of lib/maplayers.js whose state is kept in storage.   *)
(* setWind and setBoundaries await a fetch, and setWind then the import of *)
(* the animation; a click, a refresh or a page hide may come in between.   *)
(***************************************************************************)
EXTENDS Integers, FiniteSets

CONSTANTS MaxCalls,    \* bound: setWind and setBoundaries calls in flight at once
          MaxClicks,   \* bound: clicks on the boxes in one visit
          MaxStreaks   \* bound: animations started in one visit

ASSUME OverlaysAssumption ==
  MaxCalls \in Nat \ {0} /\ MaxClicks \in Nat /\ MaxStreaks \in Nat

Fetched == {"wind", "boundaries"}
Boxes == Fetched \cup {"basemap"}

VARIABLES
  ticked,      \* which checkboxes are ticked
  keptBoxes,     \* what readState gives: the last choice, on unless it is false
  clicks,
  bodies,     \* windState.body and boundaryState.body: "none", "held" or "stale"
  loading,    \* the overlays whose fetch is in flight
  on,         \* state.on of the two
  drawn,      \* the overlays whose layer (or animation) is visible
  applies,      \* [slot -> call]: an apply(true) that has not come back yet
  noted,      \* the wind disclosure and the key's wind row are shown
  reduced,    \* windfxMode says arrows: reduced motion or ?windfx=arrows
  streaks,    \* the animation running.get(map) and state.streaks hold, 0 for none
  started,    \* animations started so far
  frames,     \* animations that have a frame requested
  moving,     \* the running animation heard movestart and not yet moveend
  trails,     \* its canvas carries streaks
  pageHidden, \* document.hidden
  detail      \* the basemap's vector layers: "coming", "shown", "off" or "absent"

overlayVars == <<ticked, keptBoxes, clicks, bodies, loading, on, drawn, applies, noted, reduced, streaks,
                 started, frames, moving, trails, pageHidden, detail>>
boxVars == <<ticked, keptBoxes, clicks>>
streakVars == <<streaks, started, frames, moving, trails>>

CallIds == 1 .. MaxCalls
NoCall == [of |-> "none", at |-> "none", box |-> FALSE]

\* settle: the box takes the state reached when it is not the one asked for.  Only
\* the clicks settle; the build and refreshWind drop what apply reports.
SettleBox(o, asked, reached) ==
  /\ ticked' = IF reached = asked THEN ticked ELSE IF reached THEN ticked \cup {o} ELSE ticked \ {o}
  /\ keptBoxes' = IF reached = asked THEN keptBoxes ELSE IF reached THEN keptBoxes \cup {o} ELSE keptBoxes \ {o}

-----------------------------------------------------------------------------
(* startStreaks and the handle it returns.                                 *)

\* Mutant of StopStreaks: the canvas goes, the requested frame is not cancelled.
StopStreaks_Running == frames

\* stop(): the frame is cancelled and the listeners removed.
StopStreaks == frames \ {streaks}
runFrames(h, fs) == IF pageHidden THEN fs ELSE fs \cup {h}

StartStreaks ==
  /\ started < MaxStreaks
  /\ started' = started + 1 /\ streaks' = started + 1
  /\ frames' = runFrames(started + 1, StopStreaks)
  /\ moving' = FALSE /\ trails' = FALSE

StreaksOff ==
  /\ streaks' = 0 /\ frames' = StopStreaks
  /\ moving' = FALSE /\ trails' = FALSE
  /\ UNCHANGED started

\* frame asks for the next frame first, and draws unless the map is moving.
Frame ==
  /\ streaks \in frames /\ ~moving
  /\ trails' = TRUE
  /\ UNCHANGED <<boxVars, bodies, loading, on, drawn, applies, noted, reduced, streaks, started, frames,
                 moving, pageHidden, detail>>

MoveStart ==
  /\ streaks # 0 /\ ~moving
  /\ moving' = TRUE /\ trails' = FALSE
  /\ UNCHANGED <<boxVars, bodies, loading, on, drawn, applies, noted, reduced, streaks, started, frames,
                 pageHidden, detail>>

\* moveend and resize: the particles are seeded again on a clear canvas.
MoveStop ==
  /\ streaks # 0 /\ (moving \/ trails)
  /\ moving' = FALSE /\ trails' = FALSE
  /\ UNCHANGED <<boxVars, bodies, loading, on, drawn, applies, noted, reduced, streaks, started, frames,
                 pageHidden, detail>>

\* onVisibility of the running animation; a stopped one no longer listens.
PageVisibility ==
  /\ pageHidden' = ~pageHidden
  /\ frames' = IF streaks = 0 THEN frames
               ELSE IF pageHidden' THEN frames \ {streaks} ELSE frames \cup {streaks}
  /\ UNCHANGED <<boxVars, bodies, loading, on, drawn, applies, noted, reduced, streaks, started, moving,
                 trails, detail>>

-----------------------------------------------------------------------------
(* setWind and setBoundaries.                                              *)

\* The calls ask for nothing new while a fetch of the overlay is in flight; with
\* the body in hand setBoundaries shows at once and setWind goes on to its import.
\* What it reports at once: state.on when dropped, "later" when it awaits.
Asks(o, box) ==
  /\ \E k \in CallIds :
       /\ applies[k] = NoCall
       /\ applies' = [applies EXCEPT ![k] =
            [of |-> o, at |-> IF bodies[o] = "none" THEN "fetch" ELSE "import", box |-> box]]
  /\ loading' = IF bodies[o] = "none" THEN loading \cup {o} ELSE loading

Drops(o) == o \in loading
ShowsAtOnce(o) == o = "boundaries" /\ bodies[o] # "none"

TurnOn(o) ==
  /\ clicks < MaxClicks /\ clicks' = clicks + 1
  /\ o \notin ticked
  /\ \/ /\ Drops(o)
        /\ ticked' = IF o \in on THEN ticked \cup {o} ELSE ticked
        /\ keptBoxes' = IF o \in on THEN keptBoxes \cup {o} ELSE keptBoxes
        /\ UNCHANGED <<applies, loading, on, drawn>>
     \/ /\ ~Drops(o) /\ ShowsAtOnce(o)
        /\ ticked' = ticked \cup {o} /\ keptBoxes' = keptBoxes \cup {o}
        /\ on' = on \cup {o} /\ drawn' = drawn \cup {o}
        /\ UNCHANGED <<applies, loading>>
     \/ /\ ~Drops(o) /\ ~ShowsAtOnce(o)
        /\ ticked' = ticked \cup {o} /\ keptBoxes' = keptBoxes \cup {o}
        /\ Asks(o, TRUE)
        /\ UNCHANGED <<on, drawn>>
  /\ UNCHANGED <<bodies, noted, reduced, streakVars, pageHidden, detail>>

TurnOff(o) ==
  /\ clicks < MaxClicks /\ clicks' = clicks + 1
  /\ o \in ticked
  /\ ticked' = ticked \ {o} /\ keptBoxes' = keptBoxes \ {o}
  /\ on' = on \ {o} /\ drawn' = drawn \ {o}
  /\ IF o = "wind" THEN StreaksOff /\ noted' = FALSE ELSE UNCHANGED <<streakVars, noted>>
  /\ UNCHANGED <<bodies, loading, applies, reduced, pageHidden, detail>>

Lands(k) ==
  LET o == applies[k].of IN
  /\ applies[k].at = "fetch"
  /\ bodies' = [bodies EXCEPT ![o] = "held"]
  /\ loading' = loading \ {o}
  /\ IF o = "boundaries"
     THEN /\ applies' = [applies EXCEPT ![k] = NoCall]
          /\ on' = on \cup {o} /\ drawn' = drawn \cup {o}
     ELSE /\ applies' = [applies EXCEPT ![k].at = "import"]
          /\ UNCHANGED <<on, drawn>>
  /\ UNCHANGED <<boxVars, noted, reduced, streakVars, pageHidden, detail>>

\* Mutant of FetchFails: the failure leaves the row saying it is loading.
FetchFails_Loading(k) ==
  LET o == applies[k].of IN
  /\ applies[k].at = "fetch"
  /\ applies' = [applies EXCEPT ![k] = NoCall]
  /\ IF applies[k].box THEN SettleBox(o, TRUE, FALSE) ELSE UNCHANGED <<ticked, keptBoxes>>
  /\ drawn' = IF o = "boundaries" THEN drawn \ {o} ELSE drawn
  /\ noted' = IF o = "wind" THEN FALSE ELSE noted
  /\ UNCHANGED <<loading, clicks, bodies, on, reduced, streakVars, pageHidden, detail>>

\* A failed fetch reports off; a wind that was on stays on and drawn.
FetchFails(k) ==
  LET o == applies[k].of IN
  /\ applies[k].at = "fetch"
  /\ loading' = loading \ {o}
  /\ applies' = [applies EXCEPT ![k] = NoCall]
  /\ IF applies[k].box THEN SettleBox(o, TRUE, FALSE) ELSE UNCHANGED <<ticked, keptBoxes>>
  /\ drawn' = IF o = "boundaries" THEN drawn \ {o} ELSE drawn
  /\ noted' = IF o = "wind" THEN FALSE ELSE noted
  /\ UNCHANGED <<clicks, bodies, on, reduced, streakVars, pageHidden, detail>>

\* The import is there: the animation, or the arrows, and then on and the note.
Shows(k) ==
  /\ applies[k].at = "import"
  /\ applies' = [applies EXCEPT ![k] = NoCall]
  /\ IF reduced THEN UNCHANGED streakVars ELSE StartStreaks
  /\ on' = on \cup {"wind"} /\ drawn' = drawn \cup {"wind"}
  /\ noted' = TRUE
  /\ UNCHANGED <<boxVars, bodies, loading, reduced, pageHidden, detail>>

\* The hour of the held forecast passes; the next refresh drops it.
HourPasses ==
  /\ bodies["wind"] = "held"
  /\ bodies' = [bodies EXCEPT !["wind"] = "stale"]
  /\ UNCHANGED <<boxVars, loading, on, drawn, applies, noted, reduced, streakVars, pageHidden, detail>>

refreshWind ==
  /\ bodies["wind"] = "stale"
  /\ bodies' = [bodies EXCEPT !["wind"] = "none"]
  /\ IF "wind" \in on /\ "wind" \notin loading
     THEN /\ \E k \in CallIds :
               /\ applies[k] = NoCall
               /\ applies' = [applies EXCEPT ![k] = [of |-> "wind", at |-> "fetch", box |-> FALSE]]
          /\ loading' = loading \cup {"wind"}
     ELSE UNCHANGED <<applies, loading>>
  /\ UNCHANGED <<boxVars, on, drawn, noted, reduced, streakVars, pageHidden, detail>>

-----------------------------------------------------------------------------
(* The basemap: the box hides what is mounted, the detail mounts later.    *)

ToggleBasemap ==
  /\ clicks < MaxClicks /\ clicks' = clicks + 1
  /\ ticked' = IF "basemap" \in ticked THEN ticked \ {"basemap"} ELSE ticked \cup {"basemap"}
  /\ keptBoxes' = IF "basemap" \in ticked' THEN keptBoxes \cup {"basemap"} ELSE keptBoxes \ {"basemap"}
  /\ drawn' = IF "basemap" \in ticked' THEN drawn \cup {"basemap"} ELSE drawn \ {"basemap"}
  /\ detail' = IF detail \notin {"shown", "off"} THEN detail
               ELSE IF "basemap" \in ticked' THEN "shown" ELSE "off"
  /\ UNCHANGED <<bodies, loading, on, applies, noted, reduced, streakVars, pageHidden>>

\* addBasemapOverlay: its layers come with their own visibility.
DetailLands ==
  /\ detail = "coming"
  /\ detail' \in {"shown", "absent"}
  /\ UNCHANGED <<boxVars, bodies, loading, on, drawn, applies, noted, reduced, streakVars, pageHidden>>

\* installLayers at load: every box from storage, every view applied as it stands.
OverlaysInit ==
  /\ keptBoxes \in SUBSET Boxes /\ ticked = keptBoxes /\ clicks = 0
  /\ bodies = [o \in Fetched |-> "none"]
  /\ loading = ticked \cap Fetched /\ on = {} /\ drawn = ticked \cap {"basemap"}
  /\ applies \in [CallIds -> {NoCall} \cup [of : Fetched, at : {"fetch"}, box : {FALSE}]]
  /\ \A o \in Fetched : Cardinality({k \in CallIds : applies[k].of = o}) = IF o \in ticked THEN 1 ELSE 0
  /\ noted = FALSE /\ reduced \in BOOLEAN
  /\ streaks = 0 /\ started = 0 /\ frames = {} /\ moving = FALSE /\ trails = FALSE
  /\ pageHidden = FALSE /\ detail = "coming"

\* With arrows there is no import: the layer shows before the next event.
Prompt == reduced => \A k \in CallIds : applies[k].at # "import"

OverlaysNext ==
  \/ \E k \in CallIds : Shows(k)
  \/ /\ Prompt
     /\ \/ \E o \in Fetched : TurnOn(o) \/ TurnOff(o)
        \/ \E k \in CallIds : Lands(k) \/ FetchFails(k)
        \/ HourPasses \/ refreshWind
        \/ Frame \/ MoveStart \/ MoveStop \/ PageVisibility
        \/ ToggleBasemap \/ DetailLands

OverlaysSpec == OverlaysInit /\ [][OverlaysNext]_overlayVars

-----------------------------------------------------------------------------
(* Properties.                                                             *)

\* The shape of the overlays' state.
OverlaysTypeOK ==
  /\ ticked \subseteq Boxes /\ keptBoxes \subseteq Boxes /\ on \subseteq Fetched /\ loading \subseteq Fetched
  /\ drawn \subseteq Boxes /\ bodies \in [Fetched -> {"none", "held", "stale"}]
  /\ applies \in [CallIds -> [of : Fetched \cup {"none"}, at : {"none", "fetch", "import"}, box : BOOLEAN]]
  /\ \A o \in Fetched : o \in loading <=> \E k \in CallIds : applies[k].of = o /\ applies[k].at = "fetch"
  /\ {noted, reduced, moving, trails, pageHidden} \subseteq BOOLEAN
  /\ streaks \in 0 .. started /\ started \in 0 .. MaxStreaks /\ frames \subseteq 1 .. MaxStreaks
  /\ detail \in {"coming", "shown", "off", "absent"}

\* However clicks, refreshes, imports and the page's visibility interleave, one
\* animation asks for frames and only while the layer is on and the page visible;
\* a layer turned off, or started twice, leaves no loop running behind it, and no
\* streak of another view survives the start of a move.
OneAnimation ==
  /\ frames \subseteq {streaks} \ {0}
  /\ pageHidden => frames = {}
  /\ streaks # 0 => "wind" \in on
  /\ moving => ~trails
=============================================================================
