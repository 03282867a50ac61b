-------------------------------- MODULE Boot --------------------------------
(***************************************************************************)
(* A page starting (web/src/main.js): the islands wait for the first paint *)
(* to be reported, with a timer behind it, and are mounted one by one on   *)
(* the server's HTML; and the masthead's menus, of which one may be open   *)
(* (lib/disclosure.js), wired before any island is there.                  *)
(***************************************************************************)
EXTENDS Integers, FiniteSets

CONSTANTS PageIslands,   \* the names on the page, known to the bundle or not
          KnownIslands,  \* the names in ISLANDS
          ThemeIsland,   \* the island whose mount puts the second menu there
          MaxVisits      \* bound: times the tab is hidden or shown, and menus clicked

ASSUME BootAssumption == ThemeIsland \in KnownIslands \cap PageIslands /\ MaxVisits \in Nat

VARIABLES
  framesDue,      \* animation frames still asked for
  wait,           \* "frames", "paint" (whenFirstPaintReported waits), "task", "over"
  paintKnown,     \* the performance timeline has first-contentful-paint
  reportsPaint,   \* PerformanceObserver supports paint entries
  observing,      \* the observer is connected
  fallbackSet,    \* the FCP_WAIT_MAX_MS timer runs
  waitUp,       \* and it is what ended the wait
  doneWaiting,    \* done
  mountRuns,      \* times mountIslands ran
  island,         \* each island: "served", "loading", "mounted", "failed"
  broken,         \* the islands whose chunk or mount will fail
  tabHidden,
  menusOpen,
  visits

waitVars == <<framesDue, wait, paintKnown, observing, fallbackSet, waitUp, doneWaiting>>
bootVars == <<waitVars, reportsPaint, mountRuns, island, broken, tabHidden, menusOpen, visits>>

\* The language menu is the server's, the theme menu its island's.
PageMenus == {"language"} \cup (IF island[ThemeIsland] = "mounted" THEN {"theme"} ELSE {})

BootInit ==
  /\ framesDue = 2 /\ wait = "frames" /\ paintKnown = FALSE
  /\ reportsPaint \in BOOLEAN /\ tabHidden \in BOOLEAN
  /\ observing = FALSE /\ fallbackSet = FALSE /\ waitUp = FALSE /\ doneWaiting = FALSE
  /\ mountRuns = 0 /\ island = [i \in PageIslands |-> "served"] /\ broken \in SUBSET PageIslands
  /\ menusOpen = {} /\ visits = 0

\* mountIslands: each known island asks for its chunk, an unknown one stays as served.
mountIslands ==
  /\ mountRuns' = mountRuns + 1
  /\ island' = [i \in PageIslands |-> IF i \in KnownIslands THEN "loading" ELSE island[i]]

\* whenFirstPaintReported, at the second frame: known already, or not reported by this
\* browser, or waited for.
whenFirstPaintReported ==
  \/ /\ paintKnown
     /\ wait' = "task"
     /\ UNCHANGED <<observing, fallbackSet, mountRuns, island>>
  \/ /\ ~paintKnown /\ ~reportsPaint
     /\ wait' = "over" /\ mountIslands
     /\ UNCHANGED <<observing, fallbackSet>>
  \/ /\ ~paintKnown /\ reportsPaint
     /\ wait' = "paint" /\ observing' = TRUE /\ fallbackSet' = TRUE
     /\ UNCHANGED <<mountRuns, island>>

\* A hidden tab runs no animation frame and paints nothing.
BootFrame ==
  /\ ~tabHidden /\ framesDue > 0
  /\ framesDue' = framesDue - 1
  /\ IF framesDue = 1 THEN whenFirstPaintReported
     ELSE UNCHANGED <<wait, observing, fallbackSet, mountRuns, island>>
  /\ UNCHANGED <<paintKnown, waitUp, doneWaiting, reportsPaint, broken, tabHidden, menusOpen, visits>>

FirstPaint ==
  /\ ~tabHidden /\ ~paintKnown
  /\ paintKnown' = TRUE
  /\ UNCHANGED <<framesDue, wait, observing, fallbackSet, waitUp, doneWaiting, reportsPaint,
                 broken, mountRuns, island, tabHidden, menusOpen, visits>>

\* run: the first of the observer and the timer disarms the other.
\* Mutant of endWait: neither disarms the other.
endWait_Twice ==
  /\ wait' = "task" /\ doneWaiting' = TRUE
  /\ UNCHANGED <<observing, fallbackSet>>
endWait ==
  /\ ~doneWaiting
  /\ wait' = "task" /\ doneWaiting' = TRUE
  /\ observing' = FALSE /\ fallbackSet' = FALSE

Observed ==
  /\ observing /\ paintKnown
  /\ endWait
  /\ UNCHANGED <<framesDue, paintKnown, waitUp, reportsPaint, broken, mountRuns, island, tabHidden,
                 menusOpen, visits>>
FallbackFires ==
  /\ fallbackSet
  /\ endWait
  /\ waitUp' = TRUE
  /\ UNCHANGED <<framesDue, paintKnown, reportsPaint, broken, mountRuns, island, tabHidden, menusOpen, visits>>

\* The task of its own the callback runs on.
MountTask ==
  /\ wait = "task"
  /\ wait' = "over"
  /\ mountIslands
  /\ UNCHANGED <<framesDue, paintKnown, observing, fallbackSet, waitUp, doneWaiting, reportsPaint,
                 broken, tabHidden, menusOpen, visits>>

\* runIsland: a chunk that fails to load or a mount that throws is logged, and the
\* other islands go on.  The theme island's mount replaces what the server left there.
\* Mutant of runIsland: the failure ends the loop.
runIsland_Breaks(i) ==
  island' = [j \in PageIslands |-> IF j = i /\ i \notin broken THEN "mounted"
                                  ELSE IF island[j] = "loading" /\ i \in broken THEN "failed" ELSE island[j]]
runIsland(i) ==
  island' = [island EXCEPT ![i] = IF i \in broken THEN "failed" ELSE "mounted"]
ChunkSettles ==
  /\ \E i \in PageIslands : island[i] = "loading" /\ runIsland(i)
  /\ UNCHANGED <<waitVars, reportsPaint, broken, mountRuns, tabHidden, menusOpen, visits>>

\* soleOpen: a click on a menu's summary toggles it and closes the others; a click
\* elsewhere and Escape close all.  The menus are looked up at each event.
\* Mutant of soleOpen: the menus are those there when it was wired.
soleOpen_Captured(m) ==
  menusOpen' = (IF m \in menusOpen THEN menusOpen \ {m} ELSE menusOpen \cup {m}) \ ({"language"} \ {m})
soleOpen(m) == menusOpen' = IF m \in menusOpen THEN {} ELSE {m}
ClickMenu ==
  /\ visits < MaxVisits /\ visits' = visits + 1
  /\ \E m \in PageMenus : soleOpen(m)
  /\ UNCHANGED <<waitVars, reportsPaint, broken, mountRuns, island, tabHidden>>
CloseMenus ==
  /\ menusOpen # {} /\ menusOpen' = {}
  /\ UNCHANGED <<waitVars, reportsPaint, broken, mountRuns, island, tabHidden, visits>>

TabTurns ==
  /\ visits < MaxVisits /\ visits' = visits + 1
  /\ tabHidden' = ~tabHidden
  /\ UNCHANGED <<waitVars, reportsPaint, broken, mountRuns, island, menusOpen>>

BootNext ==
  \/ BootFrame \/ FirstPaint \/ Observed \/ FallbackFires \/ MountTask \/ ChunkSettles
  \/ ClickMenu \/ CloseMenus \/ TabTurns
BootSpec == BootInit /\ [][BootNext]_bootVars

-----------------------------------------------------------------------------
\* main.js:65, :84-95, :40 and disclosure.js:6: however the paint, the observer and the
\* timer race, the islands are mounted at most once, and only after the paint was reported
\* or the wait was up or could not be had; an island fails by its own failure only,
\* and no two menus are open.
BootsOnce ==
  /\ mountRuns <= 1
  /\ (\E i \in PageIslands : island[i] # "served") => paintKnown \/ waitUp \/ ~reportsPaint
  /\ \A i \in PageIslands : island[i] # "served" => mountRuns = 1 /\ i \in KnownIslands
  /\ \A i \in PageIslands : island[i] = "failed" => i \in broken
  /\ wait = "over" => ~observing /\ ~fallbackSet
  /\ Cardinality(menusOpen) <= 1

=============================================================================
