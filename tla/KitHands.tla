------------------------------- MODULE KitHands -------------------------------
(***************************************************************************)
(* Hands on the design kit's map: the press that becomes a drag and must   *)
(* not end in a click, the pinch, the capture of the pointer               *)
(* (design-kit/ui_kits/app/map-pan.js), and the map over the whole screen, *)
(* granted by the browser or imitated (map-fullscreen.js).                 *)
(*                                                                         *)
(* Distances are "still", "slack" (no more than MOVED) and "far".          *)
(***************************************************************************)
EXTENDS Integers, FiniteSets

CONSTANTS Mouse,      \* the one pointer that is there unpressed, and may be released outside
          Fingers,
          NoHand,
          MaxHandActs \* bound: presses, moves, and clicks on the full-screen button

ASSUME KitHandsAssumption == Mouse \notin Fingers /\ NoHand \notin Fingers \cup {Mouse} /\ MaxHandActs \in Nat

VARIABLES
  pressed,      \* the pointers really held down
  pointers,     \* the pointers the map believes down
  lastSeen,     \* last: a single pointer's position is held
  moved,        \* "still", "slack", "far": moved against MOVED
  pinching,     \* pinch # 0
  captured,
  guardOn,      \* the click suppressor is on the canvas
  guardTimers,  \* its timers running
  travelled,    \* the hand moved far since the gesture's first press
  together,     \* more than one pointer took part in the gesture
  missed,       \* the mouse was released where the canvas does not hear of it
  clicked,      \* what became of the click of the last release: "none", "passed", "swallowed"
  unheld,       \* the map moved with nothing held
  nativeFull, fauxFull, bodyFull, saysFull, fullAsks, exitDue,
  handActs

dragVars == <<pressed, pointers, lastSeen, moved, pinching, captured, guardOn, guardTimers,
              travelled, together, missed, clicked, unheld>>
fullVars == <<nativeFull, fauxFull, bodyFull, saysFull, fullAsks, exitDue>>
handVars == <<dragVars, fullVars, handActs>>

KitHandsInit ==
  /\ pressed = {} /\ pointers = {} /\ lastSeen = FALSE /\ moved = "still" /\ pinching = FALSE
  /\ captured = NoHand /\ guardOn = FALSE /\ guardTimers = 0
  /\ travelled = FALSE /\ together = FALSE /\ missed = FALSE /\ clicked = "none" /\ unheld = FALSE
  /\ nativeFull = FALSE /\ fauxFull = FALSE /\ bodyFull = FALSE /\ saysFull = FALSE
  /\ fullAsks = 0 /\ exitDue = FALSE /\ handActs = 0

-----------------------------------------------------------------------------
Hand == handActs < MaxHandActs /\ handActs' = handActs + 1

\* pointerdown: a second pointer begins a pinch.
PressMap ==
  /\ Hand
  /\ \E p \in Fingers \cup {Mouse} :
       /\ p \notin pressed
       /\ pressed' = pressed \cup {p}
       /\ pointers' = pointers \cup {p}
  /\ moved' = "still"
  /\ IF Cardinality(pointers') = 2 THEN pinching' = TRUE /\ lastSeen' = FALSE
     ELSE lastSeen' = TRUE /\ UNCHANGED pinching
  /\ travelled' = (pressed # {} /\ travelled)
  /\ together' = (pressed # {})
  /\ clicked' = "none"
  /\ UNCHANGED <<captured, guardOn, guardTimers, missed, unheld, fullVars>>

\* pointermove: two pointers zoom, and a pinch is never a click; one pans, and takes the
\* capture once it is a drag.
Carries(p, far) ==
  IF Cardinality(pointers) >= 2
  THEN /\ moved' = IF pinching THEN "far" ELSE moved
       /\ pinching' = TRUE
       /\ unheld' = (unheld \/ pressed = {})
       /\ UNCHANGED captured
  ELSE IF ~lastSeen THEN UNCHANGED <<moved, captured, pinching, unheld>>
  ELSE /\ moved' = IF far \/ moved = "far" THEN "far" ELSE "slack"
       /\ captured' = IF moved' = "far" /\ captured = NoHand THEN p ELSE captured
       /\ unheld' = (unheld \/ pressed = {})
       /\ UNCHANGED pinching
MovePointer ==
  /\ Hand
  /\ \E p \in pointers, far \in BOOLEAN :    \* far: past MOVED in all
       /\ p \in pressed \cup {Mouse}
       /\ Carries(p, far)
       /\ travelled' = (travelled \/ (far /\ p \in pressed))
  /\ UNCHANGED <<pressed, pointers, lastSeen, guardOn, guardTimers, together, missed, clicked, fullVars>>

\* release: with the last pointer gone a drag arms the guard against its click.
release(p) ==
  /\ pointers' = pointers \ {p}
  /\ IF pointers' # {} THEN UNCHANGED <<guardTimers, captured, lastSeen, moved>>
     ELSE /\ guardTimers' = IF moved = "far" THEN guardTimers + 1 ELSE guardTimers
          /\ captured' = NoHand /\ lastSeen' = FALSE /\ moved' = "still"
\* Mutant of Armed: asked once the movement is forgotten.
Armed_Late == guardOn \/ (pointers' = {} /\ moved' = "far")
Armed == guardOn \/ (pointers' = {} /\ moved = "far")
\* The browser's click follows the release of a pointer that was alone, in the same turn.
ReleaseMap ==
  /\ \E p \in pressed :
       /\ pressed' = pressed \ {p}
       /\ release(p)
  /\ pinching' = (pinching /\ Cardinality(pointers') >= 2)
  /\ IF together THEN guardOn' = Armed /\ UNCHANGED clicked
     ELSE /\ clicked' = IF Armed THEN "swallowed" ELSE "passed"
          /\ guardOn' = FALSE
  /\ UNCHANGED <<travelled, together, missed, unheld, fullVars, handActs>>
\* A cancelled pointer has no click.
CancelPointer ==
  /\ \E p \in pressed \cap Fingers :
       /\ pressed' = pressed \ {p}
       /\ release(p)
  /\ pinching' = (pinching /\ Cardinality(pointers') >= 2)
  /\ guardOn' = Armed
  /\ UNCHANGED <<travelled, together, missed, clicked, unheld, fullVars, handActs>>
\* Before it is a drag nothing keeps the mouse on the canvas.
ReleaseOutside ==
  /\ Mouse \in pressed /\ captured # Mouse
  /\ pressed' = pressed \ {Mouse} /\ missed' = TRUE
  /\ UNCHANGED <<pointers, lastSeen, moved, pinching, captured, guardOn, guardTimers, travelled, together,
                 clicked, unheld, fullVars, handActs>>
GuardExpires ==
  /\ guardTimers > 0 /\ guardTimers' = guardTimers - 1 /\ guardOn' = FALSE
  /\ clicked' = "none"
  /\ UNCHANGED <<pressed, pointers, lastSeen, moved, pinching, captured, travelled, together, missed,
                 unheld, fullVars, handActs>>

-----------------------------------------------------------------------------
kitFull == nativeFull \/ fauxFull
\* faux and exit (pin); both paint.
pin(on) == fauxFull' = on /\ bodyFull' = on /\ saysFull' = (nativeFull \/ on)
ClickFull ==
  /\ Hand
  /\ IF kitFull
     THEN pin(FALSE) /\ exitDue' = (exitDue \/ nativeFull) /\ UNCHANGED fullAsks
     ELSE fullAsks' = fullAsks + 1 /\ UNCHANGED <<fauxFull, bodyFull, saysFull, exitDue>>
  /\ UNCHANGED <<dragVars, nativeFull>>
FullGranted ==
  /\ fullAsks > 0 /\ fullAsks' = fullAsks - 1
  /\ nativeFull' = TRUE /\ saysFull' = TRUE
  /\ UNCHANGED <<dragVars, fauxFull, bodyFull, exitDue, handActs>>
FullRefused ==
  /\ fullAsks > 0 /\ fullAsks' = fullAsks - 1
  /\ pin(TRUE)
  /\ UNCHANGED <<dragVars, nativeFull, exitDue, handActs>>
\* The browser leaves full screen: asked to, or by its own Escape.
NativeEnds ==
  /\ nativeFull /\ nativeFull' = FALSE /\ exitDue' = FALSE
  /\ saysFull' = fauxFull
  /\ UNCHANGED <<dragVars, fauxFull, bodyFull, fullAsks, handActs>>
EscapePinned ==
  /\ fauxFull /\ ~nativeFull
  /\ pin(FALSE)
  /\ UNCHANGED <<dragVars, nativeFull, fullAsks, exitDue, handActs>>

KitHandsNext ==
  \/ PressMap \/ MovePointer \/ ReleaseMap \/ CancelPointer \/ ReleaseOutside \/ GuardExpires
  \/ ClickFull \/ FullGranted \/ FullRefused \/ NativeEnds \/ EscapePinned
KitHandsSpec == KitHandsInit /\ [][KitHandsNext]_handVars

-----------------------------------------------------------------------------
\* map-pan.js:13-16, :48-58, :94-100, :121, map-fullscreen.js:8-11, :26-31: a drag never
\* ends in a click and a press that did not travel always does, the suppressor never
\* outlives its timer, the pointer is not kept once the hands are off, and the map moves
\* only under a hand, unless a release of the mouse was missed; the button says what the
\* next click will do, and the page is pinned exactly while the map imitates.
DragsAreNotClicks ==
  /\ clicked = "passed" => ~travelled \/ missed
  /\ clicked = "swallowed" => travelled \/ missed \/ guardTimers > 0
  /\ guardOn => guardTimers > 0
  /\ captured # NoHand => pointers # {}
  /\ ~missed => pointers = pressed /\ ~unheld
  /\ saysFull = kitFull /\ bodyFull = fauxFull

=============================================================================
