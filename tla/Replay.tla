------------------------------- MODULE Replay -------------------------------
(***************************************************************************)
(* The replay player of the map: the play button, the scrubber, the speed  *)
(* and exit buttons, and the animation clock they share                    *)
(* (web/src/lib/timelapse-island.js, with the cursor of timelapse.js).     *)
(*                                                                         *)
(* An animation is a metric over a window; a body is one animation at one  *)
(* cell size.  A load reads the URL it wants, awaits the answer and then   *)
(* installs it, whatever was asked for meanwhile: every load in flight is  *)
(* a record of its own here, and answers land in any order.                *)
(***************************************************************************)
EXTENDS Integers

CONSTANTS Animations,   \* metric and window pairs the reader can ask for
          Tiers,        \* cell sizes the zoom can ask for
          FrameCount,   \* frames the server publishes for an animation
          WithHistory,  \* animations of which some frame carries a reading
          MaxLoads,     \* bound: loads in flight at once
          NoUrl         \* the empty string `loaded` starts with

ASSUME ReplayAssumption ==
  /\ FrameCount \in [Animations -> Nat \ {0}]
  /\ NoUrl \notin Animations \X Tiers

MAX_CATCHUP_FRAMES == 4
SpeedCount == 3

VARIABLES
  asked,     \* cfg.metric and state.window: the animation a press would load
  tier,      \* the cell size the current zoom asks for
  loaded,    \* the URL of the held body, NoUrl when nothing is held
  loads,     \* calls of load() awaiting their answer
  head,      \* the cursor [i, count, playing]
  clock,     \* [running, raf, scheduled]: session, held handle, queued callbacks
  player,    \* [open, zoomOn, scrubber, speed]: session opened, listener, UI
  hidden,    \* document.hidden
  shown      \* what the hex layer shows: NoUrl for the live grid, or a frame

replayVars == <<asked, tier, loaded, loads, head, clock, player, hidden, shown>>

ReplayURLs == Animations \X Tiers
LoadIds == 1 .. MaxLoads
NoLoad == [by |-> "nobody", url |-> NoUrl]
wantedURL == <<asked, tier>>

ReplayInit ==
  /\ asked \in Animations /\ tier \in Tiers
  /\ loaded = NoUrl
  /\ loads = [l \in LoadIds |-> NoLoad]
  /\ head = [i |-> 0, count |-> 0, playing |-> FALSE]
  /\ clock = [running |-> FALSE, raf |-> FALSE, scheduled |-> 0]
  /\ player = [open |-> FALSE, zoomOn |-> FALSE, scrubber |-> 0, speed |-> 0]
  /\ hidden = FALSE
  /\ shown = NoUrl

-----------------------------------------------------------------------------
(* The cursor and the clock.                                               *)

seek(count, i) == IF count <= 0 THEN 0 ELSE IF i < count THEN i ELSE count - 1

\* cancelAnimationFrame(raf): only the callback whose handle is held goes.
Cancelled(c) == c.scheduled - (IF c.raf THEN 1 ELSE 0)

pauseClock == [running |-> FALSE, raf |-> FALSE, scheduled |-> Cancelled(clock)]

\* Mutant of runClock: the callback already queued is not cancelled.
runClock_Beside ==
  [running |-> TRUE, raf |-> ~hidden,
   scheduled |-> clock.scheduled + (IF hidden THEN 0 ELSE 1)]

\* run(): a fresh callback in place of the held one, none on a hidden page.
runClock == [running |-> TRUE, raf |-> ~hidden,
        scheduled |-> Cancelled(clock) + (IF hidden THEN 0 ELSE 1)]

paint(url, i) == shown' = <<url, i>>

\* stop(): the clock goes, and the zoom listener too when the player is closed.
stopPlayer(open, scrubber) ==
  /\ clock' = pauseClock
  /\ player' = [player EXCEPT !.open = open, !.scrubber = scrubber,
                              !.zoomOn = @ /\ open]

\* The tail of a press of play, once load() reported a body with frames.
StartPlaying(url, i, count) ==
  /\ player' = [player EXCEPT !.open = TRUE, !.zoomOn = TRUE, !.scrubber = count]
  /\ head' = [i |-> i, count |-> count, playing |-> TRUE]
  /\ paint(url, i)
  /\ clock' = runClock

\* load() with a body to fetch: the call is in flight until it lands or fails.
BeginLoad(by) ==
  \E l \in LoadIds :
    /\ loads[l] = NoLoad
    /\ loads' = [loads EXCEPT ![l] = [by |-> by, url |-> wantedURL]]

-----------------------------------------------------------------------------
(* The reader's controls.                                                  *)

\* The play button during a session: pause.  The live grid goes back up by the
\* repaint stop() asks refreshHexes for (LiveRepaint).
PressPause ==
  /\ clock.running
  /\ stopPlayer(player.open, player.scrubber)
  /\ head' = [head EXCEPT !.playing = FALSE]
  /\ UNCHANGED <<asked, tier, loaded, loads, hidden, shown>>

\* The play button with the wanted body already held.
PressHeld ==
  /\ ~clock.running /\ loaded = wantedURL
  /\ IF head.count > 0 /\ asked \in WithHistory
     THEN StartPlaying(loaded, head.i, head.count)
     ELSE /\ player' = [player EXCEPT !.scrubber = head.count]
          /\ UNCHANGED <<head, shown, clock>>
  /\ UNCHANGED <<asked, tier, loaded, loads, hidden>>

\* The play button with a body to fetch first.
PressLoad ==
  /\ ~clock.running /\ loaded # wantedURL
  /\ BeginLoad("press")
  /\ UNCHANGED <<asked, tier, loaded, head, clock, player, hidden, shown>>

Scrub(i) ==
  /\ player.scrubber > 0
  /\ clock' = IF clock.running THEN pauseClock ELSE clock
  /\ head' = [head EXCEPT !.playing = @ /\ ~clock.running,
                          !.i = IF head.count > 0 THEN seek(head.count, i) ELSE @]
  /\ IF head.count > 0 THEN paint(loaded, seek(head.count, i)) ELSE UNCHANGED shown
  /\ UNCHANGED <<asked, tier, loaded, loads, player, hidden>>

\* The speed cycles; a running clock is rebuilt at the new delay.
NextSpeed ==
  /\ player.scrubber > 0
  /\ player' = [player EXCEPT !.speed = (@ + 1) % SpeedCount]
  /\ clock' = IF clock.running THEN runClock ELSE clock
  /\ UNCHANGED <<asked, tier, loaded, loads, head, hidden, shown>>

Exit ==
  /\ player.scrubber > 0
  /\ stopPlayer(FALSE, 0)
  /\ head' = [head EXCEPT !.playing = FALSE]
  /\ UNCHANGED <<asked, tier, loaded, loads, hidden, shown>>

\* A metric switch or a window pick: reset() drops the held body and closes the
\* player.  It cannot recall a load in flight.
Reset(a) ==
  /\ a # asked
  /\ asked' = a
  /\ loaded' = NoUrl
  /\ stopPlayer(FALSE, 0)
  /\ head' = [head EXCEPT !.count = 0, !.playing = FALSE]
  /\ UNCHANGED <<tier, loads, hidden, shown>>

\* A zoom: while the player is open the body follows the tier.
Zoom(t) ==
  /\ t # tier
  /\ tier' = t
  /\ \/ /\ player.zoomOn /\ loaded # <<asked, t>>
        /\ \E l \in LoadIds :
             /\ loads[l] = NoLoad
             /\ loads' = [loads EXCEPT ![l] = [by |-> "zoom", url |-> <<asked, t>>]]
        /\ UNCHANGED player
     \/ /\ player.zoomOn /\ loaded = <<asked, t>>
        /\ player' = [player EXCEPT !.scrubber = head.count]
        /\ UNCHANGED loads
     \/ /\ ~player.zoomOn
        /\ UNCHANGED <<loads, player>>
  /\ UNCHANGED <<asked, loaded, head, clock, hidden, shown>>

-----------------------------------------------------------------------------
(* What the browser does.                                                  *)

\* Mutant of LoadLands: a zoom's body is painted whether or not the replay plays.
LoadLands_Paints(l) ==
  /\ loads[l] # NoLoad
  /\ loads' = [loads EXCEPT ![l] = NoLoad]
  /\ LET url == loads[l].url
         count == FrameCount[url[1]]
         i == IF loads[l].by = "zoom" THEN seek(count, head.i) ELSE 0
     IN /\ loaded' = url
        /\ IF loads[l].by = "press" /\ count > 0 /\ url[1] \in WithHistory
           THEN StartPlaying(url, i, count)
           ELSE /\ head' = [head EXCEPT !.i = i, !.count = count]
                /\ player' = [player EXCEPT !.scrubber = count]
                /\ IF count > 0 THEN paint(url, i) ELSE UNCHANGED shown
                /\ UNCHANGED clock
  /\ UNCHANGED <<asked, tier, hidden>>

\* An answer lands: it is installed, whatever is asked for now.
LoadLands(l) ==
  /\ loads[l] # NoLoad
  /\ loads' = [loads EXCEPT ![l] = NoLoad]
  /\ LET url == loads[l].url
         count == FrameCount[url[1]]
         i == IF loads[l].by = "zoom" THEN seek(count, head.i) ELSE 0
     IN /\ loaded' = url
        /\ IF loads[l].by = "press" /\ count > 0 /\ url[1] \in WithHistory
           THEN StartPlaying(url, i, count)
           ELSE /\ head' = [head EXCEPT !.i = i, !.count = count]
                /\ player' = [player EXCEPT !.scrubber = count]
                /\ IF loads[l].by = "zoom" /\ count > 0 /\ head.playing
                   THEN paint(url, i) ELSE UNCHANGED shown
                /\ UNCHANGED clock
  /\ UNCHANGED <<asked, tier, hidden>>

LoadFails(l) ==
  /\ loads[l] # NoLoad
  /\ loads' = [loads EXCEPT ![l] = NoLoad]
  /\ UNCHANGED <<asked, tier, loaded, head, clock, player, hidden, shown>>

\* One animation frame: the playhead advances over every elapsed delay, at most
\* MAX_CATCHUP_FRAMES of them, and the last one is painted.
tick ==
  /\ clock.scheduled > 0 /\ ~hidden
  /\ clock' = [clock EXCEPT !.raf = TRUE]
  /\ \E advanced \in 0 .. MAX_CATCHUP_FRAMES :
       LET i == IF head.count <= 0 THEN head.i ELSE (head.i + advanced) % head.count
       IN /\ head' = [head EXCEPT !.i = i]
          /\ IF advanced > 0 THEN paint(loaded, i) ELSE UNCHANGED shown
  /\ UNCHANGED <<asked, tier, loaded, loads, player, hidden>>

\* The tab goes to the background or comes back; the listener exists only
\* during a session.
onVisibility ==
  /\ hidden' = ~hidden
  /\ clock' = IF ~clock.running THEN clock
              ELSE IF ~hidden THEN [clock EXCEPT !.raf = FALSE, !.scheduled = Cancelled(clock)]
              ELSE IF ~clock.raf THEN [clock EXCEPT !.raf = TRUE, !.scheduled = @ + 1]
              ELSE clock
  /\ UNCHANGED <<asked, tier, loaded, loads, head, player, shown>>

\* Any pass of refreshHexes paints the live grid: a stop, a pan, a filter.
LiveRepaint ==
  /\ shown' = NoUrl
  /\ UNCHANGED <<asked, tier, loaded, loads, head, clock, player, hidden>>

ReplayNext ==
  \/ PressPause \/ PressHeld \/ PressLoad
  \/ \E i \in 0 .. player.scrubber - 1 : Scrub(i)
  \/ NextSpeed \/ Exit
  \/ \E a \in Animations : Reset(a)
  \/ \E t \in Tiers : Zoom(t)
  \/ \E l \in LoadIds : LoadLands(l) \/ LoadFails(l)
  \/ tick \/ onVisibility \/ LiveRepaint

ReplaySpec == ReplayInit /\ [][ReplayNext]_replayVars

-----------------------------------------------------------------------------
(* Correctness.                                                            *)

\* Every variable keeps its type, over any order of presses and answers.
ReplayTypeOK ==
  /\ asked \in Animations /\ tier \in Tiers
  /\ loaded \in ReplayURLs \cup {NoUrl}
  /\ loads \in [LoadIds -> [by : {"nobody", "press", "zoom"}, url : ReplayURLs \cup {NoUrl}]]
  /\ head \in [i : Nat, count : Nat, playing : BOOLEAN]
  /\ clock \in [running : BOOLEAN, raf : BOOLEAN, scheduled : Nat]
  /\ player \in [open : BOOLEAN, zoomOn : BOOLEAN, scrubber : Nat, speed : 0 .. SpeedCount - 1]
  /\ hidden \in BOOLEAN
  /\ shown \in (ReplayURLs \X Nat) \cup {NoUrl}

\* There is one animation clock: a queued callback is the one whose handle is
\* held, so pausing always stops it, and it runs only during a session on a
\* visible page (run, pauseClock, onVisibility).
OneClock ==
  /\ clock.scheduled = (IF clock.raf THEN 1 ELSE 0)
  /\ clock.raf = (clock.running /\ ~hidden)
  /\ clock.running = head.playing

\* The zoom listener exists exactly while the player is open: a zoom before
\* play or after exit is the live grid's business (ontoggle, stop).
ListensWhileOpen == player.zoomOn = player.open

\* The playhead points into the held body even when a zoom swaps in a shorter
\* one under it, so the frame painted is a frame of that body (seek, step).
PlayheadInRange ==
  /\ head.count > 0 => head.i < head.count
  /\ clock.running => (loaded # NoUrl /\ head.count = FrameCount[loaded[1]] /\ head.count > 0)

\* However presses, answers, zooms and tab switches interleave, one clock plays the
\* held body from inside it, and only while the player is open to it.
PlaybackCoherent == OneClock /\ ListensWhileOpen /\ PlayheadInRange

\* A load that lands never paints over the live grid of a paused or closed
\* player unless the reader pressed play for it (onZoom's head.playing test).
LandingRespectsPause ==
  [][\A l \in LoadIds :
       (loads[l].by = "zoom" /\ loads'[l] = NoLoad /\ ~clock.running) => shown' = shown]_replayVars

\* timelapse-island.js says a different window or metric is a different
\* animation and what is held is stale: a running replay is of what is asked.
PlaysWhatIsAsked == clock.running => loaded[1] = asked
=============================================================================
