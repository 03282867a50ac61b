------------------------------- MODULE Breadth ------------------------------
(***************************************************************************)
(* How many distinct areas and sensors one client has been shown           *)
(* (internal/ratelimit/enumerate.go).                                      *)
(*                                                                         *)
(* observe reads the clock before it takes the lock, and Evict does too,   *)
(* so each may act on a time that has passed.  Clients share nothing but   *)
(* the lock, so one client stands for all.                                 *)
(***************************************************************************)
EXTENDS Integers, FiniteSets

CONSTANTS
    Observers,     \* requests of this client that may be under way at once
    Areas,
    Sensors,
    AreaLimit,     \* areas_per_window
    SensorLimit,   \* sensors_per_window
    Window,        \* window, in ticks
    Delay,         \* bound: ticks between reading the clock and the lock
    LastTick,      \* bound: ticks
    Nothing

\* validate.go asks for positive limits and a positive window.
ASSUME BreadthAssumption ==
    /\ IsFiniteSet(Areas) /\ IsFiniteSet(Sensors)
    /\ AreaLimit \in Nat \ {0} /\ SensorLimit \in Nat \ {0}
    /\ Window \in Nat \ {0} /\ Delay \in Nat /\ LastTick \in Nat
    /\ Nothing \notin Int \cup [windowStart : Int, lastSeen : Int,
                                slugs : SUBSET Areas, sensors : SUBSET Sensors]

Kinds  == {"area", "sensor"}
Values == [area |-> Areas, sensor |-> Sensors]
Limit  == [area |-> AreaLimit, sensor |-> SensorLimit]

VARIABLES
    time,      \* the clock
    entry,     \* its breadthEntry, or Nothing
    asked,     \* the time each request read, or Nothing
    evicting,  \* the time Evict read, or Nothing
    served     \* history: when each value was last served, or -1 when it
               \* was not in the last Window + Delay ticks

breadthVars == <<time, entry, asked, evicting, served>>

Ticks == 0 .. LastTick

Entries == [windowStart : Ticks, lastSeen : Ticks,
            slugs : SUBSET Areas, sensors : SUBSET Sensors]
Observations == [kind : {"area"}, value : Areas]
                \cup [kind : {"sensor"}, value : Sensors]

\* The sets never outgrow their limits: a refused client costs no memory.
BreadthTypeOK ==
    /\ time \in Ticks
    /\ entry \in Entries \cup {Nothing}
    /\ asked \in [Observers -> Ticks \cup {Nothing}]
    /\ evicting \in Ticks \cup {Nothing}
    /\ \A k \in Kinds : served[k] \in [Values[k] -> Ticks \cup {-1}]
    /\ entry # Nothing => /\ Cardinality(entry.slugs) <= AreaLimit
                          /\ Cardinality(entry.sensors) <= SensorLimit

BreadthInit ==
    /\ time = 0
    /\ entry = Nothing
    /\ asked = [o \in Observers |-> Nothing]
    /\ evicting = Nothing
    /\ served = [k \in Kinds |-> [v \in Values[k] |-> -1]]

-----------------------------------------------------------------------------

(* observe reads the clock.  What it observes matters under the lock only. *)
Ask(o) ==
    /\ asked[o] = Nothing
    /\ asked' = [asked EXCEPT ![o] = time]
    /\ UNCHANGED <<time, entry, evicting, served>>

\* Mutant of Rolls: the window ends when the client has been silent for long.
Rolls_Silence(t) == t - entry.lastSeen >= Window
Rolls(t) == t - entry.windowStart >= Window

\* What observe finds under the lock, at the time t it read before: the entry,
\* made or rolled over if need be, and seen.
Found(t) ==
    IF entry = Nothing \/ (entry # Nothing /\ Rolls(t))
    THEN [windowStart |-> t, lastSeen |-> t, slugs |-> {}, sensors |-> {}]
    ELSE [entry EXCEPT !.lastSeen = t]

CountedIn(e, kind) == IF kind = "area" THEN e.slugs ELSE e.sensors

CountIn(e, q) == IF q.kind = "area" THEN [e EXCEPT !.slugs = @ \cup {q.value}]
               ELSE [e EXCEPT !.sensors = @ \cup {q.value}]

\* Mutants of Serves: one too many; the limit before the revisit.
Serves_OffByOne(e, q) ==
    \/ q.value \in CountedIn(e, q.kind)
    \/ Cardinality(CountedIn(e, q.kind)) <= Limit[q.kind]
Serves_LimitFirst(e, q) == Cardinality(CountedIn(e, q.kind)) < Limit[q.kind]

\* A value already counted is free; another one needs room in the set.
Serves(e, q) ==
    \/ q.value \in CountedIn(e, q.kind)
    \/ Cardinality(CountedIn(e, q.kind)) < Limit[q.kind]

Serve(o, q) ==
    /\ asked[o] # Nothing
    /\ LET e == Found(asked[o])
       IN /\ Serves(e, q)
          /\ entry' = CountIn(e, q)
          /\ served' = [served EXCEPT ![q.kind][q.value] = time]
    /\ asked' = [asked EXCEPT ![o] = Nothing]
    /\ UNCHANGED <<time, evicting>>

\* Mutant of Turned: what was refused is recorded too.
Turned_Recorded(e, q) == CountIn(e, q)
Turned(e, q) == e

(* 429: nothing is recorded, but the client was seen. *)
TurnAway(o, q) ==
    /\ asked[o] # Nothing
    /\ LET e == Found(asked[o])
       IN /\ ~Serves(e, q)
          /\ entry' = Turned(e, q)
    /\ asked' = [asked EXCEPT ![o] = Nothing]
    /\ UNCHANGED <<time, evicting, served>>

StartEvict ==
    /\ evicting = Nothing
    /\ evicting' = time
    /\ UNCHANGED <<time, entry, asked, served>>

(* Evict, under the lock: two windows of silence. *)
Evict ==
    /\ evicting # Nothing
    /\ entry' = IF entry # Nothing /\ entry.lastSeen < evicting - 2 * Window
                THEN Nothing ELSE entry
    /\ evicting' = Nothing
    /\ UNCHANGED <<time, asked, served>>

(* The clock.  Nobody waits for the lock for more than Delay ticks. *)
Passes ==
    /\ time < LastTick
    /\ \A o \in Observers : asked[o] # Nothing => time - asked[o] < Delay
    /\ evicting # Nothing => time - evicting < Delay
    /\ time' = time + 1
    /\ served' = [k \in Kinds |-> [v \in Values[k] |->
                    IF served[k][v] > time' - Window - Delay
                    THEN served[k][v] ELSE -1]]
    /\ UNCHANGED <<entry, asked, evicting>>

BreadthNext ==
    \/ \E o \in Observers :
          Ask(o) \/ \E q \in Observations : Serve(o, q) \/ TurnAway(o, q)
    \/ StartEvict \/ Evict \/ Passes

BreadthSpec == BreadthInit /\ [][BreadthNext]_breadthVars

-----------------------------------------------------------------------------

ServedSince(k, t) == {v \in Values[k] : served[k][v] >= 0 /\ served[k][v] > t}

(***************************************************************************)
(* "the worst case a fixed window allows - 2x limit across a boundary"     *)
(* (observe): in no span as long as the window, less the Delay by which a  *)
(* time that was read may be old, is a client shown more values than that, *)
(* whenever its entry was rolled over or evicted.                          *)
(***************************************************************************)
TwiceTheLimit ==
    \A k \in Kinds :
        Cardinality(ServedSince(k, time - (Window - Delay))) <= 2 * Limit[k]

(***************************************************************************)
(* A reader is refused only after it was shown its limit of other values   *)
(* within a window: what it saw before has been forgotten, and what it     *)
(* sees again is free ("revisiting something already counted is free").    *)
(***************************************************************************)
NoFalseRefusal ==
    [][\A o \in Observers, q \in Observations : TurnAway(o, q) =>
          Cardinality(ServedSince(q.kind, time - Window - Delay) \ {q.value})
              >= Limit[q.kind]]_breadthVars

=============================================================================
