------------------------------ MODULE ViewState ------------------------------
(***************************************************************************)
(* The view state every island of a page shares, and its mirror in the URL *)
(* hash (web/src/lib/viewstate.svelte.js and viewstate.js): the metric and *)
(* the open sensor, the networks shown (sourcefilter.svelte.js) with their *)
(* boxes in the layers menu, and the two station filters of the map        *)
(* (sensorfilter.svelte.js, faultyfilter.svelte.js).                       *)
(*                                                                         *)
(* The browser keeps one hash per history entry.  Its own moves through    *)
(* the history, and a typed hash, are heard later as a hashchange event;   *)
(* the page's writes fire none and may be refused.                         *)
(***************************************************************************)
EXTENDS Integers, Sequences, FiniteSets

CONSTANTS Metrics, DefaultMetric, Ids, Null,
          MaxEntries,    \* bound: history entries
          MaxSteps       \* bound: what the reader and the browser do in a visit

SOURCES == {"sensor.community", "eea"}
STATUSES == {"all", "active", "inactive"}

ASSUME ViewStateAssumption ==
  /\ DefaultMetric \in Metrics /\ Null \notin Metrics \cup Ids \cup SOURCES
  /\ MaxEntries \in Nat \ {0} /\ MaxSteps \in Nat

VARIABLES
  metric, sensorId, sources,  \* the stores
  entries, at,   \* the hash of every history entry, and the entry shown
  echo,          \* a hashchange event is due
  lag,           \* ghost: the last write of the hash was refused
  painted,       \* the metric the map was told of by notifyMetric
  sourceBoxes,   \* the source boxes of the menu, Null before it is built
  status, faulty,
  steps

viewStateVars == <<metric, sensorId, sources, entries, at, echo, lag, painted, sourceBoxes, status, faulty, steps>>
filterVars == <<status, faulty>>

Step == steps < MaxSteps /\ steps' = steps + 1

-----------------------------------------------------------------------------
(* The hash.  A key is absent (Null), or holds what somebody wrote there;  *)
(* "junk" stands for every value no serialisation writes.                  *)

Junk == "junk"
Hashes == [metric : Metrics \cup {Null, Junk}, sensor : Ids \cup {Null, Junk},
           layers : (SUBSET SOURCES) \cup {{Null}, {Junk}}]

\* The three keys are read independently of one another.
parseSources(raw) ==
  IF raw = {Null} THEN SOURCES
  ELSE IF raw = {} THEN {}
  ELSE IF raw \cap SOURCES = {} THEN SOURCES ELSE raw \cap SOURCES
parseSensorId(raw) == IF raw \in Ids THEN raw ELSE Null
parseHash(hash) ==
  [metric |-> IF hash.metric \in Metrics THEN hash.metric ELSE DefaultMetric,
   sensor |-> parseSensorId(hash.sensor),
   sources |-> parseSources(hash.layers)]

\* Mutant of serialiseSources: an empty selection has no token, so no key.
serialiseSources_NoNone(set) == IF set = SOURCES \/ set = {} THEN {Null} ELSE set
serialiseSources(set) == IF set = SOURCES THEN {Null} ELSE set

serialiseHash(view) ==
  [metric |-> IF view.metric = DefaultMetric THEN Null ELSE view.metric,
   sensor |-> view.sensor,
   layers |-> serialiseSources(view.sources)]

SharedView == [metric |-> metric, sensor |-> sensorId, sources |-> sources]

ViewStateInit ==
  /\ \E hash \in Hashes :
       /\ entries = <<hash>>
       /\ metric = parseHash(hash).metric /\ sensorId = parseHash(hash).sensor
       /\ sources = parseHash(hash).sources
  /\ at = 1 /\ echo = FALSE /\ lag = FALSE
  /\ painted = metric /\ sourceBoxes = {Null}
  /\ status = "active" /\ faulty = FALSE
  /\ steps = 0

-----------------------------------------------------------------------------
(* Writes.                                                                 *)

\* write(): the whole state, as a new entry or over the one shown.  The browser
\* may refuse it (SecurityError); the state stays as it was set.
write(push, view) ==
  \/ /\ ~push \/ at < MaxEntries
     /\ entries' = IF push THEN Append(SubSeq(entries, 1, at), serialiseHash(view))
                           ELSE [entries EXCEPT ![at] = serialiseHash(view)]
     /\ at' = IF push THEN at + 1 ELSE at
     /\ lag' = FALSE
  \/ /\ lag' = TRUE
     /\ UNCHANGED <<entries, at>>

\* A setting replaces the entry; a refused write throws before notifyMetric.
SetMetric(m) ==
  /\ Step /\ m # metric
  /\ metric' = m
  /\ write(FALSE, [SharedView EXCEPT !.metric = m])
  /\ painted' = IF lag' THEN painted ELSE m
  /\ UNCHANGED <<sensorId, sources, echo, sourceBoxes, filterVars>>

\* A destination pushes one, so that Back closes the panel.
OpenSensor(id) ==
  /\ Step /\ id # sensorId
  /\ sensorId' = id
  /\ write(TRUE, [SharedView EXCEPT !.sensor = id])
  /\ UNCHANGED <<metric, sources, echo, painted, sourceBoxes, filterVars>>

CloseSensor ==
  /\ Step /\ sensorId # Null
  /\ sensorId' = Null
  /\ write(TRUE, [SharedView EXCEPT !.sensor = Null])
  /\ UNCHANGED <<metric, sources, echo, painted, sourceBoxes, filterVars>>

\* A source box: setSourceEnabled, whose listener writes the hash.
ToggleSource(s) ==
  /\ Step /\ sourceBoxes # {Null}
  /\ sourceBoxes' = IF s \in sourceBoxes THEN sourceBoxes \ {s} ELSE sourceBoxes \cup {s}
  /\ sources' = IF s \in sourceBoxes' THEN sources \cup {s} ELSE sources \ {s}
  /\ IF sources' # sources THEN write(FALSE, [SharedView EXCEPT !.sources = sources'])
                           ELSE UNCHANGED <<entries, at, lag>>
  /\ UNCHANGED <<metric, sensorId, echo, painted, filterVars>>

\* The menu is built when the style has loaded: its source boxes start from the
\* hash's selection.
BuildMenu ==
  /\ sourceBoxes = {Null}
  /\ sourceBoxes' = sources
  /\ UNCHANGED <<metric, sensorId, sources, entries, at, echo, lag, painted, filterVars, steps>>

\* The inactive and the faulty stations' boxes, clicked or applied from storage; the
\* area page's own control has all three statuses.
SetStatus(s) ==
  /\ Step /\ s # status /\ status' = s
  /\ UNCHANGED <<metric, sensorId, sources, entries, at, echo, lag, painted, sourceBoxes, faulty>>

SetShowFaulty ==
  /\ Step /\ sourceBoxes # {Null} /\ faulty' = ~faulty
  /\ UNCHANGED <<metric, sensorId, sources, entries, at, echo, lag, painted, sourceBoxes, status>>

-----------------------------------------------------------------------------
(* The browser.                                                            *)

GoTo(i) ==
  /\ Step /\ i \in 1 .. Len(entries) /\ i # at
  /\ at' = i /\ echo' = (echo \/ entries[i] # entries[at])
  /\ lag' = (lag /\ entries[i] = entries[at])
  /\ UNCHANGED <<metric, sensorId, sources, entries, painted, sourceBoxes, filterVars>>

\* A link or the address bar changes the hash: a new entry.
TypeHash(hash) ==
  /\ Step /\ at < MaxEntries /\ hash # entries[at]
  /\ entries' = Append(SubSeq(entries, 1, at), hash) /\ at' = at + 1
  /\ echo' = TRUE /\ lag' = FALSE
  /\ UNCHANGED <<metric, sensorId, sources, painted, sourceBoxes, filterVars>>

\* The sources are applied with the `writing` flag up, so their listener writes
\* nothing; the boxes of the menu are not told.
onHashChange ==
  /\ echo /\ echo' = FALSE
  /\ LET next == parseHash(entries[at])
     IN /\ metric' = next.metric /\ sensorId' = next.sensor /\ sources' = next.sources
        /\ painted' = next.metric
  /\ lag' = FALSE
  /\ UNCHANGED <<entries, at, sourceBoxes, filterVars, steps>>

ViewStateNext ==
  \/ \E m \in Metrics : SetMetric(m)
  \/ \E id \in Ids : OpenSensor(id)
  \/ CloseSensor \/ BuildMenu \/ SetShowFaulty \/ onHashChange
  \/ \E s \in SOURCES : ToggleSource(s)
  \/ \E s \in STATUSES : SetStatus(s)
  \/ \E i \in 1 .. MaxEntries : GoTo(i)
  \/ \E hash \in Hashes : TypeHash(hash)

ViewStateSpec == ViewStateInit /\ [][ViewStateNext]_viewStateVars

-----------------------------------------------------------------------------
(* What the filters draw.                                                  *)

\* A station as the filters see it: its network, whether it has a reading of the
\* metric, whether it is flagged faulty for it.
Features == [source : SOURCES, hasValue : BOOLEAN, faulty : BOOLEAN]
filterBySource(fs, on) == {f \in fs : f.source \in on}
filterByStatus(fs, s) ==
  {f \in fs : (s = "active" => f.hasValue) /\ (s = "inactive" => ~f.hasValue)}
filterSensorFeatures(fs, s, showFaulty) ==
  filterByStatus({f \in fs : ~f.faulty}, s) \cup (IF showFaulty THEN {f \in fs : f.faulty} ELSE {})
Drawn == filterSensorFeatures(filterBySource(Features, sources), status, faulty)

-----------------------------------------------------------------------------
(* Properties.                                                             *)

\* The shape of the shared state.
ViewStateTypeOK ==
  /\ metric \in Metrics /\ painted \in Metrics /\ sensorId \in Ids \cup {Null}
  /\ sources \subseteq SOURCES /\ sourceBoxes \in (SUBSET SOURCES) \cup {{Null}}
  /\ entries \in Seq(Hashes) /\ at \in 1 .. Len(entries) /\ Len(entries) <= MaxEntries
  /\ {echo, lag, faulty} \subseteq BOOLEAN /\ status \in STATUSES

\* Once the browser's own hash changes are heard, the address of the entry shown
\* parses to the view on the screen, through every order of settings, openings,
\* moves through the history and refused writes: a refused write is made good by
\* the next one, because write() always writes the whole state.
HashTellsTheView ==
  ~echo /\ ~lag => parseHash(entries[at]) = SharedView
=============================================================================
