----------------------------- MODULE VisitorDays -----------------------------
(***************************************************************************)
(* The daily visitor figures (internal/upstream/cloudflare/collector.go,   *)
(* internal/store/visitor_daily.go): a pull sized from the last stored     *)
(* day, by `serve` and by `collect`, and the operator's seed of the gaps.  *)
(*                                                                         *)
(* A figure is the day on which the pull that brought it asked: a day's    *)
(* figure shifts while the day runs and for Shift days more.  Cloudflare   *)
(* has a figure of every day it keeps.                                     *)
(***************************************************************************)
EXTENDS Integers, FiniteSetsExt

CONSTANTS
    Pullers,       \* serve, collect
    MinLookback,   \* minLookbackDays
    MaxLookback,   \* maxLookbackDays, what Cloudflare keeps
    Shift,         \* "can still shift for a day or two"
    MaxDay,        \* bound: the last day
    MaxSeeds       \* bound: runs of seed-visitor-daily

ASSUME VisitorAssumption ==
    /\ MinLookback \in Nat \ {0} /\ MaxLookback \in Nat /\ MinLookback <= MaxLookback
    /\ Shift \in Nat /\ Shift < MinLookback /\ MaxDay \in Nat /\ MaxSeeds \in Nat

Days == 0 .. MaxDay
NoFigure == -1
Exported == MaxDay + Shift    \* the figure of a seed: a day that is over

VARIABLES
    today,
    figures,   \* table visitor_daily: the figure of each day, or NoFigure
    pull,      \* each collector: the last stored day it read, then its window
    seeds,     \* bounded: seeds so far
    leapt      \* history: the days a seed put out of the pulls' reach

visitorVars == <<today, figures, pull, seeds, leapt>>

AtRest == [at |-> "idle", last |-> NoFigure, since |-> 0, until |-> 0]

VisitorTypeOK ==
    /\ today \in Days
    /\ figures \in [Days -> {NoFigure} \cup Days \cup {Exported}]
    /\ pull \in [Pullers -> [at : {"idle", "sized", "fetched"}, last : Days \cup {NoFigure},
                             since : -MaxLookback .. MaxDay, until : Days]]
    /\ seeds \in 0 .. MaxSeeds /\ leapt \subseteq Days

VisitorInit ==
    /\ today = 0
    /\ figures = [d \in Days |-> NoFigure]
    /\ pull = [p \in Pullers |-> AtRest]
    /\ seeds = 0 /\ leapt = {}

-----------------------------------------------------------------------------

Stored == {d \in Days : figures[d] # NoFigure}
LastStored == IF Stored = {} THEN NoFigure ELSE Max(Stored)

Clamp(n) == Min({Max({n, MinLookback}), MaxLookback})

\* Mutant of Lookback: the gap alone, without the days that are asked again.
Lookback_GapOnly(now, last) ==
    IF last = NoFigure THEN MaxLookback ELSE Clamp(now - last + 1)
Lookback(now, last) ==
    IF last = NoFigure THEN MaxLookback ELSE Clamp(now - last + MinLookback)

Since(now, last) == now - (Lookback(now, last) - 1)

ReadMaxDay(p) ==
    /\ pull[p].at = "idle"
    /\ pull' = [pull EXCEPT ![p] = [AtRest EXCEPT !.at = "sized", !.last = LastStored]]
    /\ UNCHANGED <<today, figures, seeds, leapt>>

FetchDaily(p) ==
    /\ pull[p].at = "sized"
    /\ pull' = [pull EXCEPT ![p].at = "fetched", ![p].until = today,
                            ![p].since = Since(today, pull[p].last)]
    /\ UNCHANGED <<today, figures, seeds, leapt>>

\* Mutant of Replaces: a day that has a figure keeps it.
Replaces_Nothing(d, figure) == IF figures[d] = NoFigure THEN figure ELSE figures[d]
Replaces(d, figure) == figure

\* One batch, one transaction.
Upsert(p) ==
    /\ pull[p].at = "fetched"
    /\ figures' = [d \in Days |-> IF d \in pull[p].since .. pull[p].until
                                  THEN Replaces(d, pull[p].until) ELSE figures[d]]
    /\ pull' = [pull EXCEPT ![p] = AtRest]
    /\ UNCHANGED <<today, seeds, leapt>>

\* A query, the request or the batch fails.
PullFails(p) ==
    /\ pull[p].at # "idle"
    /\ pull' = [pull EXCEPT ![p] = AtRest]
    /\ UNCHANGED <<today, figures, seeds, leapt>>

-----------------------------------------------------------------------------

Final(d) == figures[d] # NoFigure /\ figures[d] >= d + Shift

\* The days since the first one stored that are missing or may still shift, that
\* Cloudflare keeps, and that the next pull would not ask for.
Neglected ==
    {d \in Days : /\ \E e \in Stored : e <= d
                  /\ d <= today /\ d > today - MaxLookback
                  /\ ~Final(d)
                  /\ d < Since(today, LastStored)}

\* Days that are over, inserted where there is no row.
Seed(first, last) ==
    /\ seeds < MaxSeeds /\ seeds' = seeds + 1
    /\ figures' = [d \in Days |-> IF d \in first .. last /\ figures[d] = NoFigure
                                  THEN Exported ELSE figures[d]]
    /\ UNCHANGED <<today, pull>>
    /\ leapt' = leapt \cup Neglected'

\* The deadlines of the request and of the statements let a pull last into the next
\* day and no longer.
NextDay ==
    /\ today < MaxDay /\ today' = today + 1
    /\ \A p \in Pullers : pull[p].at = "fetched" => pull[p].until = today
    /\ UNCHANGED <<figures, pull, seeds, leapt>>

VisitorNext ==
    \/ \E p \in Pullers : ReadMaxDay(p) \/ FetchDaily(p) \/ Upsert(p) \/ PullFails(p)
    \/ \E last \in Days, first \in Days : last < today /\ first <= last /\ Seed(first, last)
    \/ NextDay

VisitorSpec == VisitorInit /\ [][VisitorNext]_visitorVars

-----------------------------------------------------------------------------

(***************************************************************************)
(* No pull, and no two pulls across midnight, leave behind a day that is   *)
(* missing or still shifting and that no later pull will ask for; only an  *)
(* operator's seed, which moves the last stored day, can (window, RunOnce  *)
(* and UpsertVisitorDaily).                                                *)
(***************************************************************************)
StillAsked == VisitorTypeOK /\ Neglected \subseteq leapt

=============================================================================
