------------------------------- MODULE MCLoops -------------------------------
(***************************************************************************)
(* The loops that must make progress, checked in one run: the rollup, the  *)
(* collector of official files, the process's way down, and the requests   *)
(* of the page.  No two of them share a variable.  Each behaviour moves    *)
(* one of them, chosen at its start, so the run has the sum of their       *)
(* states and not the product.                                             *)
(***************************************************************************)
EXTENDS Rollup, EeaCollector, Lifecycle

CONSTANTS Calls, Urls, NoRequest, CacheLimit, MaxClears    \* ApiCache's

VARIABLES subject,    \* the part that moves in this behaviour
          status, url, joined, got, phase, outcome, sent, aborted, waiters, inFlight,
          cache, clears, began, recent    \* ApiCache's

Answers == INSTANCE ApiCache

answerVars == <<status, url, joined, got, phase, outcome, sent, aborted, waiters, inFlight,
                cache, clears, began, recent>>
loopVars == <<subject, vars, eeaVars, lifeVars, answerVars>>

\* A part that is not the subject starts in one state.
LoopsInit ==
    /\ subject \in {"rollup", "eea", "serve", "answers"}
    /\ Init /\ EeaInit /\ LifecycleInit /\ Answers!Init
    /\ subject # "serve" => \A p \in Loops : loop[p] = "off"
    /\ subject # "serve" => \A l \in Listeners : serve[l] = "serving"

\* The calls are alike, so they are numbered in the order they are made.
InOrder == \A c \in Calls : status'[c] # "new" => \A b \in Calls : b < c => status'[b] # "new"

LoopsNext ==
    /\ UNCHANGED subject
    /\ \/ subject = "rollup" /\ Next
       \/ subject = "eea" /\ EeaNext
       \/ subject = "serve" /\ LifecycleNext
       \/ subject = "answers" /\ Answers!Next /\ InOrder
    /\ subject # "rollup" => UNCHANGED vars
    /\ subject # "eea"    => UNCHANGED eeaVars
    /\ subject # "serve"  => UNCHANGED lifeVars
    /\ subject # "answers" => UNCHANGED answerVars

(* What each part's own specification assumes, of the behaviours that move *)
(* it: FairSpec, FairEeaSpec, LifecycleFair and ApiCache's FairSpec.       *)
LoopsFair ==
    /\ \A d \in Drainers : WF_vars(subject = "rollup" /\ Cycle(d))
    /\ \A c \in Collectors : WF_eeaVars(subject = "eea" /\ Poll(c))
    /\ WF_lifeVars(subject = "serve" /\ MainGoes)
    /\ WF_lifeVars(subject = "serve" /\ GraceEnds)
    /\ WF_lifeVars(subject = "serve" /\ QueryEnds)
    /\ \A l \in Listeners : WF_lifeVars(subject = "serve" /\ (ServeReturns(l) \/ Reports(l)))
    /\ \A p \in Loops : WF_lifeVars(subject = "serve" /\ (CycleEnds(p) \/ LoopReturns(p)))
    /\ \A r \in Calls : WF_answerVars(subject = "answers" /\ Answers!Request(r))

LoopsSpec == LoopsInit /\ [][LoopsNext]_loopVars /\ LoopsFair

-----------------------------------------------------------------------------

\* The rollup catches up with the clock (RollupBacklog).
BacklogAlwaysDrains == subject = "rollup" => BacklogDrains

\* The rows settle on the agency's last revision (RunOnce of the collector).
FilesSettle == subject = "eea" => SettlesOnLastRevision

\* Every call of the page is answered (getJSON).
EveryCallEnds == subject = "answers" => Answers!EveryCallEnds

=============================================================================
