------------------------------ MODULE Lifecycle ------------------------------
(***************************************************************************)
(* The life of `airbg serve` from the moment its listeners and loops run   *)
(* to the end of the process: runServe (cmd/airbg/main.go) and Server.Run  *)
(* (internal/server/server.go).                                            *)
(*                                                                         *)
(* ctx is cancelled by a signal; the loops run under pollCtx, its child,   *)
(* which stopPolling also cancels.  The listeners report their ends on     *)
(* errCh, of which Run reads at most one.  A request stands for all that a *)
(* listener has in hand; only the public listener's reach the database.    *)
(***************************************************************************)
EXTENDS Integers, Sequences

CONSTANTS
    Loops,        \* ingest, wind, EEA, visitor statistics
    MaxTicks,     \* bound: ticks of the loops' timers
    MaxRequests   \* bound: requests that arrive

ASSUME LifecycleAssumption == MaxTicks \in Nat /\ MaxRequests \in Nat

Listeners == {"public", "private", "tiles"}

\* The listener shut down after this one.
After(l) == CASE l = "public" -> "private" [] l = "private" -> "tiles" [] OTHER -> "none"

VARIABLES
    main,        \* where runServe is
    draining,    \* the listener whose Shutdown is next or under way
    signalled,   \* ctx is done
    stopped,     \* stopPolling was called
    serve,       \* each listener's goroutine
    shut,        \* the listeners that were told to shut down
    errCh,       \* what was sent and not read
    expired,     \* the grace period is over
    verdict,     \* what Run returns: an error or none
    inHand,      \* the listeners with a request in hand
    querying,    \* a request holds a connection of the API pool
    loop,        \* each loop
    ticks, arrived

lifeVars == <<main, draining, signalled, stopped, serve, shut, errCh, expired,
              verdict, inHand, querying, loop, ticks, arrived>>

front == <<serve, shut, errCh, inHand, querying, arrived>>
back  == <<loop, ticks>>

MainSteps == {"select", "drain", "stop", "wait", "close", "exited"}

LifeTypeOK ==
    /\ main \in MainSteps /\ draining \in Listeners \cup {"none"}
    /\ signalled \in BOOLEAN /\ stopped \in BOOLEAN /\ expired \in BOOLEAN
    /\ serve \in [Listeners -> {"off", "serving", "failed", "closed", "sent"}]
    /\ shut \subseteq Listeners
    /\ errCh \in Seq({"failed", "closed"})
    /\ verdict \in {"none", "error"}
    /\ inHand \subseteq Listeners /\ querying \in BOOLEAN
    /\ loop \in [Loops -> {"off", "cycle", "waits", "returned"}]
    /\ ticks \in 0 .. MaxTicks /\ arrived \in 0 .. MaxRequests

\* A loop that is not enabled has its channel closed from the start, and the basemap
\* may not be configured.
LifecycleInit ==
    /\ main = "select" /\ draining = "public"
    /\ signalled = FALSE /\ stopped = FALSE /\ expired = FALSE
    /\ \E tiles \in {"off", "serving"} :
           serve = [l \in Listeners |-> IF l = "tiles" THEN tiles ELSE "serving"]
    /\ shut = {} /\ errCh = <<>> /\ verdict = "none"
    /\ inHand = {} /\ querying = FALSE
    /\ loop \in [Loops -> {"off", "cycle"}]
    /\ ticks = 0 /\ arrived = 0

-----------------------------------------------------------------------------
(* The world: a signal, a request, a listener that dies, the clock. *)

Signal ==
    /\ main # "exited" /\ ~signalled
    /\ signalled' = TRUE
    /\ UNCHANGED <<main, draining, stopped, front, back, expired, verdict>>

Arrives(l) ==
    /\ main # "exited" /\ serve[l] = "serving" /\ l \notin shut \cup inHand
    /\ arrived < MaxRequests /\ arrived' = arrived + 1
    /\ inHand' = inHand \cup {l}
    /\ UNCHANGED <<main, draining, signalled, stopped, serve, shut, errCh,
                   querying, expired, verdict, back>>

Queries ==
    /\ main \notin {"close", "exited"} /\ "public" \in inHand /\ ~querying
    /\ querying' = TRUE
    /\ UNCHANGED <<main, draining, signalled, stopped, serve, shut, errCh,
                   inHand, arrived, expired, verdict, back>>

\* A query ends by itself or by its statement timeout.
QueryEnds ==
    /\ querying
    /\ querying' = FALSE
    /\ UNCHANGED <<main, draining, signalled, stopped, serve, shut, errCh,
                   inHand, arrived, expired, verdict, back>>

Responds(l) ==
    /\ main # "exited" /\ l \in inHand
    /\ l = "public" => ~querying
    /\ inHand' = inHand \ {l}
    /\ UNCHANGED <<main, draining, signalled, stopped, serve, shut, errCh,
                   querying, arrived, expired, verdict, back>>

\* It cannot bind, or Accept fails.
ListenerDies(l) ==
    /\ main # "exited" /\ serve[l] = "serving" /\ l \notin shut
    /\ serve' = [serve EXCEPT ![l] = "failed"]
    /\ UNCHANGED <<main, draining, signalled, stopped, shut, errCh, inHand,
                   querying, arrived, expired, verdict, back>>

GraceEnds ==
    /\ main = "drain" /\ ~expired
    /\ expired' = TRUE
    /\ UNCHANGED <<main, draining, signalled, stopped, front, back, verdict>>

-----------------------------------------------------------------------------
(* The listeners' goroutines.  Serve returns once its server is told to    *)
(* shut down, also when it had not started.                                *)

ServeReturns(l) ==
    /\ main # "exited" /\ serve[l] = "serving" /\ l \in shut
    /\ serve' = [serve EXCEPT ![l] = "closed"]
    /\ UNCHANGED <<main, draining, signalled, stopped, shut, errCh, inHand,
                   querying, arrived, expired, verdict, back>>

\* Mutant of Buffer: room for one.
Buffer_One == 1
Buffer == 3

Reports(l) ==
    /\ main # "exited" /\ serve[l] \in {"failed", "closed"}
    /\ Len(errCh) < Buffer
    /\ errCh' = Append(errCh, serve[l])
    /\ serve' = [serve EXCEPT ![l] = "sent"]
    /\ UNCHANGED <<main, draining, signalled, stopped, shut, inHand, querying,
                   arrived, expired, verdict, back>>

-----------------------------------------------------------------------------
(* Run and runServe. *)

\* The select takes whichever is ready.
Cancelled ==
    /\ main = "select" /\ signalled
    /\ main' = "drain"
    /\ UNCHANGED <<draining, signalled, stopped, front, back, expired, verdict>>

HearsListener ==
    /\ main = "select" /\ errCh # <<>>
    /\ main' = "drain"
    /\ errCh' = Tail(errCh)
    /\ verdict' = IF Head(errCh) = "failed" THEN "error" ELSE verdict
    /\ UNCHANGED <<draining, signalled, stopped, serve, shut, inHand, querying,
                   arrived, back, expired>>

Shutdown ==
    /\ main = "drain" /\ draining \notin shut
    /\ shut' = shut \cup {draining}
    /\ UNCHANGED <<main, draining, signalled, stopped, serve, errCh, inHand,
                   querying, arrived, back, expired, verdict>>

\* Mutant of Idle: the requests' own, cancelled context is passed.
Idle_AtOnce(l) == TRUE
Idle(l) == l \notin inHand \/ expired

\* Shutdown returns when the listener has nothing in hand, or with an error when the
\* grace period, which the three listeners share, is over.
Drained ==
    /\ main = "drain" /\ draining \in shut
    /\ Idle(draining)
    /\ LET next == After(draining)
       IN IF next = "none" \/ serve[next] = "off"
          THEN main' = "stop" /\ draining' = "none"
          ELSE draining' = next /\ UNCHANGED main
    /\ verdict' = IF draining \in inHand THEN "error" ELSE verdict
    /\ UNCHANGED <<signalled, stopped, front, back, expired>>

\* Mutant of StopPolling: left to the signal.
StopPolling_BySignal ==
    /\ main = "stop"
    /\ main' = "wait"
    /\ UNCHANGED <<draining, signalled, stopped, front, back, expired, verdict>>
StopPolling ==
    /\ main = "stop"
    /\ stopped' = TRUE
    /\ main' = "wait"
    /\ UNCHANGED <<draining, signalled, front, back, expired, verdict>>

\* Mutant of LoopsDone: only the cancellation is waited for.
LoopsDone_Told == stopped
LoopsDone == \A p \in Loops : loop[p] \in {"off", "returned"}

WaitForLoops ==
    /\ main = "wait" /\ LoopsDone
    /\ main' = "close"
    /\ UNCHANGED <<draining, signalled, stopped, front, back, expired, verdict>>

\* The deferred Close of a pool waits for the connections that are in use.
ClosePools ==
    /\ main = "close" /\ ~querying
    /\ main' = "exited"
    /\ UNCHANGED <<draining, signalled, stopped, front, back, expired, verdict>>

-----------------------------------------------------------------------------
(* The loops.  A cycle ends, or fails, the sooner when its context is      *)
(* cancelled; the select may take a tick although the context is done.     *)

CycleEnds(p) ==
    /\ main # "exited" /\ loop[p] = "cycle"
    /\ loop' = [loop EXCEPT ![p] = "waits"]
    /\ UNCHANGED <<main, draining, signalled, stopped, front, expired, verdict, ticks>>

TimerTicks(p) ==
    /\ main # "exited" /\ loop[p] = "waits" /\ ticks < MaxTicks
    /\ loop' = [loop EXCEPT ![p] = "cycle"]
    /\ ticks' = ticks + 1
    /\ UNCHANGED <<main, draining, signalled, stopped, front, expired, verdict>>

LoopReturns(p) ==
    /\ main # "exited" /\ loop[p] = "waits" /\ (signalled \/ stopped)
    /\ loop' = [loop EXCEPT ![p] = "returned"]
    /\ UNCHANGED <<main, draining, signalled, stopped, front, expired, verdict, ticks>>

-----------------------------------------------------------------------------

MainGoes == Cancelled \/ HearsListener \/ Shutdown \/ Drained \/ StopPolling
            \/ WaitForLoops \/ ClosePools

LifecycleNext ==
    \/ Signal \/ Queries \/ QueryEnds \/ GraceEnds
    \/ \E l \in Listeners : \/ Arrives(l) \/ Responds(l) \/ ListenerDies(l)
                            \/ ServeReturns(l) \/ Reports(l)
    \/ MainGoes
    \/ \E p \in Loops : CycleEnds(p) \/ TimerTicks(p) \/ LoopReturns(p)

LifecycleSpec == LifecycleInit /\ [][LifecycleNext]_lifeVars

(* Goroutines are scheduled, the grace timer fires, a statement has its    *)
(* timeout and every call of a cycle a deadline.  Nothing is assumed of    *)
(* the signal or of the requests, which may never be answered.             *)
LifecycleFair ==
    /\ WF_lifeVars(MainGoes) /\ WF_lifeVars(GraceEnds) /\ WF_lifeVars(QueryEnds)
    /\ \A l \in Listeners : WF_lifeVars(ServeReturns(l) \/ Reports(l))
    /\ \A p \in Loops : WF_lifeVars(CycleEnds(p) \/ LoopReturns(p))

-----------------------------------------------------------------------------

\* "so the process does not exit with a half-written cycle in flight": when it is gone no
\* loop is in a cycle and nothing holds a connection.
NoHalfCycle ==
    main = "exited" => ~querying /\ \A p \in Loops : loop[p] # "cycle"

\* A request that was accepted is only abandoned when the grace period is over.
GraceIsGiven ==
    main \in {"stop", "wait", "close", "exited"} => inHand = {} \/ expired

\* A process that ends although nobody asked it to says so.
DeathIsReported == main = "exited" /\ verdict = "none" => signalled

\* No listener's goroutine waits for somebody to read errCh.
NobodyBlocksOnErrCh ==
    \A l \in Listeners : serve[l] \in {"failed", "closed"} => Len(errCh) < Buffer

(***************************************************************************)
(* The end of the process leaves nothing half done, and its state keeps    *)
(* its shape until then (runServe and Run).                                *)
(***************************************************************************)
ExitIsClean ==
    LifeTypeOK /\ NoHalfCycle /\ GraceIsGiven /\ DeathIsReported /\ NobodyBlocksOnErrCh

(***************************************************************************)
(* A signal, or one listener's death, brings the process down: no loop,    *)
(* drain, pool or channel holds it for ever, whatever the requests do.     *)
(***************************************************************************)
Dying == signalled \/ \E l \in Listeners : serve[l] = "failed"
ShutdownEnds == Dying ~> main = "exited"

=============================================================================
