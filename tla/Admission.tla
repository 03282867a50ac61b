----------------------------- MODULE Admission ------------------------------
(***************************************************************************)
(* The semaphore that bounds how many requests are in a database query     *)
(* (internal/admit/admit.go), as the handlers use it (internal/api:        *)
(* series.go, locate.go).                                                  *)
(*                                                                         *)
(* slots is the occupancy of the buffered channel, and inFlight the atomic *)
(* counter next to it: TryAcquire sends on the channel and then counts,    *)
(* release counts down and then receives, and other goroutines run in      *)
(* between.  A request is named by the goroutine that serves it; when one  *)
(* is answered the next may come.  A query that fails or is cancelled      *)
(* returns like one that succeeds.                                         *)
(***************************************************************************)
EXTENDS Integers, FiniteSets

CONSTANTS
    Requests,
    MaxInflight,         \* database.max_inflight
    MaxPanics     \* bound: panics inside a query

\* admit.New refuses a size below one.
ASSUME AdmissionAssumption ==
    IsFiniteSet(Requests) /\ MaxInflight \in Nat \ {0} /\ MaxPanics \in Nat

VARIABLES
    pc,           \* where each request is
    slots,        \* len(Semaphore.slots)
    inFlight,     \* Semaphore.inFlight
    panics

admissionVars == <<pc, slots, inFlight, panics>>

\* "panicked": the request is answered, its query never returned.
RequestSteps == {"arrives", "admitted", "query", "releases", "uncounted",
                 "answers", "refused", "panicked"}

AdmissionTypeOK ==
    /\ pc \in [Requests -> RequestSteps]
    /\ slots \in 0 .. MaxInflight
    /\ inFlight \in Int
    /\ panics \in 0 .. MaxPanics

AdmissionInit ==
    /\ pc = [r \in Requests |-> "arrives"]
    /\ slots = 0
    /\ inFlight = 0
    /\ panics = 0

Goes(r, from, to) == pc[r] = from /\ pc' = [pc EXCEPT ![r] = to]

-----------------------------------------------------------------------------

\* Mutant of SlotFree: the counter decides, before the slot is taken.
SlotFree_ByCounter == inFlight < MaxInflight
SlotFree == slots < MaxInflight

(* TryAcquire: the send on the channel. *)
Admit(r) ==
    /\ SlotFree
    /\ Goes(r, "arrives", "admitted")
    /\ slots' = slots + 1
    /\ UNCHANGED <<inFlight, panics>>

(* The channel is full: 503, or the national view for /locate. *)
Refuse(r) ==
    /\ ~SlotFree
    /\ Goes(r, "arrives", "refused")
    /\ UNCHANGED <<slots, inFlight, panics>>

Count(r) ==
    /\ Goes(r, "admitted", "query")
    /\ inFlight' = inFlight + 1
    /\ UNCHANGED <<slots, panics>>

\* Mutant of QueryReturns: an early return on an error, before the release.
QueryReturns_EarlyReturn(r) ==
    /\ \/ Goes(r, "query", "releases")
       \/ Goes(r, "query", "answers")
    /\ UNCHANGED <<slots, inFlight, panics>>

(* The store's method returned, with rows or an error. *)
QueryReturns(r) ==
    /\ Goes(r, "query", "releases")
    /\ UNCHANGED <<slots, inFlight, panics>>

(* The query panics and httpx.Recover answers 500.  The release that       *)
(* follows the call is not deferred.                                       *)
QueryPanics(r) ==
    /\ panics < MaxPanics
    /\ Goes(r, "query", "panicked")
    /\ panics' = panics + 1
    /\ UNCHANGED <<slots, inFlight>>

\* Mutant of Uncount: only the channel is drained.
Uncount_Forgotten(r) ==
    /\ Goes(r, "releases", "uncounted")
    /\ UNCHANGED <<slots, inFlight, panics>>

(* release, once: the counter, then the channel. *)
Uncount(r) ==
    /\ Goes(r, "releases", "uncounted")
    /\ inFlight' = inFlight - 1
    /\ UNCHANGED <<slots, panics>>

Free(r) ==
    /\ Goes(r, "uncounted", "answers")
    /\ slots' = slots - 1
    /\ UNCHANGED <<inFlight, panics>>

Answer(r) ==
    /\ \/ Goes(r, "answers", "arrives")
       \/ Goes(r, "refused", "arrives")
    /\ UNCHANGED <<slots, inFlight, panics>>

-----------------------------------------------------------------------------

AdmissionNext == \E r \in Requests :
    \/ Admit(r) \/ Refuse(r) \/ Count(r)
    \/ QueryReturns(r) \/ QueryPanics(r)
    \/ Uncount(r) \/ Free(r) \/ Answer(r)

AdmissionSpec == AdmissionInit /\ [][AdmissionNext]_admissionVars

-----------------------------------------------------------------------------

SlotHolders  == {r \in Requests : pc[r] \in {"admitted", "query", "releases",
                                         "uncounted", "panicked"}}
Counted  == {r \in Requests : pc[r] \in {"query", "releases", "panicked"}}
Querying == {r \in Requests : pc[r] = "query"}

(***************************************************************************)
(* However admissions and releases interleave, at most MaxInflight         *)
(* requests are in the database, and the gauge next to the channel never   *)
(* reports more than that nor fewer than the queries there are             *)
(* (TryAcquire, release).                                                  *)
(***************************************************************************)
CapHolds ==
    /\ Cardinality(Querying) <= MaxInflight
    /\ inFlight <= MaxInflight
    /\ Cardinality(Querying) <= inFlight

(***************************************************************************)
(* The channel and the counter agree with who holds a slot, a request that *)
(* panicked included.                                                      *)
(***************************************************************************)
Accounts ==
    /\ slots = Cardinality(SlotHolders)
    /\ inFlight = Cardinality(Counted)

(***************************************************************************)
(* The semaphore is the control Slots promises: refused only when full.    *)
(***************************************************************************)
AdmissionSlots == INSTANCE Slots WITH
    Clients <- Requests,
    Size <- MaxInflight,
    turn <- [r \in Requests |-> IF r \in SlotHolders THEN "in"
                                ELSE IF pc[r] = "refused" THEN "refused"
                                ELSE "out"]
AdmissionRefinesSlots == AdmissionSlots!Spec

=============================================================================
