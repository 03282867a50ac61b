------------------------------ MODULE BodyCache ------------------------------
(***************************************************************************)
(* The encoded answers a snapshot keeps (internal/snapshot/hexes.go):      *)
(* requests look a body up, encode it outside the lock and put it, in any  *)
(* number at once, while the publisher replaces the snapshot.  The cache   *)
(* is bounded by its entries and by its bytes, and cleared whole.          *)
(*                                                                         *)
(* A body is what it was encoded from: the snapshot and the request.       *)
(***************************************************************************)
EXTENDS Integers, FiniteSets, FiniteSetsExt

CONSTANTS
    BodyRequests,      \* [tier, box, point]: the tier snapped, the box quantised
    NoBox,         \* the request is not clipped
    DefaultTier,   \* HexResolutionKM
    SizeOf,        \* what a request's body weighs
    MaxEntries,    \* bodyCacheMax
    MaxBytes,      \* bodyCacheMaxBytes
    Handlers,      \* requests being served at once
    MaxSnapshots   \* bound: snapshots built

\* A request is its tier, its box and what it asks of it.
ASSUME BodyAssumption ==
    /\ BodyRequests # {}
    /\ \A p, q \in BodyRequests :
          p.tier = q.tier /\ p.box = q.box /\ p.point = q.point => p = q
    /\ \A q \in BodyRequests : SizeOf[q] \in Nat \ {0}
    /\ MaxEntries \in Nat \ {0} /\ MaxBytes \in Nat /\ MaxSnapshots \in Nat \ {0}

Snapshots == 1 .. MaxSnapshots
Bodies == [of : Snapshots, request : BodyRequests]
NoBody == [of |-> 0]    \* nothing yet, or an error

VARIABLES
    current,   \* the published snapshot
    bodies,    \* the map of each snapshot's cache
    bytes,     \* and its count
    handler,   \* where each request is
    asks, of,  \*   what it asks, and the snapshot it took
    answer     \*   what it was given

cacheVars == <<current, bodies, bytes, handler, asks, of, answer>>

BodyTypeOK ==
    /\ current \in Snapshots
    /\ \A n \in Snapshots : \A k \in DOMAIN bodies[n] : bodies[n][k] \in Bodies
    /\ handler \in [Handlers -> {"idle", "asked", "encode", "put"}]
    /\ \A h \in Handlers : /\ asks[h] \in BodyRequests /\ of[h] \in Snapshots
                           /\ answer[h] \in Bodies \cup {NoBody}

BodyInit ==
    /\ current = 1
    /\ bodies = [n \in Snapshots |-> <<>>] /\ bytes = [n \in Snapshots |-> 0]
    /\ handler = [h \in Handlers |-> "idle"]
    /\ asks = [h \in Handlers |-> CHOOSE q \in BodyRequests : TRUE]
    /\ of = [h \in Handlers |-> 1]
    /\ answer = [h \in Handlers |-> NoBody]

-----------------------------------------------------------------------------

\* Mutant of Key: a clipped answer under the key of the whole tier.
Key_NoBox(q) == <<q.tier, NoBox, q.point>>
Key(q) == <<q.tier, q.box, q.point>>

\* Encoded when the snapshot was built.
Prebuilt(q) == ~q.point /\ q.box = NoBox /\ q.tier = DefaultTier

Publish ==
    /\ current < MaxSnapshots
    /\ current' = current + 1
    /\ UNCHANGED <<bodies, bytes, handler, asks, of, answer>>

AskBody(h, q) ==
    /\ handler[h] = "idle"
    /\ asks' = [asks EXCEPT ![h] = q] /\ of' = [of EXCEPT ![h] = current]
    /\ handler' = [handler EXCEPT ![h] = "asked"]
    /\ answer' = [answer EXCEPT ![h] = NoBody]
    /\ UNCHANGED <<current, bodies, bytes>>

Given(h, body) == answer' = [answer EXCEPT ![h] = body]
Own(h) == [of |-> of[h], request |-> asks[h]]

Get(h) ==
    LET k == Key(asks[h])
    IN /\ handler[h] = "asked"
       /\ \/ Prebuilt(asks[h]) /\ Given(h, Own(h)) /\ handler' = [handler EXCEPT ![h] = "idle"]
          \/ ~Prebuilt(asks[h]) /\ k \in DOMAIN bodies[of[h]]
             /\ Given(h, bodies[of[h]][k]) /\ handler' = [handler EXCEPT ![h] = "idle"]
          \/ ~Prebuilt(asks[h]) /\ k \notin DOMAIN bodies[of[h]]
             /\ handler' = [handler EXCEPT ![h] = "encode"] /\ UNCHANGED answer
       /\ UNCHANGED <<current, bodies, bytes, asks, of>>

\* It encodes, or answers the error.
Encode(h) ==
    /\ handler[h] = "encode"
    /\ \E next \in {"put", "idle"} : handler' = [handler EXCEPT ![h] = next]
    /\ UNCHANGED <<current, bodies, bytes, asks, of, answer>>

SizeHeld(n, k) == IF k \in DOMAIN bodies[n] THEN SizeOf[bodies[n][k].request] ELSE 0

\* Mutant of Existing: what the key held is not looked at.
Existing_Zero(n, k) == 0
Existing(n, k) == SizeHeld(n, k)

\* Mutant of BytesAfter: the count survives the clear.
BytesAfter_Kept(n, size, held, cleared) == bytes[n] + size - held
BytesAfter(n, size, held, cleared) == IF cleared THEN size ELSE bytes[n] + size - held

Put(h) ==
    LET n == of[h]
        k == Key(asks[h])
        size == SizeOf[asks[h]]
        held == Existing(n, k)
        cleared == Cardinality(DOMAIN bodies[n]) >= MaxEntries \/ bytes[n] - held + size > MaxBytes
        kept == IF cleared THEN {} ELSE DOMAIN bodies[n]
    IN /\ handler[h] = "put"
       /\ \/ size > MaxBytes /\ UNCHANGED <<bodies, bytes>>
          \/ /\ size <= MaxBytes
             /\ bodies' = [bodies EXCEPT ![n] =
                   [j \in kept \cup {k} |-> IF j = k THEN Own(h) ELSE @[j]]]
             /\ bytes' = [bytes EXCEPT ![n] = BytesAfter(n, size, held, cleared)]
       /\ Given(h, Own(h))
       /\ handler' = [handler EXCEPT ![h] = "idle"]
       /\ UNCHANGED <<current, asks, of>>

BodyNext ==
    \/ Publish
    \/ \E h \in Handlers : \/ \E q \in BodyRequests : AskBody(h, q)
                           \/ Get(h) \/ Encode(h) \/ Put(h)

BodySpec == BodyInit /\ [][BodyNext]_cacheVars

-----------------------------------------------------------------------------

(***************************************************************************)
(* Each snapshot's cache keeps its two bounds, its count is the sum of     *)
(* what it holds, and what it gives is what the request's own snapshot     *)
(* would have encoded.                                                     *)
(***************************************************************************)
CacheKeepsBounds ==
    \A n \in Snapshots :
        /\ Cardinality(DOMAIN bodies[n]) <= MaxEntries
        /\ bytes[n] <= MaxBytes
        /\ \A k \in DOMAIN bodies[n] : bodies[n][k].of = n /\ Key(bodies[n][k].request) = k
BytesAreCounted ==
    \A n \in Snapshots : bytes[n] = SumFunction([k \in DOMAIN bodies[n] |-> SizeHeld(n, k)])
AnswersAreOwn ==
    \A h \in Handlers : handler[h] = "idle" => answer[h] \in {NoBody, Own(h)}

BodiesHold == CacheKeepsBounds /\ BytesAreCounted /\ AnswersAreOwn

=============================================================================
