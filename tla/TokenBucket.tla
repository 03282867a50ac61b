---------------------------- MODULE TokenBucket -----------------------------
(***************************************************************************)
(* One client's token bucket (internal/ratelimit/bucket.go) and the 429    *)
(* the handlers make of it (httpx/chain.go, api/series.go).                *)
(*                                                                         *)
(* A request and the eviction sweep read the clock before they take the    *)
(* shard's lock, so they may act on a time that has passed: lastFill and   *)
(* lastSeen are times that were read, not times at which they were set.    *)
(* Keys share nothing but locks, so one key stands for all.  Tokens are    *)
(* counted in fractions (Unit to a token) and time in ticks                *)
(* (TicksPerSecond to a second), so the refill is exact.                   *)
(***************************************************************************)
EXTENDS Integers

CONSTANTS
    Callers,         \* requests of this client that may be under way at once
    Unit,             \* fractions in a token
    Refill,           \* PerSecond: fractions refilled in a tick
    Burst,            \* Burst, in fractions
    TicksPerSecond,
    TTL,              \* ttl, in ticks
    Stall,            \* bound: ticks between reading the clock and the lock
    Horizon,          \* bound: ticks
    None

\* validate.go asks for positive values and a burst worth a second's refill.
\* The last conjunct it does not ask for: a bucket is forgotten only when it
\* would be full.  The shipped ttl of 30 minutes exceeds it 40 times and more.
ASSUME BucketAssumption ==
    /\ Unit \in Nat \ {0} /\ Refill \in Nat \ {0}
    /\ TicksPerSecond \in Nat \ {0}
    /\ Burst \in Nat /\ Burst >= Refill * TicksPerSecond
    /\ TTL \in Nat /\ Stall \in Nat /\ Horizon \in Nat
    /\ None \notin Int \cup [tokens : Int, lastFill : Int, lastSeen : Int]
    /\ Refill * TTL >= Burst + 2 * Refill * Stall

VARIABLES
    now,          \* the clock
    bucket,       \* its tokens, lastFill and lastSeen, or None
    read,         \* for each request, the time it read, or None
    sweep,        \* the time the sweep read, or None
    allowed,      \* history: requests allowed so far
    mark,         \* history: an instant, and what was allowed before it
    told          \* history: the last Retry-After

bucketVars == <<now, bucket, read, sweep, allowed, mark, told>>
history == <<mark, told>>

Times == 0 .. Horizon
TimesOrNone == Times \cup {None}
Buckets == [tokens : 0 .. Burst, lastFill : Times, lastSeen : Times]

BucketTypeOK ==
    /\ now \in Times
    /\ bucket \in Buckets \cup {None}
    /\ read \in [Callers -> TimesOrNone]
    /\ sweep \in TimesOrNone
    /\ allowed \in Nat
    /\ mark \in [at : Times, allowed : Nat]
    /\ told \in [until : Nat, allowed : Nat] \cup {None}

BucketInit ==
    /\ now = 0
    /\ bucket = None
    /\ read = [r \in Callers |-> None]
    /\ sweep = None
    /\ allowed = 0
    /\ mark = [at |-> 0, allowed |-> 0]
    /\ told = None

-----------------------------------------------------------------------------

Fewer(a, b) == IF a <= b THEN a ELSE b

(* Allow, before the lock. *)
Arrive(r) ==
    /\ read[r] = None
    /\ read' = [read EXCEPT ![r] = now]
    /\ UNCHANGED <<now, bucket, sweep, allowed, history>>

\* Mutant of Filled: an idle client accumulates credit.
Filled_Uncapped(t) ==
    IF bucket = None THEN [tokens |-> Burst, lastFill |-> t]
    ELSE IF t > bucket.lastFill
    THEN [tokens |-> bucket.tokens + Refill * (t - bucket.lastFill),
          lastFill |-> t]
    ELSE [tokens |-> bucket.tokens, lastFill |-> bucket.lastFill]

\* Mutant of Filled: lastFill follows the time read, even backwards.
Filled_Backwards(t) ==
    IF bucket = None THEN [tokens |-> Burst, lastFill |-> t]
    ELSE IF t > bucket.lastFill
    THEN [tokens |-> Fewer(Burst,
                           bucket.tokens + Refill * (t - bucket.lastFill)),
          lastFill |-> t]
    ELSE [tokens |-> bucket.tokens, lastFill |-> t]

(* The bucket found or made, and refilled up to the time read, which may   *)
(* be before the last refill.                                              *)
Filled(t) ==
    IF bucket = None THEN [tokens |-> Burst, lastFill |-> t]
    ELSE IF t > bucket.lastFill
    THEN [tokens |-> Fewer(Burst,
                           bucket.tokens + Refill * (t - bucket.lastFill)),
          lastFill |-> t]
    ELSE [tokens |-> bucket.tokens, lastFill |-> bucket.lastFill]

(* Allow, under the lock. *)
Allow(r) ==
    /\ read[r] # None
    /\ LET filled == Filled(read[r])
       IN /\ filled.tokens >= Unit
          /\ bucket' = [tokens |-> filled.tokens - Unit,
                        lastFill |-> filled.lastFill, lastSeen |-> read[r]]
    /\ allowed' = allowed + 1
    /\ read' = [read EXCEPT ![r] = None]
    /\ UNCHANGED <<now, sweep, history>>

\* Mutant of RetryAfter: whole seconds, rounded down.
RetryAfter_Immediately(tokens) ==
    (Unit - tokens) \div (Refill * TicksPerSecond)

(* The seconds until the next token, rounded to the nearest, and at least  *)
(* one in the header.                                                      *)
RetryAfter(tokens) ==
    LET perSecond == Refill * TicksPerSecond
        nearest == (2 * (Unit - tokens) + perSecond) \div (2 * perSecond)
    IN IF nearest < 1 THEN 1 ELSE nearest

(* Allow, under the lock: a 429 with its Retry-After. *)
Deny(r) ==
    /\ read[r] # None
    /\ LET filled == Filled(read[r])
       IN /\ filled.tokens < Unit
          /\ bucket' = [tokens |-> filled.tokens, lastFill |-> filled.lastFill,
                        lastSeen |-> read[r]]
          /\ told' = [allowed |-> allowed,
                      until |-> now + TicksPerSecond
                                        * RetryAfter(filled.tokens)]
    /\ read' = [read EXCEPT ![r] = None]
    /\ UNCHANGED <<now, sweep, allowed, mark>>

-----------------------------------------------------------------------------

(* Evict reads the clock, and takes the locks one by one. *)
StartSweep ==
    /\ sweep = None
    /\ sweep' = now
    /\ UNCHANGED <<now, bucket, read, allowed, history>>

\* Mutant of Idle: a tick of silence is enough.
Idle_OneTick(t) == bucket.lastSeen < t
Idle(t) == bucket.lastSeen < t - TTL

Sweep ==
    /\ sweep # None
    /\ bucket' = IF bucket # None /\ Idle(sweep) THEN None ELSE bucket
    /\ sweep' = None
    /\ UNCHANGED <<now, read, allowed, history>>

(* The clock.  Nobody waits for the lock for more than Stall ticks. *)
Tick ==
    /\ now < Horizon
    /\ \A r \in Callers : read[r] # None => now - read[r] < Stall
    /\ sweep # None => now - sweep < Stall
    /\ now' = now + 1
    /\ UNCHANGED <<bucket, read, sweep, allowed, history>>

(* An observer notes an instant, so that WindowBound is about every        *)
(* interval of time.                                                       *)
Watch ==
    /\ mark' = [at |-> now, allowed |-> allowed]
    /\ UNCHANGED <<now, bucket, read, sweep, allowed, told>>

BucketNext ==
    \/ \E r \in Callers : Arrive(r) \/ Allow(r) \/ Deny(r)
    \/ StartSweep \/ Sweep \/ Tick \/ Watch

BucketSpec == BucketInit /\ [][BucketNext]_bucketVars

-----------------------------------------------------------------------------

(***************************************************************************)
(* In no interval of time is a client allowed more than one burst and what *)
(* the interval refills, whatever it did before, however long it was       *)
(* silent or refused, and whenever the sweep forgot it ("without it an     *)
(* idle client accumulates unbounded credit", Allow).  The Stall ticks are *)
(* those by which a time that was read may be old.                         *)
(***************************************************************************)
WindowBound ==
    Unit * (allowed - mark.allowed)
        <= Burst + Refill * (now - mark.at + Stall)

(***************************************************************************)
(* "a truthful Retry-After" (bucket.go:102-103): a client that comes back  *)
(* when it was told to is not refused again, unless another request of it  *)
(* was allowed meanwhile.                                                  *)
(***************************************************************************)
RetryAfterTruthful ==
    [][\A r \in Callers :
          Deny(r) /\ told # None =>
              \/ read[r] < told.until
              \/ allowed # told.allowed]_bucketVars

=============================================================================
