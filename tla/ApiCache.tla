------------------------------ MODULE ApiCache ------------------------------
(***************************************************************************)
(* The page's fetch policy (web/src/lib/api.js): a bounded least-recently- *)
(* used cache of bodies, one shared request per URL with a refcount of the *)
(* callers waiting for it, and the reload that throws both away.           *)
(*                                                                         *)
(* The script is single-threaded, so a step is what runs between two       *)
(* awaits: the synchronous part of getJSON, a caller's abort, clearCache,  *)
(* and each callback chained on a request (then, finally, the waiter's     *)
(* own).  Other callbacks may run between any two of them.                 *)
(*                                                                         *)
(* A call of getJSON makes its request itself or joins another's, so a     *)
(* request is named by the call that made it, and so is the body it        *)
(* fetched.  A call given no signal is one that never aborts.              *)
(***************************************************************************)
EXTENDS Integers, FiniteSets, SequencesExt

CONSTANTS
    Calls,        \* calls of getJSON, each made once
    Urls,
    NoRequest,    \* an inFlight map without the URL; a call not yet answered
    CacheLimit,   \* CACHE_LIMIT
    MaxClears     \* bound: calls of clearCache

ASSUME ApiCacheAssumption ==
    /\ NoRequest \notin Calls /\ IsFiniteSet(Calls)
    /\ CacheLimit \in Nat \ {0} /\ MaxClears \in Nat

VARIABLES
    status,    \* what became of each call
    url,       \* the URL it asked for
    joined,    \* the request it waits for
    got,       \* the body it was given
    phase,     \* where each request is
    outcome,   \* what its promise settled with
    sent,      \* fetches it made: a 429 is retried once
    aborted,   \* its controller's signal
    waiters,   \* its refcount
    inFlight,  \* the requests a new call may join
    cache,     \* [url, body] from least to most recently used
    clears,    \* calls of clearCache so far
    began,     \* history: clears when the call was made
    recent     \* history: URLs by last use since the last clear

calls    == <<status, url, joined, got, began>>
requests == <<phase, outcome, sent, aborted, waiters>>
stored   == <<cache, recent>>
vars     == <<calls, requests, inFlight, stored, clears>>

Statuses == {"new", "waiting", "body", "failed", "aborted", "cut"}
Phases   == {"none", "sent", "backoff", "answered", "erred", "aborting",
             "settled", "over"}

TypeOK ==
    /\ status \in [Calls -> Statuses]
    /\ url \in [Calls -> Urls]
    /\ joined \in [Calls -> Calls \cup {NoRequest}]
    /\ got \in [Calls -> Calls \cup {NoRequest}]
    /\ phase \in [Calls -> Phases]
    /\ outcome \in [Calls -> {"none", "body", "failed", "cut"}]
    /\ sent \in [Calls -> 0 .. 2]
    /\ aborted \in [Calls -> BOOLEAN]
    /\ waiters \in [Calls -> 0 .. Cardinality(Calls)]
    /\ inFlight \in [Urls -> Calls \cup {NoRequest}]
    /\ Len(cache) <= CacheLimit
    /\ clears \in 0 .. MaxClears
    /\ began \in [Calls -> 0 .. MaxClears]
    /\ ToSet(recent) \subseteq Urls

Init ==
    /\ status = [c \in Calls |-> "new"]
    /\ url \in [Calls -> Urls]
    /\ joined = [c \in Calls |-> NoRequest]
    /\ got = [c \in Calls |-> NoRequest]
    /\ phase = [r \in Calls |-> "none"]
    /\ outcome = [r \in Calls |-> "none"]
    /\ sent = [r \in Calls |-> 0]
    /\ aborted = [r \in Calls |-> FALSE]
    /\ waiters = [r \in Calls |-> 0]
    /\ inFlight = [u \in Urls |-> NoRequest]
    /\ cache = <<>>
    /\ clears = 0
    /\ began = [c \in Calls |-> 0]
    /\ recent = <<>>

-----------------------------------------------------------------------------

IndexOf(s, x) == CHOOSE i \in DOMAIN s : s[i] = x

\* delete, then set.
MoveToEnd(s, x) == Append(IF x \in ToSet(s) THEN RemoveAt(s, IndexOf(s, x)) ELSE s, x)

Cached(u)  == \E i \in DOMAIN cache : cache[i].url = u
EntryOf(u) == CHOOSE e \in ToSet(cache) : e.url = u

\* Mutant of Refresh: a hit does not refresh recency.
Refresh_Fifo(u) == cache

\* A hit deletes the entry and sets it again: the Map keeps insertion order.
Refresh(u) == MoveToEnd(cache, EntryOf(u))

\* Mutant of CacheSet: without the ceiling.
CacheSet_Unbounded(u, body) == Append(cache, [url |-> u, body |-> body])

\* cacheSet: a new key goes last, and the first ones make room for it.
CacheSet(u, body) ==
    LET entry == [url |-> u, body |-> body]
        set   == IF Cached(u)
                 THEN [i \in DOMAIN cache |->
                         IF cache[i].url = u THEN entry ELSE cache[i]]
                 ELSE Append(cache, entry)
    IN  IF Len(set) > CacheLimit THEN Tail(set) ELSE set

\* Mutant of Leave: whatever entry is installed for the URL is removed.
Leave_AnyEntry(r) == [inFlight EXCEPT ![url[r]] = NoRequest]

\* `if (inFlight.get(url) === entry) inFlight.delete(url)`.
Leave(r) == IF inFlight[url[r]] = r
            THEN [inFlight EXCEPT ![url[r]] = NoRequest] ELSE inFlight

-----------------------------------------------------------------------------
(* getJSON *)

Begin(c) == status[c] = "new" /\ began' = [began EXCEPT ![c] = clears]

(* The signal was aborted before the call. *)
CallAborted(c) ==
    /\ Begin(c)
    /\ status' = [status EXCEPT ![c] = "aborted"]
    /\ UNCHANGED <<url, joined, got, requests, inFlight, stored, clears>>

CallHit(c) ==
    /\ Begin(c)
    /\ Cached(url[c])
    /\ status' = [status EXCEPT ![c] = "body"]
    /\ got' = [got EXCEPT ![c] = EntryOf(url[c]).body]
    /\ cache' = Refresh(url[c])
    /\ recent' = MoveToEnd(recent, url[c])
    /\ UNCHANGED <<url, joined, requests, inFlight, clears>>

Wait(c, r) ==
    /\ status' = [status EXCEPT ![c] = "waiting"]
    /\ joined' = [joined EXCEPT ![c] = r]
    /\ waiters' = [waiters EXCEPT ![r] = @ + 1]
    /\ UNCHANGED <<url, got, stored, clears>>

CallJoins(c) ==
    /\ Begin(c)
    /\ ~Cached(url[c]) /\ inFlight[url[c]] # NoRequest
    /\ Wait(c, inFlight[url[c]])
    /\ UNCHANGED <<phase, outcome, sent, aborted, inFlight>>

(* startFetch: the request goes out before the call returns. *)
CallStarts(c) ==
    /\ Begin(c)
    /\ ~Cached(url[c]) /\ inFlight[url[c]] = NoRequest
    /\ Wait(c, c)
    /\ phase' = [phase EXCEPT ![c] = "sent"]
    /\ sent' = [sent EXCEPT ![c] = 1]
    /\ inFlight' = [inFlight EXCEPT ![url[c]] = c]
    /\ UNCHANGED <<outcome, aborted>>

\* Mutant of Abort: the first caller to leave takes the request with it.
Abort_Shared(c) ==
    LET r == joined[c] IN
    /\ status[c] = "waiting"
    /\ status' = [status EXCEPT ![c] = "aborted"]
    /\ waiters' = [waiters EXCEPT ![r] = @ - 1]
    /\ aborted' = [aborted EXCEPT ![r] = TRUE]
    /\ inFlight' = Leave(r)
    /\ UNCHANGED <<url, joined, got, began, phase, outcome, sent, stored, clears>>

(* attach's onAbort: the caller detaches, and the request is cancelled     *)
(* when it was the last one waiting.                                       *)
Abort(c) ==
    LET r == joined[c] IN
    /\ status[c] = "waiting"
    /\ status' = [status EXCEPT ![c] = "aborted"]
    /\ waiters' = [waiters EXCEPT ![r] = @ - 1]
    /\ \/ waiters[r] > 1 /\ UNCHANGED <<aborted, inFlight>>
       \/ /\ waiters[r] = 1
          /\ aborted' = [aborted EXCEPT ![r] = TRUE]
          /\ inFlight' = Leave(r)
    /\ UNCHANGED <<url, joined, got, began, phase, outcome, sent, stored, clears>>

\* Mutant of ClearCache: the requests are dropped, not aborted.
ClearCache_NoAbort ==
    /\ clears < MaxClears
    /\ clears' = clears + 1
    /\ cache' = <<>>
    /\ recent' = <<>>
    /\ inFlight' = [u \in Urls |-> NoRequest]
    /\ UNCHANGED <<calls, requests>>

ClearCache ==
    /\ clears < MaxClears
    /\ clears' = clears + 1
    /\ cache' = <<>>
    /\ recent' = <<>>
    /\ aborted' = [r \in Calls |-> aborted[r] \/ \E u \in Urls : inFlight[u] = r]
    /\ inFlight' = [u \in Urls |-> NoRequest]
    /\ UNCHANGED <<calls, phase, outcome, sent, waiters>>

-----------------------------------------------------------------------------
(* A request: fetchOnce, then the callbacks startFetch and attach chain. *)

(* The network answers with a body, an error or a 429, or rejects because  *)
(* the signal was aborted; it may ignore the abort.  A 429 is retried      *)
(* unless the caller that started the request said not to, it is the       *)
(* second, or the server asks for more than the cap.                       *)
Answer(r) ==
    /\ phase[r] = "sent"
    /\ \E to \in {"answered", "erred", "backoff", "aborting"} :
          /\ to = "backoff" => sent[r] = 1
          /\ to = "aborting" => aborted[r]
          /\ phase' = [phase EXCEPT ![r] = to]
    /\ UNCHANGED <<calls, outcome, sent, aborted, waiters, inFlight, stored,
                   clears>>

\* Mutant of Resend: the signal is not looked at again after the delay.
Resend_Blind(r) == TRUE

\* After the delay: an abort ends the request, else it is sent once more.
Resend(r) == ~aborted[r]

Retry(r) ==
    /\ phase[r] = "backoff"
    /\ \/ /\ Resend(r)
          /\ phase' = [phase EXCEPT ![r] = "sent"]
          /\ sent' = [sent EXCEPT ![r] = 2]
       \/ /\ ~Resend(r)
          /\ phase' = [phase EXCEPT ![r] = "aborting"]
          /\ UNCHANGED sent
    /\ UNCHANGED <<calls, outcome, aborted, waiters, inFlight, stored, clears>>

Resolve(r, with) ==
    /\ phase' = [phase EXCEPT ![r] = "settled"]
    /\ outcome' = [outcome EXCEPT ![r] = with]
    /\ UNCHANGED <<calls, sent, aborted, waiters, inFlight, clears>>

\* Mutant of Wanted: an answer nobody waits for any more is written.
Wanted_Always(r) == TRUE
Wanted(r) == ~aborted[r]

(* startFetch's then. *)
Store(r) ==
    /\ phase[r] = "answered"
    /\ Wanted(r)
    /\ Resolve(r, "body")
    /\ cache' = CacheSet(url[r], r)
    /\ recent' = MoveToEnd(recent, url[r])

(* fetchOnce rejected, or the answer came after the abort. *)
Reject(r) ==
    /\ \/ phase[r] = "erred" /\ Resolve(r, "failed")
       \/ phase[r] = "aborting" /\ Resolve(r, "cut")
       \/ phase[r] = "answered" /\ ~Wanted(r) /\ Resolve(r, "cut")
    /\ UNCHANGED stored

(* startFetch's finally: a transient error must not poison the URL. *)
CleanUp(r) ==
    /\ phase[r] = "settled"
    /\ phase' = [phase EXCEPT ![r] = "over"]
    /\ inFlight' = Leave(r)
    /\ UNCHANGED <<calls, outcome, sent, aborted, waiters, stored, clears>>

\* Mutants of Deliver: done() without its settled guard, so a caller that
\* aborted is counted out again; the AbortError handler that keeps a rejection
\* from going unobserved is chained before the waiters.
Deliver_Twice(c) ==
    LET r == joined[c] IN
    /\ status[c] \in {"waiting", "aborted"}
    /\ r # NoRequest /\ phase[r] = "over" /\ waiters[r] > 0
    /\ waiters' = [waiters EXCEPT ![r] = @ - 1]
    /\ joined' = [joined EXCEPT ![c] = NoRequest]
    /\ status' = [status EXCEPT ![c] = IF @ = "aborted" THEN @ ELSE outcome[r]]
    /\ got' = [got EXCEPT ![c] = IF outcome[r] = "body" THEN r ELSE @]
    /\ UNCHANGED <<url, began, phase, outcome, sent, aborted, inFlight, stored,
                   clears>>
Deliver_Swallow(c) ==
    LET r == joined[c] IN
    /\ status[c] = "waiting"
    /\ phase[r] = "over" /\ outcome[r] # "cut"
    /\ waiters' = [waiters EXCEPT ![r] = @ - 1]
    /\ status' = [status EXCEPT ![c] = outcome[r]]
    /\ got' = [got EXCEPT ![c] = IF outcome[r] = "body" THEN r ELSE @]
    /\ UNCHANGED <<url, joined, began, phase, outcome, sent, aborted, inFlight,
                   stored, clears>>

(* A waiter's own callback: done(), then its promise settles as the        *)
(* request did.  For a caller that has aborted both are no-ops.            *)
Deliver(c) ==
    LET r == joined[c] IN
    /\ status[c] = "waiting"
    /\ phase[r] = "over"
    /\ waiters' = [waiters EXCEPT ![r] = @ - 1]
    /\ status' = [status EXCEPT ![c] = outcome[r]]
    /\ got' = [got EXCEPT ![c] = IF outcome[r] = "body" THEN r ELSE @]
    /\ UNCHANGED <<url, joined, began, phase, outcome, sent, aborted, inFlight,
                   stored, clears>>

-----------------------------------------------------------------------------

Request(r) == \/ Answer(r) \/ Retry(r) \/ Store(r) \/ Reject(r) \/ CleanUp(r)
              \/ Deliver(r)

Next ==
    \/ \E c \in Calls :
          \/ CallAborted(c) \/ CallHit(c) \/ CallJoins(c) \/ CallStarts(c)
          \/ Abort(c)
          \/ Request(c)
    \/ ClearCache

Spec == Init /\ [][Next]_vars

(* A request is answered or fails, in the end by the browser's own         *)
(* timeout, and callbacks run.  Nothing is assumed of the callers.         *)
FairSpec == Spec /\ \A r \in Calls : WF_vars(Request(r))

-----------------------------------------------------------------------------

Live(r) == phase[r] \in {"sent", "backoff"} /\ ~aborted[r]

(***************************************************************************)
(* "Callers await the SAME promise": at no time are two requests for one   *)
(* URL on their way that both may be answered, through aborts and clears   *)
(* that let a new request start while the old one is still being torn down *)
(* (the identity guard in startFetch's finally and attach's onAbort).      *)
(***************************************************************************)
SingleFlight == \A r, q \in Calls :
    (Live(r) /\ Live(q) /\ url[r] = url[q]) => r = q

(***************************************************************************)
(* The refcount is the number of callers waiting, so a request lives       *)
(* exactly as long as somebody waits for it: the last one to leave takes   *)
(* it along and no earlier one does (attach's done and onAbort).           *)
(***************************************************************************)
RefCount ==
    /\ \A r \in Calls :
          waiters[r] = Cardinality({c \in Calls : status[c] = "waiting"
                                                  /\ joined[c] = r})
    /\ \A r \in Calls : Live(r) => waiters[r] > 0

(***************************************************************************)
(* A caller that did not abort is told AbortError only when the cache was  *)
(* cleared while it waited: another caller's abort never reaches it,       *)
(* neither directly nor by leaving a dying request to be joined.           *)
(***************************************************************************)
NoForeignAbort == \A c \in Calls : status[c] = "cut" => clears > began[c]

(***************************************************************************)
(* clearCache invalidates: a call made after a clear is never given, and   *)
(* the cache never holds, a body whose request went out before it, however *)
(* late its answer came (clearCache aborts; startFetch checks the signal). *)
(***************************************************************************)
NothingOutlivesClear ==
    /\ \A c \in Calls : status[c] = "body" => began[got[c]] >= began[c]
    /\ \A i \in DOMAIN cache : began[cache[i].body] = clears

(***************************************************************************)
(* The cache is the CacheLimit most recently used URLs since the last      *)
(* clear: a hit refreshes recency, and only the oldest one is evicted.     *)
(***************************************************************************)
LeastRecentlyUsed ==
    LET urls == [i \in DOMAIN cache |-> cache[i].url]
        n    == Len(recent)
    IN  urls = SubSeq(recent, IF n > CacheLimit THEN n - CacheLimit + 1 ELSE 1, n)

(***************************************************************************)
(* One request per URL at a time, held by exactly the callers that wait.   *)
(***************************************************************************)
OneRequestHeldByItsCallers == SingleFlight /\ RefCount

(***************************************************************************)
(* The cache keeps its shape and bound, nothing from before the last       *)
(* clear, and the URLs used last.                                          *)
(***************************************************************************)
CacheIsSound == TypeOK /\ NothingOutlivesClear /\ LeastRecentlyUsed

(***************************************************************************)
(* "A cancelled pan must not come back and spend a limiter token nobody is *)
(* waiting on": a request is sent, for the first or the second time, only  *)
(* while a caller waits for it.                                            *)
(***************************************************************************)
SentForSomebody ==
    [][\A r \in Calls : sent'[r] > sent[r] =>
          \E c \in Calls : status'[c] = "waiting" /\ joined'[c] = r]_vars

(***************************************************************************)
(* Every call is answered: with a body, an error, or an AbortError; a      *)
(* clear or another caller's abort leaves nobody waiting for ever.         *)
(***************************************************************************)
EveryCallEnds == \A c \in Calls : status[c] = "waiting" ~> status[c] # "waiting"

=============================================================================
