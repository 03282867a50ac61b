--------------------------- MODULE ControlsProofs ---------------------------
(***************************************************************************)
(* The semaphore before the database, the cap on connections, the token    *)
(* bucket and the breadth of one client keep their bounds, for every size, *)
(* number of requests and interleaving, and the first two are the control  *)
(* that Slots promises.                                                    *)
(*                                                                         *)
(* For the semaphore the invariant is Accounts: channel and counter        *)
(* are the cardinalities of the sets of requests that hold a slot and that *)
(* have been counted.  A step moves one request into or out of one of the  *)
(* two sets, so it adds or removes one element.  For the cap it is that    *)
(* taken counts the connections not given back, and that a closer at work  *)
(* is on an accepted connection whose descriptor it has closed             *)
(* (ClosersOwn), so what it gives back was there to give.                  *)
(*                                                                         *)
(* For the token bucket it is an account (Paid): what was allowed since    *)
(* any instant, and what the bucket still holds, came out of one burst and *)
(* the refill up to the last one.  A bucket may be forgotten only after a  *)
(* silence whose refill is worth a burst, so a new one, full, owes nothing.*)
(*                                                                         *)
(* For the breadth it is what an entry tells (Tells): a value that is      *)
(* recent and that the entry does not count was counted by the one before  *)
(* it, and nothing older than that one is recent any more.                 *)
(*                                                                         *)
(* Last, that the state of all four keeps its shape, and that a refusal is *)
(* told the truth: by the wait it is given (Promised) and by being one at  *)
(* all (CountedIsServed).                                                  *)
(***************************************************************************)
EXTENDS MCControls, FiniteSetTheorems, TLAPS

Inv == AdmissionTypeOK /\ Accounts

\* A set of requests is finite and has a natural number of elements.
LEMMA FiniteRequests ==
    ASSUME NEW S \in SUBSET Requests
    PROVE  IsFiniteSet(S) /\ Cardinality(S) \in Nat
  BY FS_Subset, FS_CardinalityType, AdmissionAssumption

\* One request more, one request less.
LEMMA OneMore ==
    ASSUME NEW S \in SUBSET Requests, NEW r \in Requests, r \notin S
    PROVE  Cardinality(S \cup {r}) = Cardinality(S) + 1
  BY FS_AddElement, FiniteRequests

LEMMA OneLess ==
    ASSUME NEW S \in SUBSET Requests, NEW r \in S
    PROVE  Cardinality(S \ {r}) = Cardinality(S) - 1
  BY FS_RemoveElement, FiniteRequests

\* The queries are counted requests, and counted requests hold a slot.
LEMMA Nested ==
    /\ Cardinality(Querying) <= Cardinality(Counted)
    /\ Cardinality(Counted) <= Cardinality(SlotHolders)
    /\ Cardinality(Querying) \in Nat
    /\ Cardinality(Counted) \in Nat /\ Cardinality(SlotHolders) \in Nat
  <1>1. /\ Querying \subseteq Counted /\ Counted \subseteq SlotHolders
        /\ Querying \in SUBSET Requests
        /\ Counted \in SUBSET Requests /\ SlotHolders \in SUBSET Requests
    BY DEF Querying, Counted, SlotHolders
  <1> QED  BY <1>1, FS_Subset, FiniteRequests

\* A request that goes from one step to another leaves the sets of the others
\* as they were.
LEMMA Moves ==
    ASSUME AdmissionTypeOK, NEW r \in Requests,
           NEW from \in RequestSteps, NEW to \in RequestSteps, Goes(r, from, to)
    PROVE  /\ pc' \in [Requests -> RequestSteps]
           /\ pc[r] = from /\ pc'[r] = to
           /\ \A q \in Requests : q # r => pc'[q] = pc[q]
  BY DEF AdmissionTypeOK, Goes

LEMMA InitInv == AdmissionInit => Inv
  <1> SUFFICES ASSUME AdmissionInit PROVE Inv  OBVIOUS
  <1>1. SlotHolders = {} /\ Counted = {}
    BY DEF AdmissionInit, SlotHolders, Counted
  <1>2. Accounts  BY <1>1, FS_EmptySet DEF AdmissionInit, Accounts
  <1>3. AdmissionTypeOK
    BY AdmissionAssumption DEF AdmissionInit, AdmissionTypeOK, RequestSteps
  <1> QED  BY <1>2, <1>3 DEF Inv

LEMMA NextInv == Inv /\ [AdmissionNext]_admissionVars => Inv'
  <1> SUFFICES ASSUME Inv, [AdmissionNext]_admissionVars PROVE Inv'  OBVIOUS
  <1> USE AdmissionAssumption
  <1>a. AdmissionTypeOK /\ Accounts  BY DEF Inv
  <1>b. /\ SlotHolders \in SUBSET Requests /\ Counted \in SUBSET Requests
        /\ slots \in Nat /\ inFlight \in Int
    BY <1>a DEF SlotHolders, Counted, AdmissionTypeOK
  <1>1. CASE UNCHANGED admissionVars
    BY <1>1, <1>a
    DEF admissionVars, Inv, AdmissionTypeOK, Accounts, SlotHolders, Counted
  <1>2. ASSUME NEW r \in Requests, Admit(r) PROVE Inv'
    <2>1. Goes(r, "arrives", "admitted") /\ slots < MaxInflight
      BY <1>2 DEF Admit, SlotFree
    <2>2. SlotHolders' = SlotHolders \cup {r} /\ r \notin SlotHolders
          /\ Counted' = Counted
      BY <2>1, <1>a, Moves DEF SlotHolders, Counted, RequestSteps
    <2>3. Cardinality(SlotHolders \cup {r}) = Cardinality(SlotHolders) + 1
      BY <2>2, <1>b, OneMore
    <2>4. Accounts'  BY <2>2, <2>3, <1>2, <1>a DEF Accounts, Admit
    <2>5. AdmissionTypeOK'
      BY <2>1, <1>2, <1>a, Moves DEF AdmissionTypeOK, Admit, RequestSteps
    <2> QED  BY <2>4, <2>5 DEF Inv
  <1>3. ASSUME NEW r \in Requests, Count(r) PROVE Inv'
    <2>1. Goes(r, "admitted", "query")  BY <1>3 DEF Count
    <2>2. Counted' = Counted \cup {r} /\ r \notin Counted
          /\ SlotHolders' = SlotHolders
      BY <2>1, <1>a, Moves DEF SlotHolders, Counted, RequestSteps
    <2>3. Cardinality(Counted \cup {r}) = Cardinality(Counted) + 1
      BY <2>2, <1>b, OneMore
    <2>4. Accounts'  BY <2>2, <2>3, <1>3, <1>a DEF Accounts, Count
    <2>5. AdmissionTypeOK'
      BY <2>1, <1>3, <1>a, Moves DEF AdmissionTypeOK, Count, RequestSteps
    <2> QED  BY <2>4, <2>5 DEF Inv
  <1>4. ASSUME NEW r \in Requests, Uncount(r) PROVE Inv'
    <2>1. Goes(r, "releases", "uncounted")  BY <1>4 DEF Uncount
    <2>2. Counted' = Counted \ {r} /\ r \in Counted
          /\ SlotHolders' = SlotHolders
      BY <2>1, <1>a, Moves DEF SlotHolders, Counted, RequestSteps
    <2>3. Cardinality(Counted \ {r}) = Cardinality(Counted) - 1
      BY <2>2, <1>b, OneLess
    <2>4. Accounts'  BY <2>2, <2>3, <1>4, <1>a DEF Accounts, Uncount
    <2>5. AdmissionTypeOK'
      BY <2>1, <1>4, <1>a, Moves DEF AdmissionTypeOK, Uncount, RequestSteps
    <2> QED  BY <2>4, <2>5 DEF Inv
  <1>5. ASSUME NEW r \in Requests, Free(r) PROVE Inv'
    <2>1. Goes(r, "uncounted", "answers")  BY <1>5 DEF Free
    <2>2. SlotHolders' = SlotHolders \ {r} /\ r \in SlotHolders
          /\ Counted' = Counted
      BY <2>1, <1>a, Moves DEF SlotHolders, Counted, RequestSteps
    <2>3. Cardinality(SlotHolders \ {r}) = Cardinality(SlotHolders) - 1
      BY <2>2, <1>b, OneLess
    <2>4. Accounts'  BY <2>2, <2>3, <1>5, <1>a DEF Accounts, Free
    <2>5. Cardinality(SlotHolders \ {r}) \in Nat  BY <1>b, FiniteRequests
    <2>6. slots' \in 0 .. MaxInflight
      BY <2>3, <2>5, <1>5, <1>a, <1>b DEF Accounts, Free, AdmissionTypeOK
    <2>7. AdmissionTypeOK'
      BY <2>1, <2>6, <1>5, <1>a, Moves DEF AdmissionTypeOK, Free, RequestSteps
    <2> QED  BY <2>4, <2>7 DEF Inv
  <1>6. ASSUME NEW r \in Requests,
               Refuse(r) \/ QueryReturns(r) \/ QueryPanics(r) \/ Answer(r)
        PROVE  Inv'
    <2>1. /\ \/ Goes(r, "arrives", "refused") \/ Goes(r, "query", "releases")
             \/ Goes(r, "query", "panicked") \/ Goes(r, "answers", "arrives")
             \/ Goes(r, "refused", "arrives")
          /\ slots' = slots /\ inFlight' = inFlight
          /\ panics' \in 0 .. MaxPanics
      BY <1>6, <1>a
      DEF Refuse, QueryReturns, QueryPanics, Answer, AdmissionTypeOK
    <2>2. /\ SlotHolders' = SlotHolders /\ Counted' = Counted
          /\ pc' \in [Requests -> RequestSteps]
      BY <2>1, <1>a, Moves DEF SlotHolders, Counted, RequestSteps
    <2> QED  BY <2>1, <2>2, <1>a DEF Inv, AdmissionTypeOK, Accounts
  <1> QED  BY <1>1, <1>2, <1>3, <1>4, <1>5, <1>6 DEF AdmissionNext

\* Every variable of the semaphore keeps its type (TryAcquire, release).
THEOREM TypeCorrect == AdmissionSpec => []AdmissionTypeOK
  <1>1. Inv => AdmissionTypeOK  BY DEF Inv
  <1> QED  BY InitInv, NextInv, <1>1, PTL DEF AdmissionSpec

\* The channel and the counter agree with who holds a slot.
THEOREM AccountsKept == AdmissionSpec => []Accounts
  <1>1. Inv => Accounts  BY DEF Inv
  <1> QED  BY InitInv, NextInv, <1>1, PTL DEF AdmissionSpec

\* At most MaxInflight requests are in the database; the gauge tells no lie.
THEOREM CapAlwaysHolds == AdmissionSpec => []CapHolds
  <1>1. Inv => CapHolds
    BY Nested, AdmissionAssumption DEF Inv, AdmissionTypeOK, Accounts, CapHolds
  <1> QED  BY InitInv, NextInv, <1>1, PTL DEF AdmissionSpec

-----------------------------------------------------------------------------
(* The refinement of Slots. *)

Turn == [r \in Requests |-> IF r \in SlotHolders THEN "in"
                            ELSE IF pc[r] = "refused" THEN "refused"
                            ELSE "out"]

LEMMA InsideIsHolding == AdmissionSlots!Inside = SlotHolders
  BY DEF AdmissionSlots!Inside, SlotHolders

\* Slots counts with its own instance of the library's Cardinality.
LEMMA SameCount ==
    AdmissionSlots!Cardinality(AdmissionSlots!Inside) = Cardinality(SlotHolders)
  BY InsideIsHolding DEF AdmissionSlots!Cardinality, Cardinality

LEMMA InitRefines == AdmissionInit => AdmissionSlots!Init
  BY DEF AdmissionInit, AdmissionSlots!Init, SlotHolders

LEMMA NextRefines ==
    Inv /\ [AdmissionNext]_admissionVars => [AdmissionSlots!Next]_Turn
  <1> SUFFICES ASSUME Inv, [AdmissionNext]_admissionVars PROVE [AdmissionSlots!Next]_Turn
    OBVIOUS
  <1>a. /\ AdmissionTypeOK /\ slots = Cardinality(SlotHolders)
        /\ slots \in 0 .. MaxInflight
    BY DEF Inv, AdmissionTypeOK, Accounts
  <1>1. CASE UNCHANGED admissionVars  BY <1>1 DEF admissionVars, Turn, SlotHolders
  <1>2. ASSUME NEW r \in Requests, Admit(r) PROVE AdmissionSlots!Admit(r)
    <2>1. Goes(r, "arrives", "admitted") /\ slots < MaxInflight
      BY <1>2 DEF Admit, SlotFree
    <2>2. Turn[r] = "out" /\ Turn' = [Turn EXCEPT ![r] = "in"]
      BY <2>1, <1>a, Moves DEF Turn, SlotHolders, RequestSteps
    <2> QED  BY <2>1, <2>2, <1>a, SameCount DEF AdmissionSlots!Admit, Turn
  <1>3. ASSUME NEW r \in Requests, Refuse(r) PROVE AdmissionSlots!Refuse(r)
    <2>1. Goes(r, "arrives", "refused") /\ slots = MaxInflight
      BY <1>3, <1>a, AdmissionAssumption DEF Refuse, SlotFree
    <2>2. Turn[r] = "out" /\ Turn' = [Turn EXCEPT ![r] = "refused"]
      BY <2>1, <1>a, Moves DEF Turn, SlotHolders, RequestSteps
    <2> QED  BY <2>1, <2>2, <1>a, SameCount DEF AdmissionSlots!Refuse, Turn
  <1>4. ASSUME NEW r \in Requests, Free(r) \/ Goes(r, "refused", "arrives")
        PROVE AdmissionSlots!Leave(r)
    <2>1. Goes(r, "uncounted", "answers") \/ Goes(r, "refused", "arrives")
      BY <1>4 DEF Free
    <2>2. Turn[r] \in {"in", "refused"} /\ Turn' = [Turn EXCEPT ![r] = "out"]
      BY <2>1, <1>a, Moves DEF Turn, SlotHolders, RequestSteps
    <2> QED  BY <2>2 DEF AdmissionSlots!Leave, Turn
  <1>5. ASSUME NEW r \in Requests,
               \/ Count(r) \/ QueryReturns(r) \/ QueryPanics(r) \/ Uncount(r)
               \/ Goes(r, "answers", "arrives")
        PROVE UNCHANGED Turn
    <2>1. \/ Goes(r, "admitted", "query") \/ Goes(r, "query", "releases")
          \/ Goes(r, "query", "panicked") \/ Goes(r, "releases", "uncounted")
          \/ Goes(r, "answers", "arrives")
      BY <1>5 DEF Count, QueryReturns, QueryPanics, Uncount
    <2> QED  BY <2>1, <1>a, Moves DEF Turn, SlotHolders, RequestSteps
  <1>6. ASSUME NEW r \in Requests, Answer(r)
        PROVE AdmissionSlots!Leave(r) \/ UNCHANGED Turn
    BY <1>4, <1>5, <1>6 DEF Answer
  <1> QED
    BY <1>1, <1>2, <1>3, <1>4, <1>5, <1>6 DEF AdmissionNext, AdmissionSlots!Next

\* The semaphore implements the control: a request is let in while fewer than
\* MaxInflight are inside, and refused only when MaxInflight are.
THEOREM ImplementsSlots == AdmissionSpec => AdmissionRefinesSlots
  <1>1. AdmissionSpec => []Inv  BY InitInv, NextInv, PTL DEF AdmissionSpec
  <1> QED
    BY <1>1, InitRefines, NextRefines, PTL
    DEF AdmissionSpec, AdmissionRefinesSlots, AdmissionSlots!Spec, Turn

-----------------------------------------------------------------------------
(* The cap on connections. *)

\* Who may still call Close, and on what: a closer that has begun found the
\* connection accepted and closed its descriptor first.
ClosersOwn ==
    /\ \A c \in Conns, k \in Closers :
         closer[c][k] # "none" => conn[c] = "accepted" /\ c \notin socket
    /\ \A c \in once : conn[c] = "accepted" /\ c \notin socket

ConnInv ==
    /\ ConnTypeOK /\ ClosersOwn
    /\ taken = Cardinality(ConnHolders)
    /\ socket \subseteq ConnHolders \cup InHand
    /\ \A c, d \in InHand : c = d

\* A set of connections is finite, and counts one more or one less with one of them.
LEMMA ConnSets ==
    ASSUME NEW S \in SUBSET Conns
    PROVE  /\ IsFiniteSet(S) /\ Cardinality(S) \in Nat
           /\ \A c \in Conns \ S : Cardinality(S \cup {c}) = Cardinality(S) + 1
           /\ \A c \in S : Cardinality(S \ {c}) = Cardinality(S) - 1
  <1>1. IsFiniteSet(S)  BY FS_Subset, ConnLimitAssumption
  <1> QED  BY <1>1, FS_CardinalityType, FS_AddElement, FS_RemoveElement

LEMMA ConnInitInv == ConnInit => ConnInv
  <1> SUFFICES ASSUME ConnInit PROVE ConnInv  OBVIOUS
  <1>1. ConnHolders = {} /\ InHand = {}  BY DEF ConnInit, ConnHolders, InHand
  <1>2. ConnTypeOK
    BY ConnLimitAssumption DEF ConnInit, ConnTypeOK, NoCloser, Stages
  <1>3. ClosersOwn  BY DEF ConnInit, ClosersOwn, NoCloser
  <1> QED  BY <1>1, <1>2, <1>3, FS_EmptySet DEF ConnInit, ConnInv

LEMMA ConnNextInv == ConnInv /\ [ConnNext]_connVars => ConnInv'
  <1> SUFFICES ASSUME ConnInv, [ConnNext]_connVars PROVE ConnInv'  OBVIOUS
  <1> USE ConnLimitAssumption
  <1>a. /\ ConnTypeOK /\ ClosersOwn /\ socket \subseteq ConnHolders \cup InHand
        /\ \A c, d \in InHand : c = d
        /\ taken = Cardinality(ConnHolders) /\ taken \in 0 .. MaxConns
        /\ ConnHolders \in SUBSET Conns
    BY DEF ConnInv, ConnTypeOK, ConnHolders
  <1>1. CASE UNCHANGED connVars
    BY <1>1, <1>a DEF connVars, ConnInv, ConnTypeOK, ClosersOwn, ConnHolders, InHand
  <1>2. ASSUME NEW c \in Conns, AcceptFd(c) PROVE ConnInv'
    <2>1. ConnHolders' = ConnHolders /\ InHand' = {c}
      BY <1>2, <1>a DEF AcceptFd, ConnTypeOK, ConnHolders, InHand
    <2>2. ConnTypeOK'  BY <1>2, <1>a DEF AcceptFd, ConnTypeOK, Stages
    <2>3. ClosersOwn'  BY <1>2, <1>a DEF AcceptFd, ConnTypeOK, ClosersOwn
    <2>4. socket' \subseteq ConnHolders' \cup InHand'
      BY <2>1, <1>2, <1>a DEF AcceptFd
    <2> QED  BY <2>1, <2>2, <2>3, <2>4, <1>2, <1>a DEF ConnInv, AcceptFd
  <1>7. ASSUME NEW c \in Conns, TakeSlot(c) PROVE ConnInv'
    <2>1. c \notin once /\ c \notin ConnHolders /\ c \in InHand
      BY <1>7, <1>a DEF TakeSlot, ClosersOwn, ConnHolders, InHand
    <2>2. ConnHolders' = ConnHolders \cup {c} /\ InHand' = InHand \ {c}
      BY <2>1, <1>7, <1>a DEF TakeSlot, ConnTypeOK, ConnHolders, InHand
    <2>3. taken' = Cardinality(ConnHolders')
      BY <2>1, <2>2, <1>7, <1>a, ConnSets DEF TakeSlot
    <2>4. ConnTypeOK'  BY <1>7, <1>a DEF TakeSlot, ConnRoom, ConnTypeOK, Stages
    <2>5. ClosersOwn'
      BY <1>7, <1>a DEF TakeSlot, ConnTypeOK, ClosersOwn
    <2> QED  BY <2>2, <2>3, <2>4, <2>5, <1>7, <1>a DEF ConnInv, TakeSlot
  <1>3. ASSUME NEW c \in Conns, Shed(c) PROVE ConnInv'
    <2>1. ConnHolders' = ConnHolders /\ InHand' = InHand
      BY <1>3, <1>a DEF Shed, ConnTypeOK, ConnHolders, InHand
    <2>2. ConnTypeOK' /\ ClosersOwn'
      BY <1>3, <1>a DEF Shed, ConnTypeOK, ClosersOwn, Stages
    <2> QED  BY <2>1, <2>2, <1>3, <1>a DEF ConnInv, Shed
  <1>8. ASSUME NEW c \in Conns, CloseShed(c) PROVE ConnInv'
    <2>1. ConnHolders' = ConnHolders /\ InHand' = InHand \ {c}
      BY <1>8, <1>a DEF CloseShed, ConnTypeOK, ConnHolders, InHand
    <2>2. ConnTypeOK' /\ ClosersOwn'
      BY <1>8, <1>a DEF CloseShed, ConnTypeOK, ClosersOwn, Stages
    <2> QED  BY <2>1, <2>2, <1>8, <1>a DEF ConnInv, CloseShed
  <1>4. ASSUME NEW c \in Conns, NEW k \in Closers, CloseSocket(c, k) PROVE ConnInv'
    <2>1. ConnHolders' = ConnHolders /\ InHand' = InHand
      BY <1>4 DEF CloseSocket, ConnHolders, InHand
    <2>2. ConnTypeOK'  BY <1>4, <1>a DEF CloseSocket, ConnTypeOK
    <2>3. ClosersOwn'  BY <1>4, <1>a DEF CloseSocket, ConnTypeOK, ClosersOwn
    <2> QED  BY <2>1, <2>2, <2>3, <1>4, <1>a DEF ConnInv, CloseSocket
  <1>5. ASSUME NEW c \in Conns, NEW k \in Closers, Release(c, k) PROVE ConnInv'
    <2>1. conn[c] = "accepted" /\ c \notin socket /\ conn' = conn /\ socket' = socket
          /\ once' = once \cup {c} /\ InHand' = InHand /\ c \notin InHand
      BY <1>5, <1>a DEF Release, ClosersOwn, InHand
    <2>2. closer' \in [Conns -> [Closers -> {"none", "releases", "returned"}]]
      BY <1>5, <1>a DEF Release, ConnTypeOK
    <2>3. ClosersOwn'
      BY <2>1, <1>5, <1>a DEF Release, ConnTypeOK, ClosersOwn
    <2>4. CASE c \notin once
      <3>1. c \in ConnHolders /\ ConnHolders' = ConnHolders \ {c}
        BY <2>1, <2>4 DEF ConnHolders
      <3>2. taken' = taken - 1 /\ taken > 0  BY <2>4, <1>5 DEF Release
      <3>3. taken' = Cardinality(ConnHolders') /\ taken' \in 0 .. MaxConns
        BY <3>1, <3>2, <1>a, ConnSets
      <3> QED  BY <3>1, <3>3, <2>1, <2>2, <2>3, <1>a DEF ConnInv, ConnTypeOK
    <2>5. CASE c \in once
      <3>1. ConnHolders' = ConnHolders  BY <2>1, <2>5 DEF ConnHolders
      <3>2. taken' = taken  BY <2>5, <1>5 DEF Release
      <3> QED  BY <3>1, <3>2, <2>1, <2>2, <2>3, <1>a DEF ConnInv, ConnTypeOK
    <2> QED  BY <2>4, <2>5
  <1>6. ASSUME NEW c \in Conns, Dial(c) PROVE ConnInv'
    <2>1. c \notin ConnHolders /\ c \notin socket
      BY <1>6, <1>a DEF Dial, ConnHolders, InHand
    <2>2. ConnHolders' = ConnHolders /\ InHand' = InHand
      BY <2>1, <1>6, <1>a DEF Dial, ConnTypeOK, ConnHolders, InHand
    <2>3. ConnTypeOK'  BY <1>6, <1>a DEF Dial, NoCloser, ConnTypeOK, Stages
    <2>4. ClosersOwn'  BY <1>6, <1>a DEF Dial, NoCloser, ConnTypeOK, ClosersOwn
    <2> QED  BY <2>2, <2>3, <2>4, <1>6, <1>a DEF ConnInv, Dial
  <1> QED  BY <1>1, <1>2, <1>3, <1>4, <1>5, <1>6, <1>7, <1>8 DEF ConnNext

\* limitListener: however a connection is closed, and how often, the channel holds one
\* slot per connection not given back, and the process at most one descriptor more than
\* MaxConns: the one the Accept loop has in its hand.
THEOREM DescriptorsAlwaysBounded == ConnSpec => []DescriptorsBounded
  <1>1. ASSUME ConnInv PROVE DescriptorsBounded
    <2>1. ConnHolders \in SUBSET Conns /\ InHand \in SUBSET Conns
      BY DEF ConnHolders, InHand
    <2>2. /\ socket \subseteq ConnHolders \cup InHand
          /\ \A c, d \in InHand : c = d
          /\ Cardinality(ConnHolders) = taken /\ taken \in 0 .. MaxConns
      BY <1>1 DEF ConnInv, ConnTypeOK
    <2>5. MaxConns \in Nat  BY ConnLimitAssumption
    <2>6. Cardinality(ConnHolders) \in Nat /\ Cardinality(ConnHolders) <= MaxConns
      BY <2>2, <2>5
    <2>3. Cardinality(ConnHolders \cup InHand) <= MaxConns + 1
      <3>1. CASE InHand \subseteq ConnHolders
        <4>1. ConnHolders \cup InHand = ConnHolders  BY <3>1
        <4> QED  BY <4>1, <2>5, <2>6
      <3>2. CASE ~(InHand \subseteq ConnHolders)
        <4>1. PICK c \in InHand : c \notin ConnHolders  BY <3>2
        <4>2. ConnHolders \cup InHand = ConnHolders \cup {c}  BY <4>1, <2>2
        <4>3. c \in Conns \ ConnHolders  BY <4>1, <2>1
        <4>4. Cardinality(ConnHolders \cup {c}) = Cardinality(ConnHolders) + 1
          BY <4>3, <2>1, ConnSets
        <4> QED  BY <4>2, <4>4, <2>5, <2>6
      <3> QED  BY <3>1, <3>2
    <2>4. Cardinality(socket) <= Cardinality(ConnHolders \cup InHand)
          /\ Cardinality(socket) \in Nat /\ Cardinality(ConnHolders \cup InHand) \in Nat
      <3>1. ConnHolders \cup InHand \in SUBSET Conns /\ socket \in SUBSET Conns
        BY <2>1, <2>2
      <3>2. IsFiniteSet(ConnHolders \cup InHand)  BY <3>1, ConnSets
      <3> QED  BY <3>1, <3>2, <2>2, FS_Subset, ConnSets
    <2>7. Cardinality(socket) <= MaxConns + 1  BY <2>3, <2>4, <2>5
    <2> QED  BY <2>2, <2>7 DEF DescriptorsBounded
  <1> QED  BY ConnInitInv, ConnNextInv, <1>1, PTL DEF ConnSpec

ConnTurn == [c \in Conns |-> IF c \in ConnHolders THEN "in"
                             ELSE IF conn[c] \in {"shedding", "shed"}
                             THEN "refused"
                             ELSE "out"]

LEMMA ConnSameCount ==
    ConnSlots!Cardinality(ConnSlots!Inside) = Cardinality(ConnHolders)
  <1>1. ConnSlots!Inside = ConnHolders  BY DEF ConnSlots!Inside, ConnHolders
  <1> QED  BY <1>1 DEF ConnSlots!Cardinality, Cardinality

LEMMA ConnInitRefines == ConnInit => ConnSlots!Init
  BY DEF ConnInit, ConnSlots!Init, ConnHolders

LEMMA ConnNextRefines ==
    ConnInv /\ [ConnNext]_connVars => [ConnSlots!Next]_ConnTurn
  <1> SUFFICES ASSUME ConnInv, [ConnNext]_connVars PROVE [ConnSlots!Next]_ConnTurn
    OBVIOUS
  <1>a. /\ ConnTypeOK /\ ClosersOwn /\ taken = Cardinality(ConnHolders)
        /\ taken \in 0 .. MaxConns
    BY DEF ConnInv, ConnTypeOK
  <1>1. CASE UNCHANGED connVars  BY <1>1 DEF connVars, ConnTurn, ConnHolders
  <1>2. ASSUME NEW c \in Conns, TakeSlot(c) PROVE ConnSlots!Admit(c)
    <2>1. conn[c] = "pending" /\ taken < MaxConns /\ c \notin once
      BY <1>2, <1>a DEF TakeSlot, ConnRoom, ClosersOwn
    <2>2. ConnTurn[c] = "out" /\ ConnTurn' = [ConnTurn EXCEPT ![c] = "in"]
      BY <2>1, <1>2, <1>a DEF TakeSlot, ConnTypeOK, ConnTurn, ConnHolders
    <2> QED  BY <2>1, <2>2, <1>a, ConnSameCount DEF ConnSlots!Admit, ConnTurn
  <1>3. ASSUME NEW c \in Conns, Shed(c) PROVE ConnSlots!Refuse(c)
    <2>1. conn[c] = "pending" /\ taken = MaxConns
      BY <1>3, <1>a, ConnLimitAssumption DEF Shed, ConnRoom
    <2>2. ConnTurn[c] = "out" /\ ConnTurn' = [ConnTurn EXCEPT ![c] = "refused"]
      BY <2>1, <1>3, <1>a DEF Shed, ConnTypeOK, ConnTurn, ConnHolders
    <2> QED  BY <2>1, <2>2, <1>a, ConnSameCount DEF ConnSlots!Refuse, ConnTurn
  <1>7. ASSUME NEW c \in Conns, AcceptFd(c) \/ CloseShed(c) PROVE UNCHANGED ConnTurn
    BY <1>7, <1>a DEF AcceptFd, CloseShed, ConnTypeOK, ConnTurn, ConnHolders
  <1>4. ASSUME NEW c \in Conns, NEW k \in Closers, Release(c, k)
        PROVE  ConnSlots!Leave(c) \/ UNCHANGED ConnTurn
    <2>1. conn[c] = "accepted" /\ conn' = conn /\ once' = once \cup {c}
      BY <1>4, <1>a DEF Release, ClosersOwn
    <2>2. CASE c \in once  BY <2>1, <2>2 DEF ConnTurn, ConnHolders
    <2>3. CASE c \notin once
      <3>1. ConnTurn[c] = "in" /\ ConnTurn' = [ConnTurn EXCEPT ![c] = "out"]
        BY <2>1, <2>3 DEF ConnTurn, ConnHolders
      <3> QED  BY <3>1 DEF ConnSlots!Leave, ConnTurn
    <2> QED  BY <2>2, <2>3
  <1>5. ASSUME NEW c \in Conns, NEW k \in Closers, CloseSocket(c, k)
        PROVE  UNCHANGED ConnTurn
    BY <1>5 DEF CloseSocket, ConnTurn, ConnHolders
  <1>6. ASSUME NEW c \in Conns, Dial(c)
        PROVE  ConnSlots!Leave(c) \/ UNCHANGED ConnTurn
    <2>1. CASE conn[c] = "shed"
      <3>1. ConnTurn[c] = "refused" /\ ConnTurn' = [ConnTurn EXCEPT ![c] = "out"]
        BY <2>1, <1>6, <1>a DEF Dial, ConnTypeOK, ConnTurn, ConnHolders
      <3> QED  BY <3>1 DEF ConnSlots!Leave, ConnTurn
    <2>2. CASE conn[c] = "accepted" /\ c \in once
      BY <2>2, <1>6, <1>a DEF Dial, ConnTypeOK, ConnTurn, ConnHolders
    <2> QED  BY <2>1, <2>2, <1>6 DEF Dial
  <1> QED
    BY <1>1, <1>2, <1>3, <1>4, <1>5, <1>6, <1>7 DEF ConnNext, ConnSlots!Next

\* The cap implements the control: a connection is accepted while fewer than MaxConns
\* hold a slot, and turned away only when MaxConns do.
THEOREM ConnImplementsSlots == ConnSpec => ConnRefinesSlots
  <1>1. ConnSpec => []ConnInv  BY ConnInitInv, ConnNextInv, PTL DEF ConnSpec
  <1> QED
    BY <1>1, ConnInitRefines, ConnNextRefines, PTL
    DEF ConnSpec, ConnRefinesSlots, ConnSlots!Spec, ConnTurn

-----------------------------------------------------------------------------

\* What was allowed since the mark, in fractions, and what an interval refills.
Spent == Unit * (allowed - mark.allowed)
Refilled(ticks) == Refill * ticks

\* Times that were read are at most Stall old, and what a bucket holds was read.
TimesRead ==
    /\ now \in Nat /\ mark.at \in Nat /\ mark.at <= now
    /\ allowed \in Nat /\ mark.allowed \in Nat /\ mark.allowed <= allowed
    /\ read \in [Callers -> Nat \cup {None}]
    /\ \A r \in Callers : read[r] # None =>
          read[r] \in Nat /\ read[r] <= now /\ now - read[r] <= Stall
    /\ sweep # None => sweep \in Nat /\ sweep <= now
    /\ bucket # None =>
          /\ bucket.tokens \in 0 .. Burst
          /\ bucket.lastFill \in Nat /\ bucket.lastFill <= now
          /\ bucket.lastSeen \in Nat /\ bucket.lastFill - bucket.lastSeen <= Stall

\* The tokens left and those spent since the mark came out of one burst and the refill
\* up to the last one; a bucket that is gone was paid for by the refill alone.
Paid ==
    /\ bucket # None =>
          \/ allowed = mark.allowed
          \/ /\ bucket.lastFill - mark.at + Stall >= 0
             /\ Spent + bucket.tokens <= Burst + Refilled(bucket.lastFill - mark.at + Stall)
    /\ bucket = None => Spent <= Refilled(now - mark.at)

BucketInv == TimesRead /\ Paid

\* The arithmetic of the refill.
LEMMA RefillAdds ==
    ASSUME NEW a \in Int, NEW b \in Int
    PROVE  /\ Refilled(a) \in Int /\ Refilled(a + b) = Refilled(a) + Refilled(b)
           /\ a <= b => Refilled(a) <= Refilled(b)
           /\ a >= 0 => Refilled(a) >= 0
  <1>1. Refill \in Nat /\ Refill > 0  BY BucketAssumption
  <1>2. Refill * a \in Int /\ Refill * b \in Int /\ Refill * (a + b) = Refill * a + Refill * b
    BY <1>1
  <1>3. a <= b => Refill * a <= Refill * b  BY <1>1
  <1>4. a >= 0 => Refill * a >= 0  BY <1>1
  <1> QED  BY <1>2, <1>3, <1>4 DEF Refilled

LEMMA SpendsOne ==
    ASSUME NEW a \in Int, NEW b \in Int
    PROVE  /\ Unit \in Nat /\ Unit > 0 /\ Unit * (a - b) \in Int
           /\ Unit * ((a + 1) - b) = Unit * (a - b) + Unit /\ (a = b => Unit * (a - b) = 0)
  <1>1. Unit \in Nat /\ Unit > 0  BY BucketAssumption
  <1> DEFINE d == a - b
  <1>2. d \in Int /\ (a + 1) - b = d + 1 /\ (a = b => d = 0)  OBVIOUS
  <1>3. Unit * d \in Int /\ Unit * (d + 1) = Unit * d + Unit /\ Unit * 0 = 0  BY <1>1, <1>2
  <1> QED  BY <1>1, <1>2, <1>3

\* A bucket is never the mark of its absence.
LEMMA NoneIsNoBucket ==
    ASSUME NEW a \in Int, NEW b \in Int, NEW c \in Int
    PROVE  [tokens |-> a, lastFill |-> b, lastSeen |-> c] # None
  <1> QED  BY BucketAssumption

\* A refill up to t: nothing above the burst, nothing above what the time is worth.
LEMMA FilledFacts ==
    ASSUME BucketInv, NEW r \in Callers, read[r] # None
    PROVE  /\ Filled(read[r]).tokens \in 0 .. Burst
           /\ Filled(read[r]).lastFill \in Nat
           /\ Filled(read[r]).lastFill <= now
           /\ now - Filled(read[r]).lastFill <= Stall
           /\ bucket # None =>
                 Filled(read[r]).tokens
                    <= bucket.tokens + Refilled(Filled(read[r]).lastFill - bucket.lastFill)
           /\ bucket # None => bucket.lastFill <= Filled(read[r]).lastFill
  <1> DEFINE t == read[r]
             f == Filled(read[r])
  <1>1. t \in Nat /\ t <= now /\ now - t <= Stall /\ now \in Nat
    BY DEF BucketInv, TimesRead
  <1>2. Burst \in Nat /\ Stall \in Nat  BY BucketAssumption
  <1>3. CASE bucket = None
    <2>1. f.tokens = Burst /\ f.lastFill = t  BY <1>3 DEF Filled
    <2> QED  BY <2>1, <1>1, <1>2, <1>3
  <1>4. CASE bucket # None
    <2> DEFINE L == bucket.lastFill
    <2>1. bucket.tokens \in 0 .. Burst /\ L \in Nat /\ L <= now
      BY <1>4 DEF BucketInv, TimesRead
    <2>2. CASE t > L
      <3> DEFINE x == Refill * (t - L)
      <3>1. f.tokens = Fewer(Burst, bucket.tokens + x) /\ f.lastFill = t
        BY <1>4, <2>2 DEF Filled
      <3>2. Refilled(t - L) = x /\ x \in Int /\ x >= 0
        <4>1. t - L \in Int /\ t - L >= 0  BY <1>1, <2>1, <2>2
        <4>2. Refilled(t - L) \in Int /\ Refilled(t - L) >= 0  BY <4>1, RefillAdds
        <4> QED  BY <4>2 DEF Refilled
      <3>3. f.tokens \in 0 .. Burst /\ f.tokens <= bucket.tokens + x
        <4> HIDE DEF x
        <4> QED  BY <3>1, <3>2, <2>1, <1>2 DEF Fewer
      <3> QED  BY <3>1, <3>2, <3>3, <1>1, <1>4, <2>1, <2>2
    <2>3. CASE ~(t > L)
      <3>1. f.tokens = bucket.tokens /\ f.lastFill = L  BY <1>4, <2>3 DEF Filled
      <3>2. Refilled(L - L) \in Int /\ Refilled(L - L) >= 0
        <4>1. L - L \in Int /\ L - L >= 0  BY <2>1
        <4> QED  BY <4>1, RefillAdds
      <3> QED  BY <3>1, <3>2, <1>1, <1>2, <1>4, <2>1, <2>3
    <2> QED  BY <2>2, <2>3
  <1> QED  BY <1>3, <1>4

\* The window's promise, of the account.
LEMMA PaidBounds ==
    ASSUME BucketInv
    PROVE  WindowBound
  <1> DEFINE d == now - mark.at
  <1>1. d \in Int /\ d >= 0 /\ now \in Nat /\ mark.at \in Nat /\ allowed \in Nat
        /\ mark.allowed \in Nat
    BY DEF BucketInv, TimesRead
  <1>2. Burst \in Nat /\ Stall \in Nat  BY BucketAssumption
  <1>3. Refilled(d + Stall) \in Int /\ Refilled(d + Stall) >= 0 /\ Refilled(d) <= Refilled(d + Stall)
        /\ Refilled(d) \in Int
    <2>1. d + Stall \in Int /\ d + Stall >= 0 /\ d <= d + Stall  BY <1>1, <1>2
    <2> HIDE DEF d
    <2> QED  BY <2>1, <1>1, RefillAdds
  <1>4. Spent \in Int  BY <1>1, SpendsOne DEF Spent
  <1>5. CASE bucket = None
    <2>1. Spent <= Refilled(d)  BY <1>5 DEF BucketInv, Paid
    <2> QED  BY <2>1, <1>2, <1>3, <1>4 DEF WindowBound, Spent, Refilled
  <1>6. CASE bucket # None /\ allowed = mark.allowed
    <2>1. Spent = 0  
      <3>1. allowed \in Int /\ mark.allowed \in Int  BY <1>1
      <3>2. Unit * (allowed - mark.allowed) = 0  BY <1>6, <3>1, SpendsOne
      <3> QED  BY <3>2 DEF Spent
    <2> QED  BY <2>1, <1>2, <1>3 DEF WindowBound, Spent, Refilled
  <1>7. CASE bucket # None /\ allowed # mark.allowed
    <2> DEFINE e == bucket.lastFill - mark.at + Stall
    <2>1. bucket.lastFill \in Nat /\ bucket.lastFill <= now /\ bucket.tokens \in 0 .. Burst
      BY <1>7 DEF BucketInv, TimesRead
    <2>2. Spent + bucket.tokens <= Burst + Refilled(e)  BY <1>7 DEF BucketInv, Paid
    <2>3. e \in Int /\ e <= d + Stall  BY <2>1, <1>1, <1>2
    <2>4. Refilled(e) \in Int /\ Refilled(e) <= Refilled(d + Stall)

      <3>1. d + Stall \in Int  BY <1>1, <1>2
      <3> HIDE DEF d, e
      <3> QED  BY RefillAdds, <2>3, <3>1
    <2>5. Spent <= Burst + Refilled(d + Stall)
      <3> HIDE DEF e, d
      <3> QED  BY <2>1, <2>2, <2>4, <1>2, <1>3, <1>4
    <2> QED  BY <2>5 DEF WindowBound, Spent, Refilled
  <1> QED  BY <1>5, <1>6, <1>7

\* An Allow: the account pays for the token it takes.
LEMMA AllowPays ==
    ASSUME BucketInv, NEW r \in Callers, Allow(r)
    PROVE  BucketInv'
  <1> DEFINE t == read[r]
             f == Filled(t)
             m == mark.at
  <1>1. /\ now \in Nat /\ m \in Nat /\ m <= now /\ t \in Nat /\ t <= now /\ now - t <= Stall
        /\ allowed \in Nat /\ mark.allowed \in Nat /\ mark.allowed <= allowed
    BY DEF BucketInv, TimesRead, Allow
  <1>2. Burst \in Nat /\ Stall \in Nat /\ Unit \in Nat /\ Unit > 0  BY BucketAssumption
  <1>3. /\ f.tokens \in 0 .. Burst /\ f.lastFill \in Nat /\ f.lastFill <= now
        /\ now - f.lastFill <= Stall
        /\ bucket # None => /\ f.tokens <= bucket.tokens + Refilled(f.lastFill - bucket.lastFill)
                            /\ bucket.lastFill <= f.lastFill
    BY FilledFacts DEF Allow
  <1>4. /\ f.tokens >= Unit
        /\ bucket' = [tokens |-> f.tokens - Unit, lastFill |-> f.lastFill, lastSeen |-> t]
        /\ allowed' = allowed + 1 /\ read' = [read EXCEPT ![r] = None]
        /\ now' = now /\ sweep' = sweep /\ mark' = mark
    BY DEF Allow, history
  <1>5. bucket'.tokens = f.tokens - Unit /\ bucket'.lastFill = f.lastFill /\ bucket'.lastSeen = t
    BY <1>4
  <1>6. TimesRead'
    <2>1. now' \in Nat /\ mark'.at \in Nat /\ mark'.at <= now' /\ allowed' \in Nat
          /\ mark'.allowed \in Nat /\ mark'.allowed <= allowed'
      BY <1>1, <1>4
    <2>2. \A q \in Callers : read'[q] # None =>
              read'[q] \in Nat /\ read'[q] <= now' /\ now' - read'[q] <= Stall
      <3> TAKE q \in Callers
      <3> HAVE read'[q] # None
      <3>1. q # r => read'[q] = read[q]  BY <1>4
      <3>2. q = r => read'[q] = None \/ read'[q] = read[q]  BY <1>4
      <3> QED  BY <3>1, <3>2, <1>4 DEF BucketInv, TimesRead
    <2>3. sweep' # None => sweep' \in Nat /\ sweep' <= now'
      BY <1>4 DEF BucketInv, TimesRead
    <2>4. /\ bucket'.tokens \in 0 .. Burst
          /\ bucket'.lastFill \in Nat /\ bucket'.lastFill <= now'
          /\ bucket'.lastSeen \in Nat /\ bucket'.lastFill - bucket'.lastSeen <= Stall
      <3> HIDE DEF f, t, m
      <3> QED  BY <1>1, <1>2, <1>3, <1>4, <1>5
    <2>5. read' \in [Callers -> Nat \cup {None}]
      BY <1>4 DEF BucketInv, TimesRead
    <2> QED  BY <2>1, <2>2, <2>3, <2>4, <2>5 DEF TimesRead
  <1>7. bucket' # None
    <2>1. f.tokens - Unit \in Int /\ f.lastFill \in Int /\ t \in Int
      <3> HIDE DEF f, t
      <3> QED  BY <1>1, <1>2, <1>3
    <2> HIDE DEF f, t
    <2> QED  BY <2>1, <1>4, NoneIsNoBucket
  <1>8. Unit * (allowed' - mark'.allowed) = Spent + Unit /\ Spent \in Int
    <2>1. allowed \in Int /\ mark.allowed \in Int  BY <1>1
    <2>2. Unit * ((allowed + 1) - mark.allowed) = Unit * (allowed - mark.allowed) + Unit
          /\ Unit * (allowed - mark.allowed) \in Int
      BY <2>1, SpendsOne
    <2>3. Unit * (allowed' - mark'.allowed) = Unit * ((allowed + 1) - mark.allowed)
      <3>1. allowed' = allowed + 1 /\ mark' = mark  BY <1>4
      <3> QED  BY <3>1, Zenon
    <2> QED  BY <2>2, <2>3 DEF Spent
  <1> DEFINE e == f.lastFill - m + Stall
  <1>9. e \in Int /\ e >= 0 /\ e >= now - m /\ Refilled(e) \in Int /\ Refilled(e) >= 0
    <2>1. e \in Int /\ e >= 0 /\ e >= now - m
      <3> HIDE DEF f, t, m
      <3> QED  BY <1>1, <1>2, <1>3
    <2> HIDE DEF e
    <2> QED  BY <2>1, RefillAdds
  <1>10. Spent + f.tokens <= Burst + Refilled(e)
    <2>1. CASE bucket = None
      <3>1. Spent <= Refilled(now - m)  BY <2>1 DEF BucketInv, Paid
      <3>2. now - m \in Int /\ Refilled(now - m) \in Int /\ Refilled(now - m) <= Refilled(e)
        <4>1. now - m \in Int  BY <1>1
        <4> HIDE DEF e, m
        <4> QED  BY <4>1, <1>9, RefillAdds
      <3> HIDE DEF e, f, m
      <3> QED  BY <3>1, <3>2, <1>2, <1>3, <1>8, <1>9
    <2>2. CASE bucket # None /\ allowed = mark.allowed
      <3>1. Spent = 0
        <4>1. Unit * (allowed - mark.allowed) = 0  BY <2>2, <1>1, SpendsOne
        <4> QED  BY <4>1 DEF Spent
      <3> HIDE DEF e, f, m
      <3> QED  BY <3>1, <1>2, <1>3, <1>9
    <2>3. CASE bucket # None /\ allowed # mark.allowed
      <3> DEFINE L == bucket.lastFill
                 u == L - m + Stall
                 g == f.lastFill - L
      <3>1. Spent + bucket.tokens <= Burst + Refilled(u)
        BY <2>3 DEF BucketInv, Paid
      <3>2. bucket.tokens \in 0 .. Burst /\ L \in Nat
        BY <2>3 DEF BucketInv, TimesRead
      <3>3. f.tokens <= bucket.tokens + Refilled(g)  BY <1>3, <2>3
      <3>4. u \in Int /\ g \in Int /\ e = u + g
        <4> HIDE DEF f, m, L
        <4> QED  BY <1>1, <1>2, <1>3, <3>2
      <3>5. Refilled(u) \in Int /\ Refilled(g) \in Int /\ Refilled(e) = Refilled(u) + Refilled(g)
        <4> HIDE DEF e, u, g
        <4> QED  BY <3>4, RefillAdds
      <3> HIDE DEF e, f, m, u, g
      <3> QED  BY <3>1, <3>2, <3>3, <3>5, <1>2, <1>3, <1>8
    <2> QED  BY <2>1, <2>2, <2>3
  <1>11. Paid'
    <2>1. bucket'.lastFill - mark'.at + Stall = e  BY <1>4, <1>5
    <2>2. Unit * (allowed' - mark'.allowed) + bucket'.tokens <= Burst + Refilled(e)
      <3> HIDE DEF e, f
      <3> QED  BY <1>5, <1>8, <1>10, <1>2, <1>3, <1>9
    <2>3. Refill * e = Refilled(e)  BY DEF Refilled
    <2> HIDE DEF e
    <2> QED  BY <2>1, <2>2, <2>3, <1>7, <1>9 DEF Paid, Spent, Refilled
  <1> QED  BY <1>6, <1>11 DEF BucketInv

\* A Deny: what it refills was already owed.
LEMMA DenyPays ==
    ASSUME BucketInv, NEW r \in Callers, Deny(r)
    PROVE  BucketInv'
  <1> DEFINE t == read[r]
             f == Filled(t)
             m == mark.at
  <1>1. /\ now \in Nat /\ m \in Nat /\ m <= now /\ t \in Nat /\ t <= now /\ now - t <= Stall
        /\ allowed \in Nat /\ mark.allowed \in Nat /\ mark.allowed <= allowed
    BY DEF BucketInv, TimesRead, Deny
  <1>2. Burst \in Nat /\ Stall \in Nat  BY BucketAssumption
  <1>3. /\ f.tokens \in 0 .. Burst /\ f.lastFill \in Nat /\ f.lastFill <= now
        /\ now - f.lastFill <= Stall
        /\ bucket # None => /\ f.tokens <= bucket.tokens + Refilled(f.lastFill - bucket.lastFill)
                            /\ bucket.lastFill <= f.lastFill
    BY FilledFacts DEF Deny
  <1>4. /\ bucket' = [tokens |-> f.tokens, lastFill |-> f.lastFill, lastSeen |-> t]
        /\ allowed' = allowed /\ read' = [read EXCEPT ![r] = None]
        /\ now' = now /\ sweep' = sweep /\ mark' = mark
    BY DEF Deny
  <1>5. bucket'.tokens = f.tokens /\ bucket'.lastFill = f.lastFill /\ bucket'.lastSeen = t
    BY <1>4
  <1>6. TimesRead'
    <2>1. now' \in Nat /\ mark'.at \in Nat /\ mark'.at <= now' /\ allowed' \in Nat
          /\ mark'.allowed \in Nat /\ mark'.allowed <= allowed'
      BY <1>1, <1>4
    <2>2. \A q \in Callers : read'[q] # None =>
              read'[q] \in Nat /\ read'[q] <= now' /\ now' - read'[q] <= Stall
      <3> TAKE q \in Callers
      <3> HAVE read'[q] # None
      <3>1. q # r => read'[q] = read[q]  BY <1>4
      <3>2. q = r => read'[q] = None \/ read'[q] = read[q]  BY <1>4
      <3> QED  BY <3>1, <3>2, <1>4 DEF BucketInv, TimesRead
    <2>3. sweep' # None => sweep' \in Nat /\ sweep' <= now'
      BY <1>4 DEF BucketInv, TimesRead
    <2>4. /\ bucket'.tokens \in 0 .. Burst
          /\ bucket'.lastFill \in Nat /\ bucket'.lastFill <= now'
          /\ bucket'.lastSeen \in Nat /\ bucket'.lastFill - bucket'.lastSeen <= Stall
      <3> HIDE DEF f, t, m
      <3> QED  BY <1>1, <1>2, <1>3, <1>4, <1>5
    <2>5. read' \in [Callers -> Nat \cup {None}]
      BY <1>4 DEF BucketInv, TimesRead
    <2> QED  BY <2>1, <2>2, <2>3, <2>4, <2>5 DEF TimesRead
  <1>7. bucket' # None
    <2>1. f.tokens \in Int /\ f.lastFill \in Int /\ t \in Int
      <3> HIDE DEF f, t
      <3> QED  BY <1>1, <1>2, <1>3
    <2> HIDE DEF f, t
    <2> QED  BY <2>1, <1>4, NoneIsNoBucket
  <1>8. Spent' = Spent /\ Spent \in Int
    <2>1. Unit * (allowed - mark.allowed) \in Int  BY <1>1, SpendsOne
    <2> QED  BY <2>1, <1>4 DEF Spent
  <1> DEFINE e == f.lastFill - m + Stall
  <1>9. CASE allowed = mark.allowed
    <2>1. allowed' = mark'.allowed  BY <1>4, <1>9
    <2> QED  BY <2>1, <1>6, <1>7 DEF BucketInv, Paid
  <1>10. CASE allowed # mark.allowed
    <2>1. e \in Int /\ e >= 0 /\ e >= now - m /\ Refilled(e) \in Int
      <3>1. e \in Int /\ e >= 0 /\ e >= now - m
        <4> HIDE DEF f, t, m
        <4> QED  BY <1>1, <1>2, <1>3
      <3> HIDE DEF e
      <3> QED  BY <3>1, RefillAdds
    <2>2. Spent + f.tokens <= Burst + Refilled(e)
      <3>1. CASE bucket = None
        <4>1. Spent <= Refilled(now - m)  BY <3>1 DEF BucketInv, Paid
        <4>2. now - m \in Int /\ Refilled(now - m) \in Int /\ Refilled(now - m) <= Refilled(e)
          <5>1. now - m \in Int  BY <1>1
          <5> HIDE DEF e, m
          <5> QED  BY <5>1, <2>1, RefillAdds
        <4> HIDE DEF e, f, m
        <4> QED  BY <4>1, <4>2, <1>2, <1>3, <1>8, <2>1
      <3>2. CASE bucket # None
        <4> DEFINE L == bucket.lastFill
                   u == L - m + Stall
                   g == f.lastFill - L
        <4>1. Spent + bucket.tokens <= Burst + Refilled(u)
          BY <3>2, <1>10 DEF BucketInv, Paid
        <4>2. bucket.tokens \in 0 .. Burst /\ L \in Nat
          BY <3>2 DEF BucketInv, TimesRead
        <4>3. f.tokens <= bucket.tokens + Refilled(g)  BY <1>3, <3>2
        <4>4. u \in Int /\ g \in Int /\ e = u + g
          <5> HIDE DEF f, m, L
          <5> QED  BY <1>1, <1>2, <1>3, <4>2
        <4>5. Refilled(u) \in Int /\ Refilled(g) \in Int /\ Refilled(e) = Refilled(u) + Refilled(g)
          <5> HIDE DEF e, u, g
          <5> QED  BY <4>4, RefillAdds
        <4> HIDE DEF e, f, m, u, g
        <4> QED  BY <4>1, <4>2, <4>3, <4>5, <1>2, <1>3, <1>8
      <3> QED  BY <3>1, <3>2
    <2>3. bucket'.lastFill - mark'.at + Stall = e  BY <1>4, <1>5
    <2>4. Spent' + bucket'.tokens <= Burst + Refilled(e)
      BY <2>2, <1>5, <1>8
    <2>5. Refilled(e)' = Refilled(e')  BY DEF Refilled
    <2>6. Paid'
      <3>1. Refill * e = Refilled(e)  BY DEF Refilled
      <3>2. Unit * (allowed' - mark'.allowed) + bucket'.tokens <= Burst + Refilled(e)
        BY <2>4 DEF Spent
      <3> HIDE DEF e
      <3> QED  BY <3>1, <3>2, <2>1, <2>3, <1>7 DEF Paid, Spent, Refilled
    <2> QED  BY <2>6, <1>6 DEF BucketInv
  <1> QED  BY <1>9, <1>10

\* A Sweep forgets a bucket only after a silence that pays for what it held.
LEMMA SweepPays ==
    ASSUME BucketInv, Sweep
    PROVE  BucketInv'
  <1> DEFINE m == mark.at
             d == now - m
  <1>1. /\ now \in Nat /\ m \in Nat /\ m <= now
        /\ allowed \in Nat /\ mark.allowed \in Nat /\ mark.allowed <= allowed
        /\ sweep \in Nat /\ sweep <= now
    BY DEF BucketInv, TimesRead, Sweep
  <1>2. Burst \in Nat /\ Stall \in Nat /\ TTL \in Nat /\ Refill \in Nat
    BY BucketAssumption
  <1>3. now' = now /\ allowed' = allowed /\ mark' = mark /\ read' = read /\ sweep' = None
    BY DEF Sweep, history
  <1>4. CASE bucket' = bucket
    BY <1>3, <1>4 DEF BucketInv, TimesRead, Paid, Spent, Refilled
  <1>5. CASE bucket # None /\ Idle(sweep) /\ bucket' = None
    <2> DEFINE L == bucket.lastFill
               u == L - m + Stall
    <2>1. TimesRead'  BY <1>3, <1>5 DEF BucketInv, TimesRead
    <2>2. /\ bucket.tokens \in 0 .. Burst /\ L \in Nat /\ bucket.lastSeen \in Nat
          /\ L - bucket.lastSeen <= Stall /\ bucket.lastSeen < sweep - TTL
      BY <1>5 DEF BucketInv, TimesRead, Idle
    <2>3. d \in Int /\ d >= 0  BY <1>1
    <2>4. Refilled(d) \in Int /\ Refilled(d) >= 0
      <3> HIDE DEF d
      <3> QED  BY <2>3, RefillAdds
    <2>5. Spent \in Int
      <3>1. Unit * (allowed - mark.allowed) \in Int  BY <1>1, SpendsOne
      <3> QED  BY <3>1 DEF Spent
    <2>6. Spent <= Refilled(d)
      <3>1. CASE allowed = mark.allowed
        <4>1. Unit * (allowed - mark.allowed) = 0  BY <3>1, <1>1, SpendsOne
        <4>2. Spent = 0  BY <4>1 DEF Spent
        <4> HIDE DEF d
        <4> QED  BY <4>2, <2>4
      <3>2. CASE allowed # mark.allowed
        <4> DEFINE z == 2 * Stall
                   w == u + TTL
        <4>1. Spent + bucket.tokens <= Burst + Refilled(u)
          BY <3>2, <1>5 DEF BucketInv, Paid
        <4>2. u \in Int /\ z \in Int /\ w \in Int /\ w <= d + z /\ d + z \in Int
          <5> HIDE DEF L, m
          <5> QED  BY <2>2, <1>1, <1>2
        <4>3. Refilled(u) \in Int /\ Refilled(TTL) \in Int /\ Refilled(w) = Refilled(u) + Refilled(TTL)
          <5>1. u \in Int /\ TTL \in Int  BY <4>2, <1>2
          <5> HIDE DEF u
          <5> QED  BY <5>1, RefillAdds
        <4>4. Refilled(w) <= Refilled(d + z)
          <5> HIDE DEF w, d, z
          <5> QED  BY <4>2, RefillAdds
        <4>5. Refilled(d + z) = Refilled(d) + Refilled(z) /\ Refilled(z) \in Int
          <5> HIDE DEF d, z
          <5> QED  BY <4>2, <2>3, RefillAdds
        <4>6. Refilled(TTL) >= Burst + Refilled(z)
          <5>1. Refill * TTL >= Burst + 2 * Refill * Stall  BY BucketAssumption
          <5>2. 2 * Refill * Stall = Refill * (2 * Stall)  BY <1>2
          <5> QED  BY <5>1, <5>2 DEF Refilled
        <4> HIDE DEF u, d, w, z
        <4> QED  BY <4>1, <4>3, <4>4, <4>5, <4>6, <2>2, <2>4, <2>5, <1>2
      <3> QED  BY <3>1, <3>2
    <2>7. Spent' <= Refilled(now' - mark'.at)
      BY <2>6, <1>3 DEF Spent, Refilled
    <2>8. Paid'  BY <2>7, <1>5 DEF Paid, Refilled
    <2> QED  BY <2>1, <2>8 DEF BucketInv
  <1> QED  BY <1>4, <1>5 DEF Sweep

\* Every other step moves no token; the interval it measures grows or starts anew.
LEMMA ClockPays ==
    ASSUME BucketInv, Tick
    PROVE  BucketInv'
  <1> DEFINE d == now - mark.at
  <1>1. now' = now + 1 /\ UNCHANGED <<bucket, read, sweep, allowed, mark>>
    BY DEF Tick, history
  <1>2. /\ \A r \in Callers : read[r] # None => now - read[r] < Stall
        /\ now \in Nat /\ mark.at \in Nat /\ mark.at <= now /\ Stall \in Nat
    BY BucketAssumption DEF Tick, BucketInv, TimesRead
  <1>3. TimesRead'
    <2>1. \A r \in Callers : read'[r] # None =>
              read'[r] \in Nat /\ read'[r] <= now' /\ now' - read'[r] <= Stall
      <3> TAKE r \in Callers
      <3> HAVE read'[r] # None
      <3>1. read[r] \in Nat /\ read[r] <= now /\ now - read[r] < Stall
        BY <1>1, <1>2 DEF BucketInv, TimesRead
      <3> QED  BY <3>1, <1>1, <1>2
    <2>2. bucket' # None =>
          /\ bucket'.tokens \in 0 .. Burst
          /\ bucket'.lastFill \in Nat /\ bucket'.lastFill <= now'
          /\ bucket'.lastSeen \in Nat /\ bucket'.lastFill - bucket'.lastSeen <= Stall
      BY <1>1, <1>2 DEF BucketInv, TimesRead
    <2> QED  BY <2>1, <2>2, <1>1, <1>2 DEF BucketInv, TimesRead
  <1>4. d \in Int /\ d + 1 \in Int /\ d <= d + 1 /\ now' - mark'.at = d + 1
    BY <1>1, <1>2
  <1>5. Refilled(d) \in Int /\ Refilled(d + 1) \in Int /\ Refilled(d) <= Refilled(d + 1)
    <2> HIDE DEF d
    <2> QED  BY <1>4, RefillAdds
  <1>6. Spent \in Int
    <2>1. allowed \in Int /\ mark.allowed \in Int  BY DEF BucketInv, TimesRead
    <2>2. Unit * (allowed - mark.allowed) \in Int  BY <2>1, SpendsOne
    <2> QED  BY <2>2 DEF Spent
  <1>7. bucket = None => Spent <= Refilled(d + 1)
    <2>1. bucket = None => Spent <= Refilled(d)  BY DEF BucketInv, Paid
    <2> HIDE DEF d
    <2> QED  BY <2>1, <1>5, <1>6
  <1>8. bucket' = None => Spent' <= Refilled(now' - mark'.at)
    <2>1. Spent' = Spent  BY <1>1 DEF Spent
    <2> HIDE DEF d
    <2> QED  BY <2>1, <1>1, <1>4, <1>7
  <1>9. Paid'
    BY <1>8, <1>1 DEF BucketInv, Paid, Spent, Refilled
  <1> QED  BY <1>3, <1>9 DEF BucketInv

LEMMA WatchPays ==
    ASSUME BucketInv, Watch
    PROVE  BucketInv'
  <1>1. /\ mark' = [at |-> now, allowed |-> allowed]
        /\ UNCHANGED <<now, bucket, read, sweep, allowed>>
    BY DEF Watch
  <1>2. now \in Nat /\ allowed \in Nat  BY DEF BucketInv, TimesRead
  <1>3. mark'.at = now /\ mark'.allowed = allowed  BY <1>1
  <1>4. TimesRead'  BY <1>1, <1>2, <1>3 DEF BucketInv, TimesRead
  <1>5. Refilled(0) \in Int /\ Refilled(0) >= 0  BY RefillAdds
  <1>6. Spent' = 0
    <2>1. Unit * (allowed - allowed) = 0  BY <1>2, SpendsOne
    <2> QED  BY <2>1, <1>1, <1>3 DEF Spent
  <1>7. now' - mark'.at = 0  BY <1>1, <1>2, <1>3
  <1>8. bucket' = None => Spent' <= Refilled(now' - mark'.at)  BY <1>5, <1>6, <1>7
  <1>9. Paid'  BY <1>1, <1>3, <1>8 DEF Paid, Refilled
  <1> QED  BY <1>4, <1>9 DEF BucketInv

LEMMA RestPays ==
    ASSUME BucketInv,
           (\E r \in Callers : Arrive(r)) \/ StartSweep \/ UNCHANGED bucketVars
    PROVE  BucketInv'
  <1>1. now' = now /\ bucket' = bucket /\ allowed' = allowed /\ mark' = mark
    BY DEF Arrive, StartSweep, bucketVars, history
  <1>2. Paid'  BY <1>1 DEF BucketInv, Paid, Spent, Refilled
  <1>3. now \in Nat /\ Stall \in Nat  BY BucketAssumption DEF BucketInv, TimesRead
  <1>4. \A q \in Callers : read'[q] # None =>
            read'[q] \in Nat /\ read'[q] <= now' /\ now' - read'[q] <= Stall
    <2>1. CASE \E r \in Callers : Arrive(r)
      <3>1. PICK r \in Callers : Arrive(r)  BY <2>1
      <3>2. read' = [read EXCEPT ![r] = now]  BY <3>1 DEF Arrive
      <3> TAKE q \in Callers
      <3>3. read'[q] = read[q] \/ read'[q] = now  BY <3>2
      <3> QED  BY <3>3, <1>1, <1>3 DEF BucketInv, TimesRead
    <2>2. CASE read' = read
      BY <2>2, <1>1 DEF BucketInv, TimesRead
    <2> QED  BY <2>1, <2>2 DEF StartSweep, bucketVars
  <1>5. sweep' # None => sweep' \in Nat /\ sweep' <= now'
    <2>1. sweep' = sweep \/ sweep' = now  BY DEF Arrive, StartSweep, bucketVars
    <2> QED  BY <2>1, <1>1, <1>3 DEF BucketInv, TimesRead
  <1>6. read' \in [Callers -> Nat \cup {None}]
    BY <1>3 DEF BucketInv, TimesRead, Arrive, StartSweep, bucketVars
  <1>7. TimesRead'  BY <1>1, <1>4, <1>5, <1>6 DEF BucketInv, TimesRead
  <1> QED  BY <1>2, <1>7 DEF BucketInv

LEMMA BucketInitInv == BucketInit => BucketInv
  <1> SUFFICES ASSUME BucketInit PROVE BucketInv  OBVIOUS
  <1>1. /\ now = 0 /\ bucket = None /\ sweep = None /\ allowed = 0
        /\ mark.at = 0 /\ mark.allowed = 0 /\ \A r \in Callers : read[r] = None
    BY DEF BucketInit
  <1>2. Refilled(0) \in Int /\ Refilled(0) >= 0  BY RefillAdds
  <1>3. Unit * (allowed - mark.allowed) = 0  BY <1>1, SpendsOne
  <1>4. Spent = 0 /\ now - mark.at = 0  BY <1>1, <1>3 DEF Spent
  <1>5. Paid  BY <1>1, <1>2, <1>4 DEF Paid
  <1>6. read \in [Callers -> Nat \cup {None}]  BY DEF BucketInit
  <1>7. TimesRead  BY <1>1, <1>6 DEF TimesRead
  <1> QED  BY <1>5, <1>7 DEF BucketInv

LEMMA BucketNextInv == BucketInv /\ [BucketNext]_bucketVars => BucketInv'
  <1> QED  BY AllowPays, DenyPays, SweepPays, ClockPays, WatchPays, RestPays DEF BucketNext

(***************************************************************************)
(* For every rate, burst, idle time and delay between reading the clock    *)
(* and the lock, no interval of time allows a client more than one burst   *)
(* and what the interval refills (bucket.go: Allow, Evict).                *)
(***************************************************************************)
THEOREM WindowAlwaysBounded == BucketSpec => []WindowBound
  <1> QED  BY BucketInitInv, BucketNextInv, PaidBounds, PTL DEF BucketSpec

-----------------------------------------------------------------------------

Recent(k, v) == served[k][v] >= 0 /\ served[k][v] > time - (Window - Delay)

\* Times that were read are at most Delay old.
Clocks ==
    /\ time \in Nat
    /\ asked \in [Observers -> Nat \cup {Nothing}]
    /\ \A o \in Observers : asked[o] # Nothing =>
          asked[o] <= time /\ time - asked[o] <= Delay
    /\ evicting \in Nat \cup {Nothing}
    /\ evicting # Nothing => evicting <= time
    /\ served = [k \in Kinds |-> served[k]]
    /\ \A k \in Kinds : served[k] \in [Values[k] -> Int]
    /\ \A k \in Kinds : \A v \in Values[k] : served[k][v] <= time
    /\ entry # Nothing =>
          entry \in [windowStart : Nat, lastSeen : Nat,
                     slugs : SUBSET Areas, sensors : SUBSET Sensors]

\* What an entry e tells of a kind: it counts no more than the limit; what it does not
\* count was served before its window began; what it does not count and is recent was
\* counted by one entry before it.
Tells(e, k) ==
    /\ CountedIn(e, k) \in SUBSET Values[k]
    /\ Cardinality(CountedIn(e, k)) <= Limit[k]
    /\ \A v \in Values[k] \ CountedIn(e, k) : served[k][v] <= e.windowStart + Delay
    /\ \E P \in SUBSET Values[k] :
          /\ Cardinality(P) <= Limit[k]
          /\ \A v \in Values[k] \ CountedIn(e, k) : Recent(k, v) => v \in P

EntryTells ==
    \A k \in Kinds :
        /\ entry = Nothing => \A v \in Values[k] : ~Recent(k, v)
        /\ entry # Nothing =>
              /\ Tells(entry, k)
              /\ \A v \in Values[k] : served[k][v] <= entry.lastSeen + Delay

BreadthInv == Clocks /\ EntryTells

LEMMA KindFacts ==
    ASSUME NEW k \in Kinds
    PROVE  /\ IsFiniteSet(Values[k]) /\ Limit[k] \in Nat /\ Limit[k] > 0
           /\ k = "area" => Values[k] = Areas /\ Limit[k] = AreaLimit
           /\ k # "area" => k = "sensor" /\ Values[k] = Sensors /\ Limit[k] = SensorLimit
  BY BreadthAssumption DEF Kinds, Values, Limit

\* The empty set and one element more, counted.
LEMMA Counting ==
    ASSUME NEW k \in Kinds, NEW S \in SUBSET Values[k]
    PROVE  /\ Cardinality(S) \in Nat /\ Cardinality({}) = 0
           /\ \A v \in Values[k] : Cardinality(S \cup {v}) <= Cardinality(S) + 1
  <1>1. IsFiniteSet(S)  BY KindFacts, FS_Subset
  <1>2. Cardinality(S) \in Nat  BY <1>1, FS_CardinalityType
  <1>3. Cardinality({}) = 0  BY FS_EmptySet
  <1>4. ASSUME NEW v \in Values[k] PROVE Cardinality(S \cup {v}) <= Cardinality(S) + 1
    <2> DEFINE n == Cardinality(S)
               more == Cardinality(S \cup {v})
    <2>1. more = IF v \in S THEN n ELSE n + 1  BY <1>1, FS_AddElement
    <2>2. n \in Nat  BY <1>2
    <2> HIDE DEF n, more
    <2>3. more <= n + 1  BY <2>1, <2>2
    <2> QED  BY <2>3 DEF n, more
  <1> QED  BY <1>2, <1>3, <1>4

\* The promise, of the invariant.
LEMMA TellsBounds ==
    ASSUME BreadthInv
    PROVE  TwiceTheLimit
  <1> SUFFICES ASSUME NEW k \in Kinds
      PROVE Cardinality(ServedSince(k, time - (Window - Delay))) <= 2 * Limit[k]
    BY DEF TwiceTheLimit
  <1> DEFINE S == ServedSince(k, time - (Window - Delay))
  <1>1. Limit[k] \in Nat /\ IsFiniteSet(Values[k])  BY KindFacts
  <1>2. S = {v \in Values[k] : Recent(k, v)}  BY DEF ServedSince, Recent
  <1>3. CASE entry = Nothing
    <2>1. S = {}  BY <1>2, <1>3 DEF BreadthInv, EntryTells
    <2>2. Cardinality(S) = 0  BY <2>1, FS_EmptySet
    <2> QED  BY <2>2, <1>1
  <1>4. CASE entry # Nothing
    <2> DEFINE C == CountedIn(entry, k)
    <2>1. C \in SUBSET Values[k] /\ Cardinality(C) <= Limit[k]
      BY <1>4 DEF BreadthInv, EntryTells, Tells
    <2>2. PICK P \in SUBSET Values[k] :
             Cardinality(P) <= Limit[k] /\ \A v \in Values[k] \ C : Recent(k, v) => v \in P
      BY <1>4 DEF BreadthInv, EntryTells, Tells
    <2>3. IsFiniteSet(C) /\ IsFiniteSet(P)  BY <2>1, <2>2, <1>1, FS_Subset
    <2>4. /\ IsFiniteSet(C \cup P) /\ Cardinality(C) \in Nat /\ Cardinality(P) \in Nat
          /\ Cardinality(C \cap P) \in Nat
          /\ Cardinality(C \cup P) = Cardinality(C) + Cardinality(P) - Cardinality(C \cap P)
      BY <2>3, FS_Union, FS_CardinalityType, FS_Intersection
    <2>5. S \subseteq C \cup P  BY <1>2, <2>2
    <2>6. Cardinality(S) <= Cardinality(C \cup P) /\ Cardinality(S) \in Nat
      BY <2>4, <2>5, FS_Subset, FS_CardinalityType
    <2> HIDE DEF C, S
    <2>7. Cardinality(S) <= 2 * Limit[k]
      BY <2>1, <2>2, <2>4, <2>6, <1>1
    <2> QED  BY <2>7 DEF S
  <1> QED  BY <1>3, <1>4

\* The entry observe finds, before it counts: the one there was, or a new one after a
\* whole window, whose predecessor counted what is still recent.
LEMMA FoundTells ==
    ASSUME BreadthInv, NEW o \in Observers, asked[o] # Nothing, NEW k \in Kinds
    PROVE  /\ Found(asked[o]) \in [windowStart : Nat, lastSeen : Nat,
                                   slugs : SUBSET Areas, sensors : SUBSET Sensors]
           /\ Tells(Found(asked[o]), k)
           /\ Found(asked[o]).lastSeen = asked[o]
  <1> DEFINE t == asked[o]
             e == Found(t)
             fresh == [windowStart |-> t, lastSeen |-> t, slugs |-> {}, sensors |-> {}]
  <1>1. t \in Nat /\ t <= time /\ time - t <= Delay /\ time \in Nat
    BY DEF BreadthInv, Clocks
  <1>2. Delay \in Nat /\ Window \in Nat  BY BreadthAssumption
  <1>3. \A v \in Values[k] : served[k][v] \in Int /\ served[k][v] <= time
    BY DEF BreadthInv, Clocks
  <1>4. /\ fresh \in [windowStart : Nat, lastSeen : Nat,
                      slugs : SUBSET Areas, sensors : SUBSET Sensors]
        /\ fresh.lastSeen = t /\ fresh.windowStart = t /\ CountedIn(fresh, k) = {}
    BY <1>1 DEF CountedIn
  <1>5. Cardinality({}) = 0 /\ Limit[k] \in Nat /\ 0 <= Limit[k]
    BY KindFacts, FS_EmptySet
  <1>6. \A v \in Values[k] : served[k][v] <= fresh.windowStart + Delay
    <2> HIDE DEF fresh, t
    <2> QED  BY <1>1, <1>2, <1>3, <1>4
  <1>7. CASE entry = Nothing
    <2>1. e = fresh  BY <1>7 DEF Found
    <2>2. \A v \in Values[k] : ~Recent(k, v)  BY <1>7 DEF BreadthInv, EntryTells
    <2>3. Tells(fresh, k)
      <3>1. \E P \in SUBSET Values[k] :
               /\ Cardinality(P) <= Limit[k]
               /\ \A v \in Values[k] \ CountedIn(fresh, k) : Recent(k, v) => v \in P
        <4> WITNESS {} \in SUBSET Values[k]
        <4> HIDE DEF fresh
        <4> QED  BY <2>2, <1>5
      <3> HIDE DEF fresh
      <3> QED  BY <3>1, <1>4, <1>5, <1>6 DEF Tells
    <2> HIDE DEF e, fresh
    <2> QED  BY <2>1, <2>3, <1>4 DEF e
  <1>8. CASE entry # Nothing /\ Rolls(t)
    <2>1. e = fresh  BY <1>8 DEF Found
    <2> DEFINE C == CountedIn(entry, k)
    <2>2. /\ C \in SUBSET Values[k] /\ Cardinality(C) <= Limit[k]
          /\ \A v \in Values[k] \ C : served[k][v] <= entry.windowStart + Delay
      BY <1>8 DEF BreadthInv, EntryTells, Tells
    <2>3. entry.windowStart \in Nat /\ t - entry.windowStart >= Window
      BY <1>8 DEF BreadthInv, Clocks, Rolls
    <2>4. ASSUME NEW v \in Values[k] \ C PROVE ~Recent(k, v)
      <3>1. served[k][v] <= entry.windowStart + Delay /\ served[k][v] \in Int
        BY <2>2, <1>3
      <3> HIDE DEF C, t
      <3> QED  BY <3>1, <2>3, <1>1, <1>2 DEF Recent
    <2>5. Tells(fresh, k)
      <3>1. \E P \in SUBSET Values[k] :
               /\ Cardinality(P) <= Limit[k]
               /\ \A v \in Values[k] \ CountedIn(fresh, k) : Recent(k, v) => v \in P
        <4>1. C \in SUBSET Values[k]  BY <2>2
        <4> WITNESS C \in SUBSET Values[k]
        <4> HIDE DEF fresh, C
        <4> QED  BY <2>2, <2>4
      <3> HIDE DEF fresh
      <3> QED  BY <3>1, <1>4, <1>5, <1>6 DEF Tells
    <2> HIDE DEF e, fresh
    <2> QED  BY <2>1, <2>5, <1>4 DEF e
  <1>9. CASE entry # Nothing /\ ~Rolls(t)
    <2>1. e = [entry EXCEPT !.lastSeen = t]  BY <1>9 DEF Found
    <2>2. entry \in [windowStart : Nat, lastSeen : Nat,
                     slugs : SUBSET Areas, sensors : SUBSET Sensors]
      BY <1>9 DEF BreadthInv, Clocks
    <2>3. /\ e \in [windowStart : Nat, lastSeen : Nat,
                    slugs : SUBSET Areas, sensors : SUBSET Sensors]
          /\ e.lastSeen = t /\ e.windowStart = entry.windowStart
          /\ e.slugs = entry.slugs /\ e.sensors = entry.sensors
      <3> HIDE DEF e, t
      <3>1. t \in Nat  BY <1>1
      <3> QED  BY <3>1, <2>1, <2>2
    <2>4. CountedIn(e, k) = CountedIn(entry, k)
      <3> HIDE DEF e
      <3> QED  BY <2>3 DEF CountedIn
    <2>5. Tells(entry, k)  BY <1>9 DEF BreadthInv, EntryTells
    <2>6. Tells(e, k)
      <3> HIDE DEF e
      <3> QED  BY <2>3, <2>4, <2>5 DEF Tells
    <2> HIDE DEF e
    <2> QED  BY <2>3, <2>6 DEF e
  <1> QED  BY <1>7, <1>8, <1>9

LEMMA SomeEntry ==
    ASSUME NEW e \in [windowStart : Nat, lastSeen : Nat,
                      slugs : SUBSET Areas, sensors : SUBSET Sensors]
    PROVE  e # Nothing
  <1>1. e \in [windowStart : Int, lastSeen : Int,
               slugs : SUBSET Areas, sensors : SUBSET Sensors]
    OBVIOUS
  <1> QED  BY <1>1, BreadthAssumption

\* A value served is counted by the entry that is left, and by nothing else.
LEMMA ServeTells ==
    ASSUME BreadthInv, NEW o \in Observers, NEW q \in Observations, Serve(o, q)
    PROVE  BreadthInv'
  <1> DEFINE t == asked[o]
             e == Found(t)
             K == q.kind
  <1>1. /\ t # Nothing /\ Serves(e, q) /\ entry' = CountIn(e, q)
        /\ served' = [served EXCEPT ![q.kind][q.value] = time]
        /\ asked' = [asked EXCEPT ![o] = Nothing]
        /\ time' = time /\ evicting' = evicting
    BY DEF Serve
  <1>2. t \in Nat /\ t <= time /\ time - t <= Delay /\ time \in Nat /\ Delay \in Nat
    BY <1>1, BreadthAssumption DEF BreadthInv, Clocks
  <1>3. /\ K \in Kinds /\ q.value \in Values[K]
        /\ K = "area" => q.value \in Areas
        /\ K # "area" => q.value \in Sensors
    BY DEF Observations, Kinds, Values
  <1>4. e \in [windowStart : Nat, lastSeen : Nat,
               slugs : SUBSET Areas, sensors : SUBSET Sensors]
        /\ e.lastSeen = t /\ \A k \in Kinds : Tells(e, k)
    <2>1. \A k \in Kinds : Tells(e, k)  BY <1>1, FoundTells
    <2>2. "area" \in Kinds  BY DEF Kinds
    <2> QED  BY <1>1, <2>1, <2>2, FoundTells
  <1>5. /\ entry' \in [windowStart : Nat, lastSeen : Nat,
                       slugs : SUBSET Areas, sensors : SUBSET Sensors]
        /\ entry'.lastSeen = t /\ entry'.windowStart = e.windowStart
        /\ CountedIn(entry', K) = CountedIn(e, K) \cup {q.value}
        /\ \A k \in Kinds \ {K} : CountedIn(entry', k) = CountedIn(e, k)
    <2> HIDE DEF e, t
    <2>1. CASE K = "area"
      <3>1. entry' = [e EXCEPT !.slugs = @ \cup {q.value}]  BY <1>1, <2>1 DEF CountIn
      <3>2. /\ entry' \in [windowStart : Nat, lastSeen : Nat,
                           slugs : SUBSET Areas, sensors : SUBSET Sensors]
            /\ entry'.lastSeen = e.lastSeen /\ entry'.windowStart = e.windowStart
            /\ entry'.slugs = e.slugs \cup {q.value} /\ entry'.sensors = e.sensors
        BY <3>1, <2>1, <1>3, <1>4
      <3> QED  BY <3>2, <2>1, <1>4 DEF CountedIn, Kinds
    <2>2. CASE K # "area"
      <3>1. entry' = [e EXCEPT !.sensors = @ \cup {q.value}]  BY <1>1, <2>2 DEF CountIn
      <3>2. /\ entry' \in [windowStart : Nat, lastSeen : Nat,
                           slugs : SUBSET Areas, sensors : SUBSET Sensors]
            /\ entry'.lastSeen = e.lastSeen /\ entry'.windowStart = e.windowStart
            /\ entry'.sensors = e.sensors \cup {q.value} /\ entry'.slugs = e.slugs
        BY <3>1, <2>2, <1>3, <1>4
      <3> QED  BY <3>2, <2>2, <1>3, <1>4 DEF CountedIn, Kinds
    <2> QED  BY <2>1, <2>2
  <1>6. /\ \A k \in Kinds \ {K} : served'[k] = served[k]
        /\ served'[K] = [served[K] EXCEPT ![q.value] = time]
        /\ served' = [k \in Kinds |-> served'[k]]
    BY <1>1, <1>3 DEF BreadthInv, Clocks
  <1>7. \A k \in Kinds : \A v \in Values[k] :
            /\ served[k][v] \in Int /\ served[k][v] <= time
            /\ served'[k][v] = IF k = K /\ v = q.value THEN time ELSE served[k][v]
    BY <1>3, <1>6 DEF BreadthInv, Clocks
  <1>8. Clocks'
    <2>1. \A k \in Kinds : served'[k] \in [Values[k] -> Int]
      <3> TAKE k \in Kinds
      <3>1. CASE k = K  BY <3>1, <1>2, <1>3, <1>6 DEF BreadthInv, Clocks
      <3>2. CASE k # K  BY <3>2, <1>6 DEF BreadthInv, Clocks
      <3> QED  BY <3>1, <3>2
    <2>2. \A k \in Kinds : \A v \in Values[k] : served'[k][v] <= time'
      BY <1>7, <1>1, <1>2
    <2>3. asked' \in [Observers -> Nat \cup {Nothing}]
          /\ \A p \in Observers : asked'[p] # Nothing =>
                asked'[p] <= time' /\ time' - asked'[p] <= Delay
      BY <1>1 DEF BreadthInv, Clocks
    <2> QED  BY <2>1, <2>2, <2>3, <1>1, <1>5, <1>6 DEF BreadthInv, Clocks
  <1>9. ASSUME NEW k \in Kinds
        PROVE  Tells(entry, k)' /\ \A v \in Values[k] : served'[k][v] <= entry'.lastSeen + Delay
    <2> DEFINE C == CountedIn(e, k)
               D == CountedIn(entry', k)
    <2>1. /\ C \in SUBSET Values[k] /\ Cardinality(C) <= Limit[k]
          /\ \A v \in Values[k] \ C : served[k][v] <= e.windowStart + Delay
      BY <1>4 DEF Tells
    <2>2. PICK P \in SUBSET Values[k] :
             /\ Cardinality(P) <= Limit[k]
             /\ \A v \in Values[k] \ C : Recent(k, v) => v \in P
      BY <1>4 DEF Tells
    <2>3. D = IF k = K THEN C \cup {q.value} ELSE C
      <3> HIDE DEF e
      <3> QED  BY <1>5
    <2>4. D \in SUBSET Values[k]  BY <2>1, <2>3, <1>3
    <2>5. Cardinality(D) <= Limit[k]
      <3>1. CASE D = C
        <4>1. Cardinality(D) = Cardinality(C)  BY <3>1
        <4> QED  BY <4>1, <2>1
      <3>2. CASE D # C
        <4>1. k = K /\ q.value \notin C /\ D = C \cup {q.value}  BY <3>2, <2>3
        <4>2. Cardinality(C) < Limit[k]  BY <4>1, <1>1 DEF Serves
        <4>3. Cardinality(C) \in Nat /\ Cardinality(C \cup {q.value}) <= Cardinality(C) + 1
          BY <2>1, <4>1, <1>3, Counting
        <4>4. Cardinality(C \cup {q.value}) \in Nat
          BY <4>1, <2>4, Counting
        <4>5. Limit[k] \in Nat  BY KindFacts
        <4>6. Cardinality(D) = Cardinality(C \cup {q.value})  BY <4>1
        <4> HIDE DEF C, D
        <4> QED  BY <4>2, <4>3, <4>4, <4>5, <4>6
      <3> QED  BY <3>1, <3>2
    <2>6. \A v \in Values[k] \ D : v \in Values[k] \ C /\ served'[k][v] = served[k][v]
      BY <2>3, <1>7
    <2>7. \A v \in Values[k] \ D : served'[k][v] <= entry'.windowStart + Delay
      BY <2>1, <2>6, <1>5
    <2>8. \A v \in Values[k] \ D : Recent(k, v)' => v \in P
      BY <2>2, <2>6, <1>1 DEF Recent
    <2>9. CountedIn(entry, k)' = D  BY DEF CountedIn
    <2>10. Tells(entry, k)'
      <3> HIDE DEF D, C
      <3> QED  BY <2>2, <2>4, <2>5, <2>7, <2>8, <2>9 DEF Tells
    <2>11. \A v \in Values[k] : served'[k][v] <= entry'.lastSeen + Delay
      <3> TAKE v \in Values[k]
      <3>1. served'[k][v] \in Int /\ served'[k][v] <= time  BY <1>7, <1>2
      <3> HIDE DEF t
      <3> QED  BY <3>1, <1>2, <1>5
    <2> QED  BY <2>10, <2>11
  <1>10. entry' # Nothing  BY <1>5, SomeEntry
  <1> QED  BY <1>8, <1>9, <1>10 DEF BreadthInv, EntryTells

LEMMA TurnAwayTells ==
    ASSUME BreadthInv, NEW o \in Observers, NEW q \in Observations, TurnAway(o, q)
    PROVE  BreadthInv'
  <1> DEFINE t == asked[o]
             e == Found(t)
  <1>1. /\ t # Nothing /\ entry' = e /\ served' = served
        /\ asked' = [asked EXCEPT ![o] = Nothing]
        /\ time' = time /\ evicting' = evicting
    BY DEF TurnAway, Turned
  <1>2. t \in Nat /\ t <= time /\ time - t <= Delay /\ time \in Nat /\ Delay \in Nat
    BY <1>1, BreadthAssumption DEF BreadthInv, Clocks
  <1>3. e \in [windowStart : Nat, lastSeen : Nat,
               slugs : SUBSET Areas, sensors : SUBSET Sensors]
        /\ e.lastSeen = t /\ \A k \in Kinds : Tells(e, k)
    <2>1. \A k \in Kinds : Tells(e, k)  BY <1>1, FoundTells
    <2>2. "area" \in Kinds  BY DEF Kinds
    <2> QED  BY <1>1, <2>1, <2>2, FoundTells
  <1>4. Clocks'
    <2>1. asked' \in [Observers -> Nat \cup {Nothing}]
          /\ \A p \in Observers : asked'[p] # Nothing =>
                asked'[p] <= time' /\ time' - asked'[p] <= Delay
      BY <1>1 DEF BreadthInv, Clocks
    <2> HIDE DEF e
    <2> QED  BY <2>1, <1>1, <1>3 DEF BreadthInv, Clocks
  <1>5. ASSUME NEW k \in Kinds
        PROVE  Tells(entry, k)' /\ \A v \in Values[k] : served'[k][v] <= entry'.lastSeen + Delay
    <2> HIDE DEF e
    <2>1. Tells(e, k)  BY <1>3
    <2>2. Tells(entry, k)'  BY <2>1, <1>1 DEF Tells, Recent, CountedIn
    <2>3. \A v \in Values[k] : served'[k][v] <= entry'.lastSeen + Delay
      <3> TAKE v \in Values[k]
      <3>1. served[k][v] \in Int /\ served[k][v] <= time  BY DEF BreadthInv, Clocks
      <3> HIDE DEF t
      <3> QED  BY <3>1, <1>1, <1>2, <1>3
    <2> QED  BY <2>2, <2>3
  <1>6. entry' # Nothing  BY <1>1, <1>3, SomeEntry
  <1> QED  BY <1>4, <1>5, <1>6 DEF BreadthInv, EntryTells

\* An entry is forgotten when nothing it served is recent.
LEMMA EvictTells ==
    ASSUME BreadthInv, Evict
    PROVE  BreadthInv'
  <1>1. /\ time' = time /\ asked' = asked /\ served' = served /\ evicting' = Nothing
        /\ evicting \in Nat /\ evicting <= time /\ time \in Nat
        /\ Delay \in Nat /\ Window \in Nat
    BY BreadthAssumption DEF Evict, BreadthInv, Clocks
  <1>2. CASE entry' = entry
    <2>1. Clocks'  BY <1>1, <1>2 DEF BreadthInv, Clocks
    <2>2. EntryTells'
      BY <1>1, <1>2 DEF BreadthInv, EntryTells, Tells, Recent, CountedIn
    <2> QED  BY <2>1, <2>2 DEF BreadthInv
  <1>3. CASE /\ entry # Nothing /\ entry.lastSeen < evicting - 2 * Window
             /\ entry' = Nothing
    <2>1. Clocks'  BY <1>1, <1>3 DEF BreadthInv, Clocks
    <2>2. entry.lastSeen \in Nat  BY <1>3 DEF BreadthInv, Clocks
    <2>3. ASSUME NEW k \in Kinds, NEW v \in Values[k] PROVE ~Recent(k, v)'
      <3>1. served[k][v] \in Int /\ served[k][v] <= entry.lastSeen + Delay
        BY <1>3 DEF BreadthInv, Clocks, EntryTells
      <3>2. ~(served[k][v] > time - (Window - Delay))
        BY <3>1, <2>2, <1>1, <1>3
      <3> QED  BY <3>2, <1>1 DEF Recent
    <2> QED  BY <2>1, <2>3, <1>3 DEF BreadthInv, EntryTells
  <1> QED  BY <1>2, <1>3 DEF Evict

\* The clock only makes what was recent old.
LEMMA PassesTells ==
    ASSUME BreadthInv, Passes
    PROVE  BreadthInv'
  <1>1. /\ time' = time + 1 /\ entry' = entry /\ asked' = asked /\ evicting' = evicting
        /\ time \in Nat /\ Delay \in Nat /\ Window \in Nat
        /\ \A o \in Observers : asked[o] # Nothing => time - asked[o] < Delay
    BY BreadthAssumption DEF Passes, BreadthInv, Clocks
  <1>2. \A k \in Kinds : served'[k] = [v \in Values[k] |->
            IF served[k][v] > time' - Window - Delay THEN served[k][v] ELSE -1]
    BY DEF Passes
  <1>3. \A k \in Kinds : \A v \in Values[k] :
            /\ served[k][v] \in Int /\ served[k][v] <= time
            /\ served'[k][v] = served[k][v] \/ served'[k][v] = -1
    BY <1>2 DEF BreadthInv, Clocks
  <1>4. Clocks'
    <2>1. \A k \in Kinds : served'[k] \in [Values[k] -> Int]
      <3> TAKE k \in Kinds
      <3> DEFINE kept == [v \in Values[k] |->
                    IF served[k][v] > time' - Window - Delay THEN served[k][v] ELSE -1]
      <3>1. \A v \in Values[k] : served[k][v] \in Int  BY <1>3
      <3>2. kept \in [Values[k] -> Int]  BY <3>1
      <3>3. served'[k] = kept  BY <1>2
      <3> HIDE DEF kept
      <3> QED  BY <3>2, <3>3
    <2>2. \A k \in Kinds : \A v \in Values[k] : served'[k][v] <= time'
      BY <1>1, <1>3
    <2>3. served' = [k \in Kinds |-> served'[k]]  BY DEF Passes
    <2>4. \A o \in Observers : asked'[o] # Nothing =>
              asked'[o] <= time' /\ time' - asked'[o] <= Delay
      BY <1>1 DEF BreadthInv, Clocks
    <2>5. evicting' # Nothing => evicting' <= time'  BY <1>1 DEF BreadthInv, Clocks
    <2> QED  BY <2>1, <2>2, <2>3, <2>4, <2>5, <1>1 DEF BreadthInv, Clocks
  <1>5. ASSUME NEW k \in Kinds, NEW v \in Values[k]
        PROVE  /\ Recent(k, v)' => Recent(k, v)
               /\ \A n \in Nat : served[k][v] <= n => served'[k][v] <= n
    <2>1. CASE served'[k][v] = served[k][v]
      BY <2>1, <1>1, <1>3 DEF Recent
    <2>2. CASE served'[k][v] = -1
      BY <2>2, <1>1, <1>3 DEF Recent
    <2> QED  BY <2>1, <2>2, <1>3
  <1>6. ASSUME NEW k \in Kinds, entry # Nothing
        PROVE  Tells(entry, k)' /\ \A v \in Values[k] : served'[k][v] <= entry'.lastSeen + Delay
    <2> DEFINE C == CountedIn(entry, k)
    <2>1. entry.windowStart + Delay \in Nat /\ entry.lastSeen + Delay \in Nat
      BY <1>1, <1>6 DEF BreadthInv, Clocks
    <2>2. /\ C \in SUBSET Values[k] /\ Cardinality(C) <= Limit[k]
          /\ \A v \in Values[k] \ C : served[k][v] <= entry.windowStart + Delay
          /\ \A v \in Values[k] : served[k][v] <= entry.lastSeen + Delay
      BY <1>6 DEF BreadthInv, EntryTells, Tells
    <2>3. PICK P \in SUBSET Values[k] :
             /\ Cardinality(P) <= Limit[k]
             /\ \A v \in Values[k] \ C : Recent(k, v) => v \in P
      BY <1>6 DEF BreadthInv, EntryTells, Tells
    <2>4. CountedIn(entry, k)' = C  BY <1>1 DEF CountedIn
    <2>5. /\ \A v \in Values[k] \ C : served'[k][v] <= entry.windowStart + Delay
          /\ \A v \in Values[k] : served'[k][v] <= entry.lastSeen + Delay
      BY <2>1, <2>2, <1>5
    <2>6. \A v \in Values[k] \ C : Recent(k, v)' => v \in P  BY <2>3, <1>5
    <2>7. Tells(entry, k)'
      <3> HIDE DEF C
      <3> QED  BY <2>2, <2>3, <2>4, <2>5, <2>6, <1>1 DEF Tells
    <2> QED  BY <2>5, <2>7, <1>1
  <1>7. EntryTells'
    BY <1>1, <1>5, <1>6 DEF BreadthInv, EntryTells
  <1> QED  BY <1>4, <1>7 DEF BreadthInv

LEMMA AskTells ==
    ASSUME BreadthInv,
           (\E o \in Observers : Ask(o)) \/ StartEvict \/ UNCHANGED breadthVars
    PROVE  BreadthInv'
  <1>1. time' = time /\ entry' = entry /\ served' = served
    BY DEF Ask, StartEvict, breadthVars
  <1>2. time \in Nat /\ Delay \in Nat
    BY BreadthAssumption DEF BreadthInv, Clocks
  <1>3. asked' = asked \/ \E o \in Observers : asked' = [asked EXCEPT ![o] = time]
    BY DEF Ask, StartEvict, breadthVars
  <1>4. evicting' = evicting \/ evicting' = time
    BY DEF Ask, StartEvict, breadthVars
  <1>5. /\ asked' \in [Observers -> Nat \cup {Nothing}]
        /\ \A o \in Observers : asked'[o] # Nothing =>
              asked'[o] <= time' /\ time' - asked'[o] <= Delay
    <2>1. CASE asked' = asked  BY <2>1, <1>1 DEF BreadthInv, Clocks
    <2>2. ASSUME NEW o \in Observers, asked' = [asked EXCEPT ![o] = time] PROVE <1>5!:
      BY <2>2, <1>1, <1>2 DEF BreadthInv, Clocks
    <2> QED  BY <2>1, <2>2, <1>3
  <1>6. Clocks'  BY <1>1, <1>2, <1>4, <1>5 DEF BreadthInv, Clocks
  <1>7. EntryTells'  BY <1>1 DEF BreadthInv, EntryTells, Tells, Recent, CountedIn
  <1> QED  BY <1>6, <1>7 DEF BreadthInv

LEMMA BreadthInitInv == BreadthInit => BreadthInv
  <1> SUFFICES ASSUME BreadthInit PROVE BreadthInv  OBVIOUS
  <1>1. \A k \in Kinds : \A v \in Values[k] : served[k][v] = -1
    BY DEF BreadthInit
  <1>2. Clocks  BY <1>1 DEF BreadthInit, Clocks
  <1>3. EntryTells  BY <1>1 DEF BreadthInit, EntryTells, Recent
  <1> QED  BY <1>2, <1>3 DEF BreadthInv

LEMMA BreadthNextInv == BreadthInv /\ [BreadthNext]_breadthVars => BreadthInv'
  <1> QED  BY ServeTells, TurnAwayTells, EvictTells, PassesTells, AskTells DEF BreadthNext

(***************************************************************************)
(* For every pair of limits, window and delay between reading the clock    *)
(* and the lock, no span as long as a window, less the delay, shows one    *)
(* client more than twice the limit (enumerate.go: observe, Evict).        *)
(***************************************************************************)
THEOREM NeverMoreThanTwice == BreadthSpec => []TwiceTheLimit
  <1> QED  BY BreadthInitInv, BreadthNextInv, TellsBounds, PTL DEF BreadthSpec

-----------------------------------------------------------------------------
(***************************************************************************)
(* Every control's state keeps its shape.                                  *)
(***************************************************************************)

\* The header's seconds: a whole number, and never none.
LEMMA RetryAfterIsPositive ==
    ASSUME NEW tokens \in Int
    PROVE  RetryAfter(tokens) \in Nat /\ RetryAfter(tokens) >= 1
  <1> DEFINE p == Refill * TicksPerSecond
             n == 2 * (Unit - tokens) + p
  <1>1. p \in Nat /\ p > 0  BY BucketAssumption
  <1>2. Unit \in Nat  BY BucketAssumption
  <1> HIDE DEF p
  <1>3. n \in Int /\ 2 * p \in Nat /\ 2 * p > 0  BY <1>1, <1>2
  <1> HIDE DEF n
  <1>4. n \div (2 * p) \in Int  BY <1>3
  <1>5. RetryAfter(tokens) = IF n \div (2 * p) < 1 THEN 1 ELSE n \div (2 * p)
    BY DEF RetryAfter, n, p
  <1> DEFINE d == n \div (2 * p)
  <1> HIDE DEF d
  <1>6. d \in Int /\ RetryAfter(tokens) = IF d < 1 THEN 1 ELSE d  BY <1>4, <1>5 DEF d
  <1> QED  BY <1>6

LEMMA WaitIsASecond ==
    ASSUME NEW n \in Nat, n >= 1
    PROVE  TicksPerSecond * n \in Nat /\ TicksPerSecond * n >= TicksPerSecond
  <1>1. TicksPerSecond \in Nat  BY BucketAssumption
  <1> QED  BY <1>1

LEMMA BucketNextTyped ==
    ASSUME BucketTypeOK, BucketInv, [BucketNext]_bucketVars
    PROVE  BucketTypeOK'
  <1>1. Horizon \in Nat /\ Unit \in Nat /\ Burst \in Nat /\ Unit > 0  BY BucketAssumption
  <1>2. ASSUME NEW r \in Callers, read[r] # None
        PROVE  /\ Filled(read[r]).tokens \in 0 .. Burst
               /\ Filled(read[r]).lastFill \in Times /\ read[r] \in Times
    <2>1. read[r] \in Times /\ now \in Times  BY <1>2 DEF BucketTypeOK, TimesOrNone
    <2>2. /\ Filled(read[r]).tokens \in 0 .. Burst
          /\ Filled(read[r]).lastFill \in Nat /\ Filled(read[r]).lastFill <= now
      BY <1>2, FilledFacts
    <2> QED  BY <2>1, <2>2, <1>1 DEF Times
  <1>3. ASSUME NEW r \in Callers, Arrive(r) PROVE BucketTypeOK'
    BY <1>3 DEF Arrive, BucketTypeOK, TimesOrNone, history
  <1>4. ASSUME NEW r \in Callers, Allow(r) PROVE BucketTypeOK'
    <2> DEFINE f == Filled(read[r])
    <2>1. f.tokens \in 0 .. Burst /\ f.lastFill \in Times /\ read[r] \in Times
      BY <1>2, <1>4 DEF Allow
    <2>2. f.tokens >= Unit
          /\ bucket' = [tokens |-> f.tokens - Unit, lastFill |-> f.lastFill, lastSeen |-> read[r]]
      BY <1>4 DEF Allow
    <2> HIDE DEF f
    <2>3. bucket' \in Buckets  BY <2>1, <2>2, <1>1 DEF Buckets
    <2> QED  BY <2>3, <1>4 DEF Allow, BucketTypeOK, TimesOrNone, history
  <1>5. ASSUME NEW r \in Callers, Deny(r) PROVE BucketTypeOK'
    <2> DEFINE f == Filled(read[r])
    <2>1. f.tokens \in 0 .. Burst /\ f.lastFill \in Times /\ read[r] \in Times
      BY <1>2, <1>5 DEF Deny
    <2>2. /\ bucket' = [tokens |-> f.tokens, lastFill |-> f.lastFill, lastSeen |-> read[r]]
          /\ told' = [allowed |-> allowed, until |-> now + TicksPerSecond * RetryAfter(f.tokens)]
      BY <1>5 DEF Deny
    <2> HIDE DEF f
    <2>3. bucket' \in Buckets  BY <2>1, <2>2 DEF Buckets
    <2>4. TicksPerSecond * RetryAfter(f.tokens) \in Nat
      BY <2>1, RetryAfterIsPositive, WaitIsASecond
    <2>5. now \in Nat /\ allowed \in Nat  BY DEF BucketTypeOK, Times
    <2> DEFINE w == TicksPerSecond * RetryAfter(f.tokens)
    <2> HIDE DEF w
    <2>6. told' = [allowed |-> allowed, until |-> now + w] /\ w \in Nat  BY <2>2, <2>4 DEF w
    <2>7. told' \in [until : Nat, allowed : Nat]  BY <2>5, <2>6
    <2> QED  BY <2>3, <2>7, <1>5 DEF Deny, BucketTypeOK, TimesOrNone, history
  <1>6. CASE StartSweep  BY <1>6 DEF StartSweep, BucketTypeOK, TimesOrNone, history
  <1>7. CASE Sweep  BY <1>7 DEF Sweep, BucketTypeOK, TimesOrNone, history
  <1>8. CASE Tick
    <2>1. now' \in Times  BY <1>8, <1>1 DEF Tick, BucketTypeOK, Times
    <2> QED  BY <2>1, <1>8 DEF Tick, BucketTypeOK, history
  <1>9. CASE Watch  BY <1>9 DEF Watch, BucketTypeOK
  <1>10. CASE UNCHANGED bucketVars  BY <1>10 DEF bucketVars, history, BucketTypeOK
  <1> QED  BY <1>3, <1>4, <1>5, <1>6, <1>7, <1>8, <1>9, <1>10 DEF BucketNext

LEMMA BucketInitTyped == BucketInit => BucketTypeOK
  <1>1. Horizon \in Nat  BY BucketAssumption
  <1> QED  BY <1>1 DEF BucketInit, BucketTypeOK, Times, TimesOrNone

LEMMA BreadthNextTyped ==
    ASSUME BreadthTypeOK, BreadthInv, BreadthInv', [BreadthNext]_breadthVars
    PROVE  BreadthTypeOK'
  <1>1. LastTick \in Nat /\ Kinds = {"area", "sensor"}  BY BreadthAssumption DEF Kinds
  <1>2. entry' # Nothing => /\ Cardinality(entry'.slugs) <= AreaLimit
                            /\ Cardinality(entry'.sensors) <= SensorLimit
    <2> SUFFICES ASSUME entry' # Nothing
        PROVE Cardinality(entry'.slugs) <= AreaLimit /\ Cardinality(entry'.sensors) <= SensorLimit
      OBVIOUS
    <2>1. \A k \in Kinds : Cardinality(CountedIn(entry', k)) <= Limit[k]
      BY DEF BreadthInv, EntryTells, Tells
    <2>2. CountedIn(entry', "area") = entry'.slugs /\ CountedIn(entry', "sensor") = entry'.sensors
      BY DEF CountedIn
    <2>3. Limit["area"] = AreaLimit /\ Limit["sensor"] = SensorLimit  BY DEF Limit
    <2> QED  BY <2>1, <2>2, <2>3, <1>1
  <1>3. ASSUME NEW o \in Observers, asked[o] # Nothing
        PROVE  Found(asked[o]) \in Entries /\ asked[o] \in Ticks
    <2>1. asked[o] \in Ticks  BY <1>3 DEF BreadthTypeOK
    <2>2. CASE entry = Nothing \/ (entry # Nothing /\ Rolls(asked[o]))
      BY <2>1, <2>2 DEF Found, Entries
    <2>3. CASE entry # Nothing /\ ~Rolls(asked[o])
      BY <2>1, <2>3 DEF Found, Entries, BreadthTypeOK
    <2> QED  BY <2>1, <2>2, <2>3
  <1>4. ASSUME NEW e \in Entries, NEW q \in Observations PROVE CountIn(e, q) \in Entries
    BY <1>4 DEF CountIn, Entries, Observations
  <1> DEFINE Shape ==
        /\ time' \in Ticks /\ asked' \in [Observers -> Ticks \cup {Nothing}]
        /\ evicting' \in Ticks \cup {Nothing}
        /\ entry' \in Entries \cup {Nothing}
        /\ \A k \in Kinds : served'[k] \in [Values[k] -> Ticks \cup {-1}]
  <1> SUFFICES Shape  BY <1>2 DEF BreadthTypeOK
  <1>5. ASSUME NEW o \in Observers, Ask(o) PROVE Shape
    BY <1>5 DEF Ask, BreadthTypeOK
  <1>6. ASSUME NEW o \in Observers, NEW q \in Observations, Serve(o, q) PROVE Shape
    <2>1. entry' \in Entries  BY <1>3, <1>4, <1>6 DEF Serve
    <2>2. /\ time' = time /\ evicting' = evicting /\ asked' = [asked EXCEPT ![o] = Nothing]
          /\ served' = [served EXCEPT ![q.kind][q.value] = time]
      BY <1>6 DEF Serve
    <2>3. q.kind \in Kinds /\ q.value \in Values[q.kind]
      BY DEF Observations, Kinds, Values
    <2>4. ASSUME NEW k \in Kinds PROVE served'[k] \in [Values[k] -> Ticks \cup {-1}]
      <3>1. served[k] \in [Values[k] -> Ticks \cup {-1}] /\ time \in Ticks
        BY DEF BreadthTypeOK
      <3>2. served = [j \in Kinds |-> served[j]]  BY DEF BreadthInv, Clocks
      <3> QED  BY <2>2, <2>3, <3>1, <3>2
    <2> QED  BY <2>1, <2>2, <2>4 DEF BreadthTypeOK
  <1>7. ASSUME NEW o \in Observers, NEW q \in Observations, TurnAway(o, q) PROVE Shape
    BY <1>3, <1>7 DEF TurnAway, Turned, BreadthTypeOK
  <1>8. CASE StartEvict  BY <1>8 DEF StartEvict, BreadthTypeOK
  <1>9. CASE Evict  BY <1>9 DEF Evict, BreadthTypeOK
  <1>10. CASE Passes
    <2>1. time' \in Ticks  BY <1>10, <1>1 DEF Passes, BreadthTypeOK, Ticks
    <2>2. \A k \in Kinds : served'[k] \in [Values[k] -> Ticks \cup {-1}]
      BY <1>10 DEF Passes, BreadthTypeOK
    <2> QED  BY <2>1, <2>2, <1>10 DEF Passes, BreadthTypeOK
  <1>11. CASE UNCHANGED breadthVars  BY <1>11 DEF breadthVars, BreadthTypeOK
  <1> HIDE DEF Shape
  <1>12. CASE \E o \in Observers :
                Ask(o) \/ \E q \in Observations : Serve(o, q) \/ TurnAway(o, q)
    BY <1>5, <1>6, <1>7, <1>12
  <1>13. \/ \E o \in Observers :
             Ask(o) \/ \E q \in Observations : Serve(o, q) \/ TurnAway(o, q)
         \/ StartEvict \/ Evict \/ Passes \/ UNCHANGED breadthVars
    BY DEF BreadthNext
  <1> QED  BY <1>8, <1>9, <1>10, <1>11, <1>12, <1>13

LEMMA BreadthInitTyped == BreadthInit => BreadthTypeOK
  BY BreadthAssumption DEF BreadthInit, BreadthTypeOK, Ticks

\* Controls: no slot, descriptor, bucket or entry ever leaves its range, the entry's
\* sets never outgrow their limits, and a time that was read is one the clock has shown.
THEOREM ControlsTypeCorrect ==
    AdmissionSpec /\ ConnSpec /\ BucketSpec /\ BreadthSpec => []ControlsTypeOK
  <1>1. ConnSpec => []ConnTypeOK
    <2>1. ConnInv => ConnTypeOK  BY DEF ConnInv
    <2> QED  BY <2>1, ConnInitInv, ConnNextInv, PTL DEF ConnSpec
  <1>2. BucketSpec => []BucketTypeOK
    BY BucketInitInv, BucketNextInv, BucketInitTyped, BucketNextTyped, PTL DEF BucketSpec
  <1>3. BreadthSpec => []BreadthTypeOK
    BY BreadthInitInv, BreadthNextInv, BreadthInitTyped, BreadthNextTyped, PTL DEF BreadthSpec
  <1>4. AdmissionTypeOK /\ ConnTypeOK /\ BucketTypeOK /\ BreadthTypeOK => ControlsTypeOK
    BY DEF ControlsTypeOK
  <1> QED  BY <1>1, <1>2, <1>3, <1>4, TypeCorrect, PTL

-----------------------------------------------------------------------------
(***************************************************************************)
(* A refusal is told the truth.                                            *)
(*                                                                         *)
(* Of the bucket: what it held when it refused was filled no later than    *)
(* the refusal, so by the time the header names a second's refill has come *)
(* (Promised), which is a token where the rate is at least one a second.   *)
(* Of the breadth: what an entry counts was served after its window began, *)
(* until that is too long ago to matter (CountedIsServed).                 *)
(***************************************************************************)
Promised ==
    told # None =>
        /\ told.allowed \in Nat /\ told.allowed <= allowed /\ told.until \in Nat
        /\ bucket # None /\ allowed = told.allowed =>
              bucket.lastFill + TicksPerSecond <= told.until

LEMMA PromiseKept ==
    ASSUME BucketInv, Promised, [BucketNext]_bucketVars
    PROVE  Promised'
  <1>1. allowed \in Nat /\ now \in Nat  BY DEF BucketInv, TimesRead
  <1>2. TicksPerSecond \in Nat  BY BucketAssumption
  <1>3. ASSUME NEW r \in Callers, Arrive(r) PROVE Promised'
    BY <1>3 DEF Arrive, Promised, history
  <1>4. ASSUME NEW r \in Callers, Allow(r) PROVE Promised'
    BY <1>1, <1>4 DEF Allow, Promised, history
  <1>5. ASSUME NEW r \in Callers, Deny(r) PROVE Promised'
    <2> DEFINE f == Filled(read[r])
               w == TicksPerSecond * RetryAfter(f.tokens)
    <2>1. f.tokens \in 0 .. Burst /\ f.lastFill \in Nat /\ f.lastFill <= now
      BY <1>5, FilledFacts DEF Deny
    <2>2. /\ bucket' = [tokens |-> f.tokens, lastFill |-> f.lastFill, lastSeen |-> read[r]]
          /\ told' = [allowed |-> allowed, until |-> now + w]
          /\ allowed' = allowed
      BY <1>5 DEF Deny
    <2>3. w \in Nat /\ w >= TicksPerSecond
      <3>1. f.tokens \in Int  BY <2>1
      <3> HIDE DEF f
      <3> QED  BY <3>1, RetryAfterIsPositive, WaitIsASecond
    <2> HIDE DEF f, w
    <2>4. /\ told'.allowed = allowed /\ told'.until = now + w
          /\ bucket'.lastFill = f.lastFill
      BY <2>2
    <2> QED  BY <1>1, <1>2, <2>1, <2>2, <2>3, <2>4 DEF Promised
  <1>6. CASE Sweep  BY <1>6 DEF Sweep, Promised, history
  <1>7. CASE StartSweep \/ Tick \/ Watch \/ UNCHANGED bucketVars
    BY <1>7 DEF StartSweep, Tick, Watch, bucketVars, Promised, history
  <1> QED  BY <1>3, <1>4, <1>5, <1>6, <1>7 DEF BucketNext

\* With a token a second at least, whoever comes back in time finds one.
LEMMA PromiseMeans ==
    ASSUME Unit <= Refill * TicksPerSecond, BucketInv, Promised,
           NEW r \in Callers, Deny(r), told # None, allowed = told.allowed
    PROVE  read[r] < told.until
  <1> SUFFICES ASSUME ~(read[r] < told.until) PROVE FALSE  OBVIOUS
  <1> DEFINE t == read[r]
             p == Refill * TicksPerSecond
  <1>1. t \in Nat /\ told.until \in Nat /\ t >= told.until
    BY DEF Deny, BucketInv, TimesRead, Promised
  <1>2. TicksPerSecond \in Nat /\ TicksPerSecond > 0 /\ Burst \in Nat /\ Burst >= p
        /\ Unit \in Nat /\ Refill \in Nat /\ p \in Nat
    BY BucketAssumption
  <1>3. Filled(t).tokens < Unit  BY DEF Deny
  <1>4. CASE bucket = None
    <2>1. Filled(t).tokens = Burst  BY <1>4 DEF Filled
    <2> HIDE DEF p
    <2> QED  BY <2>1, <1>2, <1>3 DEF p
  <1>5. CASE bucket # None
    <2> DEFINE L == bucket.lastFill
    <2>1. L \in Nat /\ bucket.tokens \in 0 .. Burst /\ L + TicksPerSecond <= t
      BY <1>1, <1>2, <1>5 DEF BucketInv, TimesRead, Promised
    <2>2. t > L  BY <2>1, <1>1, <1>2
    <2>3. Filled(t).tokens = Fewer(Burst, bucket.tokens + Refill * (t - L))
      BY <1>5, <2>2 DEF Filled
    <2>4. t - L \in Int /\ TicksPerSecond <= t - L  BY <2>1, <1>1, <1>2
    <2> DEFINE x == Refill * (t - L)
    <2>5. Refilled(TicksPerSecond) <= Refilled(t - L) /\ Refilled(t - L) \in Int
      <3>1. TicksPerSecond \in Int  BY <1>2
      <3> HIDE DEF t, L
      <3> QED  BY <2>4, <3>1, RefillAdds
    <2>6. p <= x /\ x \in Int  BY <2>5 DEF Refilled
    <2>7. Unit <= p  OBVIOUS
    <2> HIDE DEF x, p
    <2>8. Filled(t).tokens = Fewer(Burst, bucket.tokens + x)  BY <2>3 DEF x
    <2> QED  BY <2>1, <2>6, <2>7, <2>8, <1>2, <1>3 DEF Fewer
  <1> QED  BY <1>4, <1>5

\* An instant before everything that still matters, Window and Delay ticks ago.
Forgotten(t) == t <= time - Window - Delay

\* A window that has begun, whose values were served since or too long ago to matter.
Grounded(e) ==
    /\ e.windowStart <= time
    /\ \A k \in Kinds : \A v \in CountedIn(e, k) :
          served[k][v] >= e.windowStart \/ Forgotten(e.windowStart)

CountedIsServed == entry # Nothing => Grounded(entry)

LEMMA FoundIsServed ==
    ASSUME BreadthInv, CountedIsServed, NEW o \in Observers, asked[o] # Nothing
    PROVE  Grounded(Found(asked[o]))
  <1> DEFINE t == asked[o]
             e == Found(t)
             fresh == [windowStart |-> t, lastSeen |-> t, slugs |-> {}, sensors |-> {}]
  <1>1. t \in Nat /\ t <= time  BY DEF BreadthInv, Clocks
  <1>2. CASE entry = Nothing \/ (entry # Nothing /\ Rolls(t))
    <2>1. e = fresh  BY <1>2 DEF Found
    <2>2. fresh.windowStart = t /\ \A k \in Kinds : CountedIn(fresh, k) = {}
      BY DEF CountedIn
    <2> HIDE DEF e, fresh
    <2>3. Grounded(e)  BY <1>1, <2>1, <2>2 DEF Grounded
    <2> QED  BY <2>3 DEF e
  <1>3. CASE entry # Nothing /\ ~Rolls(t)
    <2>1. e = [entry EXCEPT !.lastSeen = t]  BY <1>3 DEF Found
    <2>2. entry \in [windowStart : Nat, lastSeen : Nat,
                     slugs : SUBSET Areas, sensors : SUBSET Sensors]
      BY <1>3 DEF BreadthInv, Clocks
    <2>3. /\ e.windowStart = entry.windowStart
          /\ e.slugs = entry.slugs /\ e.sensors = entry.sensors
      BY <2>1, <2>2
    <2>4. Grounded(entry)  BY <1>3 DEF CountedIsServed
    <2> HIDE DEF e
    <2>5. Grounded(e)  BY <2>3, <2>4 DEF Grounded, CountedIn
    <2> QED  BY <2>5 DEF e
  <1> QED  BY <1>2, <1>3

LEMMA CountedStaysServed ==
    ASSUME BreadthInv, CountedIsServed, [BreadthNext]_breadthVars
    PROVE  CountedIsServed'
  <1>1. time \in Nat /\ Window \in Nat /\ Delay \in Nat
    BY BreadthAssumption DEF BreadthInv, Clocks
  <1>2. entry # Nothing => entry.windowStart \in Nat  BY DEF BreadthInv, Clocks
  <1>3. ASSUME NEW o \in Observers, NEW q \in Observations, Serve(o, q)
        PROVE  CountedIsServed'
    <2> DEFINE e == Found(asked[o])
               K == q.kind
    <2>1. /\ asked[o] # Nothing /\ entry' = CountIn(e, q) /\ time' = time
          /\ served' = [served EXCEPT ![q.kind][q.value] = time]
      BY <1>3 DEF Serve
    <2>2. /\ K \in Kinds /\ q.value \in Values[K]  BY DEF Observations, Kinds, Values
    <2>3. Grounded(e)  BY <2>1, FoundIsServed
    <2>4. e \in [windowStart : Nat, lastSeen : Nat,
                 slugs : SUBSET Areas, sensors : SUBSET Sensors]
      <3>1. "area" \in Kinds  BY DEF Kinds
      <3> QED  BY <2>1, <3>1, FoundTells
    <2>5. /\ entry'.windowStart = e.windowStart
          /\ \A k \in Kinds : \A v \in CountedIn(entry', k) :
                v \in CountedIn(e, k) \/ (k = K /\ v = q.value)
      <3> HIDE DEF e
      <3>1. CASE K = "area"
        <4>1. entry' = [e EXCEPT !.slugs = @ \cup {q.value}]  BY <2>1, <3>1 DEF CountIn
        <4>2. /\ entry'.windowStart = e.windowStart
              /\ entry'.slugs = e.slugs \cup {q.value} /\ entry'.sensors = e.sensors
          BY <4>1, <2>4
        <4> QED  BY <4>2, <3>1 DEF CountedIn
      <3>2. CASE K # "area"
        <4>1. entry' = [e EXCEPT !.sensors = @ \cup {q.value}]  BY <2>1, <3>2 DEF CountIn
        <4>2. /\ entry'.windowStart = e.windowStart
              /\ entry'.sensors = e.sensors \cup {q.value} /\ entry'.slugs = e.slugs
          BY <4>1, <2>4
        <4> QED  BY <4>2, <3>2, <2>2 DEF CountedIn, Kinds
      <3> QED  BY <3>1, <3>2
    <2>6. ASSUME NEW k \in Kinds, NEW v \in CountedIn(e, k)
          PROVE  served'[k][v] = served[k][v] \/ (served'[k][v] = time)
      <3>1. v \in Values[k]
        <4> HIDE DEF e
        <4> QED  BY <2>4 DEF CountedIn, Values, Kinds
      <3>2. served = [j \in Kinds |-> served[j]] /\ served[k] \in [Values[k] -> Int]
        BY DEF BreadthInv, Clocks
      <3> QED  BY <2>1, <2>2, <3>1, <3>2
    <2>7. served'[K][q.value] = time
      <3>1. served = [j \in Kinds |-> served[j]] /\ served[K] \in [Values[K] -> Int]
        BY <2>2 DEF BreadthInv, Clocks
      <3> QED  BY <2>1, <2>2, <3>1
    <2>8. e.windowStart <= time  BY <2>3 DEF Grounded
    <2>9. \A k \in Kinds : \A v \in CountedIn(entry', k) :
              served'[k][v] >= e.windowStart \/ Forgotten(e.windowStart)
      <3> HIDE DEF e, K
      <3> TAKE k \in Kinds
      <3> TAKE v \in CountedIn(entry', k)
      <3>1. CASE v \in CountedIn(e, k)
        <4>1. served[k][v] >= e.windowStart \/ Forgotten(e.windowStart)
          BY <2>3, <3>1 DEF Grounded
        <4>2. served'[k][v] = served[k][v] \/ served'[k][v] = time  BY <2>6, <3>1
        <4>3. time >= e.windowStart  BY <2>4, <2>8, <1>1
        <4> QED  BY <4>1, <4>2, <4>3
      <3>2. CASE k = K /\ v = q.value
        <4>1. time >= e.windowStart  BY <2>4, <2>8, <1>1
        <4> QED  BY <3>2, <2>7, <4>1
      <3> QED  BY <2>5, <3>1, <3>2
    <2>10. Grounded(entry)'
      <3> HIDE DEF e
      <3> QED  BY <2>1, <2>5, <2>8, <2>9 DEF Grounded, Forgotten, CountedIn
    <2> QED  BY <2>10 DEF CountedIsServed
  <1>4. ASSUME NEW o \in Observers, NEW q \in Observations, TurnAway(o, q)
        PROVE  CountedIsServed'
    <2>1. asked[o] # Nothing /\ entry' = Found(asked[o]) /\ time' = time /\ served' = served
      BY <1>4 DEF TurnAway, Turned
    <2>2. Grounded(Found(asked[o]))  BY <2>1, FoundIsServed
    <2> QED  BY <2>1, <2>2 DEF CountedIsServed, Grounded, Forgotten, CountedIn
  <1>5. CASE Evict
    BY <1>5 DEF Evict, CountedIsServed, Grounded, Forgotten, CountedIn
  <1>6. CASE Passes
    <2>1. /\ time' = time + 1 /\ entry' = entry
          /\ served' = [k \in Kinds |-> [v \in Values[k] |->
                IF served[k][v] > time' - Window - Delay THEN served[k][v] ELSE -1]]
      BY <1>6 DEF Passes
    <2> SUFFICES ASSUME entry # Nothing PROVE Grounded(entry)'
      BY <2>1 DEF CountedIsServed
    <2>2. Grounded(entry)  BY DEF CountedIsServed
    <2>3. entry.windowStart \in Nat /\ entry.windowStart <= time
      BY <1>2, <2>2 DEF Grounded
    <2>4. ASSUME NEW k \in Kinds, NEW v \in CountedIn(entry, k)
          PROVE  served'[k][v] >= entry.windowStart \/ Forgotten(entry.windowStart)'
      <3>1. v \in Values[k] /\ served[k][v] \in Int
        <4>1. v \in Values[k]  BY DEF BreadthInv, Clocks, CountedIn, Values, Kinds
        <4> QED  BY <4>1 DEF BreadthInv, Clocks
      <3>2. served[k][v] >= entry.windowStart \/ entry.windowStart <= time - Window - Delay
        BY <2>2 DEF Grounded, Forgotten
      <3>3. served'[k][v] = IF served[k][v] > (time + 1) - Window - Delay
                            THEN served[k][v] ELSE -1
        <4>1. served'[k] = [u \in Values[k] |->
                  IF served[k][u] > time' - Window - Delay THEN served[k][u] ELSE -1]
          BY <2>1
        <4>2. served'[k][v] = IF served[k][v] > time' - Window - Delay
                              THEN served[k][v] ELSE -1
          BY <3>1, <4>1
        <4> QED  BY <1>1, <2>1, <4>2
      <3>4. \/ served'[k][v] >= entry.windowStart
            \/ entry.windowStart <= (time + 1) - Window - Delay
        <4> DEFINE a == served[k][v]
                   b == served'[k][v]
                   w == entry.windowStart
        <4>1. /\ a \in Int /\ w \in Nat
              /\ a >= w \/ w <= time - Window - Delay
              /\ b = IF a > (time + 1) - Window - Delay THEN a ELSE -1
          BY <3>1, <3>2, <3>3, <2>3
        <4> HIDE DEF a, b, w
        <4>2. b >= w \/ w <= (time + 1) - Window - Delay  BY <4>1, <1>1
        <4> QED  BY <4>2 DEF a, b, w
      <3>5. Forgotten(entry.windowStart)' <=> entry.windowStart <= (time + 1) - Window - Delay
        <4>1. Forgotten(entry.windowStart)' <=> entry'.windowStart <= time' - Window - Delay
          BY DEF Forgotten
        <4> QED  BY <1>1, <2>1, <4>1
      <3> QED  BY <3>4, <3>5
    <2>5. entry'.windowStart <= time'  BY <2>1, <2>3, <1>1
    <2>6. \A k \in Kinds : CountedIn(entry', k) = CountedIn(entry, k)  BY <2>1
    <2> QED  BY <2>1, <2>4, <2>5, <2>6 DEF Grounded, Forgotten, CountedIn
  <1>7. CASE (\E o \in Observers : Ask(o)) \/ StartEvict \/ UNCHANGED breadthVars
    BY <1>7 DEF Ask, StartEvict, breadthVars, CountedIsServed, Grounded, Forgotten, CountedIn
  <1>8. \/ \E o \in Observers :
             Ask(o) \/ \E q \in Observations : Serve(o, q) \/ TurnAway(o, q)
        \/ StartEvict \/ Evict \/ Passes \/ UNCHANGED breadthVars
    BY DEF BreadthNext
  <1> QED  BY <1>3, <1>4, <1>5, <1>6, <1>7, <1>8

\* Who is turned away was shown the limit of other values within the window it is told of.
LEMMA TurnedAwayRightly ==
    ASSUME BreadthInv, CountedIsServed,
           NEW o \in Observers, NEW q \in Observations, TurnAway(o, q)
    PROVE  Cardinality(ServedSince(q.kind, time - Window - Delay) \ {q.value})
              >= Limit[q.kind]
  <1> DEFINE t == asked[o]
             e == Found(t)
             K == q.kind
             C == CountedIn(e, K)
             S == ServedSince(K, time - Window - Delay) \ {q.value}
  <1>1. t # Nothing /\ q.value \notin C /\ ~(Cardinality(C) < Limit[K])
    BY DEF TurnAway, Serves
  <1>2. K \in Kinds  BY DEF Observations, Kinds
  <1>3. /\ t \in Nat /\ t <= time /\ time - t <= Delay /\ time \in Nat
        /\ Delay \in Nat /\ Window \in Nat
    BY <1>1, BreadthAssumption DEF BreadthInv, Clocks
  <1>4. /\ e \in [windowStart : Nat, lastSeen : Nat,
                  slugs : SUBSET Areas, sensors : SUBSET Sensors]
        /\ C \in SUBSET Values[K]
    BY <1>1, <1>2, FoundTells DEF Tells
  <1>5. Limit[K] \in Nat /\ Limit[K] > 0 /\ IsFiniteSet(Values[K])  BY <1>2, KindFacts
  <1>6. entry # Nothing /\ ~Rolls(t)
    <2> SUFFICES ASSUME entry = Nothing \/ (entry # Nothing /\ Rolls(t)) PROVE FALSE
      OBVIOUS
    <2>1. e = [windowStart |-> t, lastSeen |-> t, slugs |-> {}, sensors |-> {}]  BY DEF Found
    <2>2. C = {}  BY <2>1 DEF CountedIn
    <2>3. Cardinality(C) = 0  BY <2>2, FS_EmptySet
    <2> HIDE DEF C
    <2> QED  BY <2>3, <1>1, <1>5
  <1>7. e.windowStart = entry.windowStart
    <2>1. e = [entry EXCEPT !.lastSeen = t]  BY <1>6 DEF Found
    <2>2. entry \in [windowStart : Nat, lastSeen : Nat,
                     slugs : SUBSET Areas, sensors : SUBSET Sensors]
      BY <1>6 DEF BreadthInv, Clocks
    <2> QED  BY <2>1, <2>2
  <1>8. e.windowStart \in Nat /\ e.windowStart > time - Window - Delay
    <2>1. e.windowStart \in Nat  BY <1>4
    <2>2. ~(t - e.windowStart >= Window)  BY <1>6, <1>7 DEF Rolls
    <2> HIDE DEF e, t
    <2> QED  BY <2>1, <2>2, <1>3
  <1>9. C \subseteq S
    <2> SUFFICES ASSUME NEW v \in C PROVE v \in S  OBVIOUS
    <2>1. v \in Values[K] /\ v # q.value  BY <1>1, <1>4
    <2>2. served[K][v] \in Int  BY <1>2, <2>1 DEF BreadthInv, Clocks
    <2>3. Grounded(e)  BY <1>1, FoundIsServed
    <2>4. served[K][v] >= e.windowStart \/ e.windowStart <= time - Window - Delay
      BY <1>2, <2>3 DEF Grounded, Forgotten
    <2>5. served[K][v] >= 0 /\ served[K][v] > time - Window - Delay
      <3> HIDE DEF e, K
      <3> QED  BY <2>2, <2>4, <1>3, <1>8
    <2> QED  BY <2>1, <2>5 DEF ServedSince
  <1>10. IsFiniteSet(S) /\ S \subseteq Values[K]
    <2>1. S \subseteq Values[K]  BY DEF ServedSince
    <2> QED  BY <2>1, <1>5, FS_Subset
  <1>11. Cardinality(C) \in Nat /\ Cardinality(S) \in Nat /\ Cardinality(C) <= Cardinality(S)
    <2>1. IsFiniteSet(C)  BY <1>9, <1>10, FS_Subset
    <2> QED  BY <2>1, <1>9, <1>10, FS_Subset, FS_CardinalityType
  <1>12. Cardinality(S) >= Limit[K]
    <2> HIDE DEF C, S
    <2> QED  BY <1>1, <1>5, <1>11
  <1> QED  BY <1>12

\* Refusals: with a token a second at least, whoever comes back when the header told
\* it to finds one, if no other request of its took it; and a reader is refused
\* another area or sensor only after it was shown its limit of them within a window.
THEOREM RefusalsAlwaysTrue ==
    ASSUME Unit <= Refill * TicksPerSecond
    PROVE  BucketSpec /\ BreadthSpec => RefusalsAreTrue
  <1>1. BucketInit => Promised  BY DEF BucketInit, Promised
  <1>2. BreadthInit => CountedIsServed  BY DEF BreadthInit, CountedIsServed
  <1>3. BucketInv /\ Promised /\ [BucketNext]_bucketVars
        => [\A r \in Callers :
              Deny(r) /\ told # None =>
                  \/ read[r] < told.until
                  \/ allowed # told.allowed]_bucketVars
    BY PromiseMeans
  <1>4. BreadthInv /\ CountedIsServed /\ [BreadthNext]_breadthVars
        => [\A o \in Observers, q \in Observations : TurnAway(o, q) =>
              Cardinality(ServedSince(q.kind, time - Window - Delay) \ {q.value})
                  >= Limit[q.kind]]_breadthVars
    BY TurnedAwayRightly
  <1>5. BucketSpec => RetryAfterTruthful
    BY BucketInitInv, BucketNextInv, PromiseKept, <1>1, <1>3, PTL
       DEF BucketSpec, RetryAfterTruthful
  <1>6. BreadthSpec => NoFalseRefusal
    BY BreadthInitInv, BreadthNextInv, CountedStaysServed, <1>2, <1>4, PTL
       DEF BreadthSpec, NoFalseRefusal
  <1> QED  BY <1>5, <1>6 DEF RefusalsAreTrue

=============================================================================
