---------------------------- MODULE ServerProofs ----------------------------
(***************************************************************************)
(* The server's parts beside the rollup, for every value of their          *)
(* constants.                                                              *)
(*                                                                         *)
(* EeaCollector: what the collectors remember is stored or about to be, as *)
(* long as no body was dropped after it was remembered.  For each part of  *)
(* each file there is a collector that answers for it (Answers): the one   *)
(* that wrote it last, at first any.  Remembering more puts the body in    *)
(* its batch, forgetting asks for less, and when another one writes the    *)
(* part, that one answers for it, because a batch is never older than what *)
(* its collector remembers (BatchIsNewest).  And as long as nothing fails, *)
(* what was downloaded is what is remembered (Unfailing).                  *)
(*                                                                         *)
(* Lifecycle: a clean exit.  The drain gives the listeners their time in   *)
(* order (DrainOrder), the loops are down before the pools (WayDown), and  *)
(* what lies in the channel was sent by listeners that send no more        *)
(* (ErrChCounts), so it never fills.                                       *)
(***************************************************************************)
EXTENDS EeaCollector, Lifecycle, SequenceTheorems, FiniteSetTheorems, TLAPS

(* The collectors of official files. *)

Answers(c, f, p) == stored[f][p] >= known[c][f] \/ AboutToStore(c, f, p)

\* A body that came is as new as the header that came with it.
BatchIsNewest ==
    drops = 0 => \A c \in Collectors, f \in Files :
                    batch[c][f] # 0 => batch[c][f] >= known[c][f]

\* The chunks to write are of files in the batch.
UnwrittenIsBatch ==
    \A c \in Collectors : \A f \in Files, p \in Parts :
        <<f, p>> \in unwritten[c] => batch[c][f] # 0

\* Between two fetches no entry is of the age at which it is forgotten.
Pruned ==
    \A c \in Collectors, f \in Files : stage[c] # "fetch" => quiet[c][f] < TTLCycles

SomeoneAnswers ==
    drops = 0 => \A f \in Files, p \in Parts : \E c \in Collectors : Answers(c, f, p)

EeaInv == EeaTypeOK /\ BatchIsNewest /\ UnwrittenIsBatch /\ Pruned /\ SomeoneAnswers

\* Revisions are natural numbers and failures are only added.
LEMMA Counts ==
    ASSUME EeaTypeOK, [EeaNext]_eeaVars
    PROVE  /\ Revisions \subseteq Nat /\ 0 \in Revisions
           /\ drops \in Nat /\ drops' >= drops
  <1>1. Revisions \subseteq Nat /\ 0 \in Revisions /\ drops \in Nat
    BY EeaAssumption DEF Revisions, EeaTypeOK
  <1>2. drops' = drops \/ drops' = drops + 1
    BY DEF EeaNext, Poll, Start, Prune, WriteFileChunk, NotModified, Download, WriteFails, Restart,
           FetchFails, Revise, Fault, Drop, eeaVars
  <1> QED  BY <1>1, <1>2

\* Before the first poll nothing is remembered and nothing is owed.
LEMMA EeaInitInv == EeaInit => EeaInv
  <1> SUFFICES ASSUME EeaInit PROVE EeaInv  OBVIOUS
  <1> USE EeaAssumption
  <1>1. EeaTypeOK
    <2>1. {0, 1} \subseteq Revisions  BY DEF Revisions
    <2>2. NoFile \in [Files -> Revisions] /\ NoFile \in [Files -> 0 .. TTLCycles]
      BY <2>1 DEF NoFile
    <2> QED  BY <2>1, <2>2 DEF EeaInit, EeaTypeOK
  <1>2. BatchIsNewest /\ UnwrittenIsBatch /\ Pruned
    BY DEF EeaInit, NoFile, BatchIsNewest, UnwrittenIsBatch, Pruned
  <1>3. SomeoneAnswers
    BY DEF EeaInit, NoFile, SomeoneAnswers, Answers
  <1> QED  BY <1>1, <1>2, <1>3 DEF EeaInv

-----------------------------------------------------------------------------
(* The types. *)

\* The bounds on faults and drops hold through every step.
LEMMA CountsTyped ==
    ASSUME EeaTypeOK, Fault \/ Drop \/ UNCHANGED <<eeaFaults, drops>>
    PROVE  eeaFaults' \in 0 .. MaxEeaFaults /\ drops' \in 0 .. MaxDrops
  BY EeaAssumption DEF EeaTypeOK, Fault, Drop

\* The end of a cycle leaves its collector as it was typed.
LEMMA EndTyped ==
    ASSUME EeaTypeOK, NEW c \in Collectors, EndsCycle(c)
    PROVE  /\ stage' \in [Collectors -> {"idle", "fetch", "write"}]
           /\ todo' \in [Collectors -> SUBSET Files]
           /\ batch' \in [Collectors -> [Files -> Revisions]]
           /\ unwritten' \in [Collectors -> SUBSET (Files \X Parts)]
  <1>1. NoFile \in [Files -> Revisions]  BY EeaAssumption DEF NoFile, Revisions
  <1> QED  BY <1>1 DEF EeaTypeOK, EndsCycle

\* Every step keeps the types.
LEMMA TypesKept ==
    ASSUME EeaTypeOK, Pruned, [EeaNext]_eeaVars
    PROVE  EeaTypeOK'
  <1> USE EeaAssumption
  <1>0. 0 \in Revisions /\ Revisions \subseteq Nat /\ NoFile \in [Files -> Revisions]
        /\ NoFile \in [Files -> 0 .. TTLCycles] /\ 0 \in 0 .. TTLCycles
    BY DEF Revisions, NoFile
  <1>1. CASE UNCHANGED eeaVars  BY <1>1 DEF eeaVars, memory, cycle, EeaTypeOK
  <1>2. ASSUME NEW c \in Collectors, Start(c) PROVE EeaTypeOK'
    <2>1. /\ todo' \in [Collectors -> SUBSET Files] /\ known' \in [Collectors -> [Files -> Revisions]]
          /\ eeaFaults' \in 0 .. MaxEeaFaults /\ drops' \in 0 .. MaxDrops
      <3>1. CASE UNCHANGED <<known, eeaFaults, drops>>
        BY <3>1, <1>2 DEF Start, EeaTypeOK
      <3>2. CASE Fault /\ UNCHANGED known
        BY <3>2, <1>2, CountsTyped DEF Start, EeaTypeOK
      <3>3. CASE Fault /\ todo' = [todo EXCEPT ![c] = Files]
                 /\ \E f \in Files : known' = [known EXCEPT ![c][f] = 0]
        BY <3>3, <1>0, CountsTyped DEF EeaTypeOK
      <3> QED  BY <3>1, <3>2, <3>3, <1>2 DEF Start
    <2>2. \A f \in Files : quiet[c][f] + 1 \in 0 .. TTLCycles
      BY <1>2 DEF Start, EeaTypeOK, Pruned
    <2>3. quiet' \in [Collectors -> [Files -> 0 .. TTLCycles]]
      BY <2>2, <1>2, <1>0 DEF Start, Ages, EeaTypeOK
    <2> QED  BY <2>1, <2>3, <1>2 DEF Start, EeaTypeOK
  <1>3. ASSUME NEW c \in Collectors, NEW f \in Files, NotModified(c, f) \/ FetchFails(c, f) PROVE EeaTypeOK'
    <2>1. eeaFaults' \in 0 .. MaxEeaFaults /\ drops' \in 0 .. MaxDrops
      BY <1>3, CountsTyped DEF NotModified, FetchFails
    <2>2. todo' \in [Collectors -> SUBSET Files]
      BY <1>3 DEF NotModified, FetchFails, Fetched, EeaTypeOK
    <2>3. quiet' \in [Collectors -> [Files -> 0 .. TTLCycles]]
      <3>1. CASE NotModified(c, f)  BY <3>1, <1>0 DEF NotModified, EeaTypeOK
      <3>2. CASE FetchFails(c, f)  BY <3>2 DEF FetchFails, memory, EeaTypeOK
      <3> QED  BY <3>1, <3>2, <1>3
    <2> QED
      BY <2>1, <2>2, <2>3, <1>3 DEF NotModified, FetchFails, memory, EeaTypeOK
  <1>4. ASSUME NEW c \in Collectors, NEW f \in Files, Download(c, f) PROVE EeaTypeOK'
    <2>1. eeaFaults' \in 0 .. MaxEeaFaults /\ drops' \in 0 .. MaxDrops
      BY <1>4, CountsTyped DEF Download, Fault, Drop
    <2>2. upstream[f] \in Revisions  BY DEF EeaTypeOK
    <2>3. /\ known' \in [Collectors -> [Files -> Revisions]]
          /\ batch' \in [Collectors -> [Files -> Revisions]]
          /\ downloaded' \in [Collectors -> [Files -> Revisions]]
      <3>1. known' = [known EXCEPT ![c][f] = upstream[f]] \/ known' = known
        BY <1>4 DEF Download, Remember
      <3>2. batch' = [batch EXCEPT ![c][f] = upstream[f]] \/ batch' = batch
        BY <1>4 DEF Download
      <3>3. downloaded' = [downloaded EXCEPT ![c][f] = upstream[f]]
        BY <1>4 DEF Download
      <3>4. known' \in [Collectors -> [Files -> Revisions]]
        <4>1. CASE known' = known  BY <4>1 DEF EeaTypeOK
        <4>2. CASE known' = [known EXCEPT ![c][f] = upstream[f]]
          BY <4>2, <2>2 DEF EeaTypeOK
        <4> QED  BY <4>1, <4>2, <3>1
      <3>5. batch' \in [Collectors -> [Files -> Revisions]]
        <4>1. CASE batch' = batch  BY <4>1 DEF EeaTypeOK
        <4>2. CASE batch' = [batch EXCEPT ![c][f] = upstream[f]]
          BY <4>2, <2>2 DEF EeaTypeOK
        <4> QED  BY <4>1, <4>2, <3>2
      <3>6. downloaded' \in [Collectors -> [Files -> Revisions]]  BY <2>2, <3>3 DEF EeaTypeOK
      <3> QED  BY <3>4, <3>5, <3>6
    <2>4. todo' \in [Collectors -> SUBSET Files]
          /\ quiet' \in [Collectors -> [Files -> 0 .. TTLCycles]]
      BY <1>4, <1>0 DEF Download, Fetched, EeaTypeOK
    <2> QED  BY <2>1, <2>3, <2>4, <1>4 DEF Download, EeaTypeOK
  <1>5. ASSUME NEW c \in Collectors, Prune(c) PROVE EeaTypeOK'
    BY <1>5, <1>0 DEF Prune, EeaTypeOK
  <1>6. ASSUME NEW c \in Collectors, WriteFileChunk(c) PROVE EeaTypeOK'
    <2>1. PICK f \in Files, p \in Parts :
            /\ stored' = [stored EXCEPT ![f][p] = batch[c][f]]
            /\ IF unwritten[c] = {<<f, p>>} THEN EndsCycle(c)
               ELSE /\ unwritten' = [unwritten EXCEPT ![c] = @ \ {<<f, p>>}]
                    /\ UNCHANGED <<stage, todo, batch>>
      BY <1>6 DEF WriteFileChunk
    <2>2. batch[c][f] \in Revisions  BY DEF EeaTypeOK
    <2>3. stored' \in [Files -> [Parts -> Revisions]]  BY <2>1, <2>2 DEF EeaTypeOK
    <2>4. /\ stage' \in [Collectors -> {"idle", "fetch", "write"}]
          /\ todo' \in [Collectors -> SUBSET Files]
          /\ batch' \in [Collectors -> [Files -> Revisions]]
          /\ unwritten' \in [Collectors -> SUBSET (Files \X Parts)]
      <3>1. CASE EndsCycle(c)  BY <3>1, EndTyped
      <3>2. CASE /\ unwritten' = [unwritten EXCEPT ![c] = @ \ {<<f, p>>}]
                 /\ UNCHANGED <<stage, todo, batch>>
        BY <3>2 DEF EeaTypeOK
      <3> QED  BY <3>1, <3>2, <2>1
    <2> QED  BY <2>3, <2>4, <1>6 DEF WriteFileChunk, memory, EeaTypeOK
  <1>7. ASSUME NEW c \in Collectors, WriteFails(c) \/ Restart(c) PROVE EeaTypeOK'
    <2>1. eeaFaults' \in 0 .. MaxEeaFaults /\ drops' \in 0 .. MaxDrops /\ EndsCycle(c)
      BY <1>7, CountsTyped DEF WriteFails, Restart
    <2>2. /\ known' \in [Collectors -> [Files -> Revisions]]
          /\ quiet' \in [Collectors -> [Files -> 0 .. TTLCycles]]
          /\ downloaded' \in [Collectors -> [Files -> Revisions]]
      <3>1. CASE WriteFails(c)  BY <3>1 DEF WriteFails, memory, EeaTypeOK
      <3>2. CASE Restart(c)  BY <3>2, <1>0 DEF Restart, EeaTypeOK
      <3> QED  BY <3>1, <3>2, <1>7
    <2> QED  BY <2>1, <2>2, <1>7, EndTyped DEF WriteFails, Restart, EeaTypeOK
  <1>8. ASSUME NEW f \in Files, Revise(f) PROVE EeaTypeOK'
    BY <1>8, <1>0 DEF Revise, Revisions, memory, cycle, EeaTypeOK
  <1> QED
    BY <1>1, <1>2, <1>3, <1>4, <1>5, <1>6, <1>7, <1>8 DEF EeaNext, Poll

-----------------------------------------------------------------------------
(* The word the memory gives.  Each step says what it does to a collector. *)

\* What a step of one collector leaves of another one's memory and batch.
LEMMA OthersKept ==
    ASSUME EeaTypeOK, NEW c \in Collectors, NEW d \in Collectors, d # c,
           \/ Poll(c) \/ WriteFails(c) \/ Restart(c)
           \/ \E f \in Files : FetchFails(c, f)
    PROVE  /\ known'[d] = known[d] /\ batch'[d] = batch[d]
           /\ stage'[d] = stage[d] /\ unwritten'[d] = unwritten[d] /\ quiet'[d] = quiet[d]
  <1>1. CASE Start(c)  BY <1>1 DEF Start, Ages, EeaTypeOK
  <1>2. CASE Prune(c)  BY <1>2 DEF Prune, EeaTypeOK
  <1>3. CASE WriteFileChunk(c)  BY <1>3 DEF WriteFileChunk, EndsCycle, memory, EeaTypeOK
  <1>4. CASE WriteFails(c) \/ Restart(c)
    BY <1>4 DEF WriteFails, Restart, EndsCycle, memory, EeaTypeOK
  <1>5. ASSUME NEW f \in Files, NotModified(c, f) \/ FetchFails(c, f)
        PROVE  /\ known'[d] = known[d] /\ batch'[d] = batch[d]
               /\ stage'[d] = stage[d] /\ unwritten'[d] = unwritten[d] /\ quiet'[d] = quiet[d]
    BY <1>5 DEF NotModified, FetchFails, memory, EeaTypeOK
  <1>6. ASSUME NEW f \in Files, Download(c, f)
        PROVE  /\ known'[d] = known[d] /\ batch'[d] = batch[d]
               /\ stage'[d] = stage[d] /\ unwritten'[d] = unwritten[d] /\ quiet'[d] = quiet[d]
    BY <1>6 DEF Download, Remember, EeaTypeOK
  <1> QED  BY <1>1, <1>2, <1>3, <1>4, <1>5, <1>6 DEF Poll

\* What a collector owes after a step of its own: everything but who answers.
Owes(c) ==
    /\ drops = 0 => \A f \in Files : batch[c][f] # 0 => batch[c][f] >= known[c][f]
    /\ \A f \in Files, p \in Parts : <<f, p>> \in unwritten[c] => batch[c][f] # 0
    /\ stage[c] # "fetch" => \A f \in Files : quiet[c][f] < TTLCycles

\* Fetching: what is remembered is in the batch, and pruning only forgets.
LEMMA Fetching ==
    ASSUME EeaInv, drops' = 0 => drops = 0, NEW c \in Collectors,
           \/ Start(c) \/ Prune(c)
           \/ \E f \in Files : NotModified(c, f) \/ FetchFails(c, f) \/ Download(c, f)
    PROVE  /\ Owes(c)'
           /\ drops' = 0 => \A f \in Files, p \in Parts : Answers(c, f, p) => Answers(c, f, p)'
  <1> USE EeaAssumption
  <1>a. /\ Revisions \subseteq Nat
        /\ \A f \in Files : /\ known[c][f] \in Nat /\ batch[c][f] \in Nat /\ upstream[f] \in Nat
                             /\ quiet[c][f] \in 0 .. TTLCycles
        /\ \A f \in Files, p \in Parts : stored[f][p] \in Nat
    BY DEF EeaInv, EeaTypeOK, Revisions
  <1>b. /\ drops = 0 => \A f \in Files : batch[c][f] # 0 => batch[c][f] >= known[c][f]
        /\ \A f \in Files, p \in Parts : <<f, p>> \in unwritten[c] => batch[c][f] # 0
    BY DEF EeaInv, BatchIsNewest, UnwrittenIsBatch
  <1>1. CASE Start(c)
    <2>1. /\ stage'[c] = "fetch" /\ batch' = batch /\ stored' = stored /\ unwritten' = unwritten
          /\ stage[c] = "idle"
      BY <1>1 DEF Start, EeaInv, EeaTypeOK
    <2>2. \A f \in Files : known'[c][f] \in {known[c][f], 0}
      BY <1>1 DEF Start, EeaInv, EeaTypeOK
    <2> QED  BY <2>1, <2>2, <1>a, <1>b DEF Owes, Answers, AboutToStore
  <1>2. CASE Prune(c)
    <2>1. /\ stage'[c] \in {"idle", "write"} /\ batch' = batch /\ stored' = stored
          /\ unwritten'[c] = {f \in Files : batch[c][f] # 0} \X Parts
      BY <1>2 DEF Prune, EeaInv, EeaTypeOK
    <2>2. \A f \in Files : /\ known'[c][f] = IF f \in Unseen(c) THEN 0 ELSE known[c][f]
                           /\ quiet'[c][f] = IF f \in Unseen(c) THEN 0 ELSE quiet[c][f]
      BY <1>2 DEF Prune, EeaInv, EeaTypeOK
    <2>3. \A f \in Files : quiet'[c][f] < TTLCycles
      BY <2>2, <1>a DEF Unseen
    <2>4. \A f \in Files : known'[c][f] \in {known[c][f], 0}  BY <2>2
    <2> QED  BY <2>1, <2>3, <2>4, <1>a, <1>b DEF Owes, Answers, AboutToStore
  <1>3. ASSUME NEW f \in Files, NotModified(c, f) \/ FetchFails(c, f)
        PROVE  /\ Owes(c)'
               /\ \A g \in Files, p \in Parts : Answers(c, g, p) => Answers(c, g, p)'
    <2>1. /\ stage'[c] = "fetch" /\ batch' = batch /\ stored' = stored /\ unwritten' = unwritten
          /\ known' = known /\ stage' = stage
      BY <1>3 DEF NotModified, FetchFails, Fetched, memory
    <2> QED  BY <2>1, <1>b DEF Owes, Answers, AboutToStore
  <1>4. ASSUME NEW f \in Files, Download(c, f)
        PROVE  /\ Owes(c)'
               /\ drops' = 0 => \A g \in Files, p \in Parts : Answers(c, g, p) => Answers(c, g, p)'
    <2>1. /\ stage[c] = "fetch" /\ stage' = stage /\ stored' = stored /\ unwritten' = unwritten
          /\ known[c][f] < upstream[f]
      BY <1>4 DEF Download, Fetched
    <2>2. /\ \A g \in Files \ {f} : known'[c][g] = known[c][g] /\ batch'[c][g] = batch[c][g]
          /\ known'[c][f] \in {known[c][f], upstream[f]}
          /\ batch'[c][f] \in {batch[c][f], upstream[f]}
      BY <1>4 DEF Download, Remember, EeaInv, EeaTypeOK
    <2>3. drops' = 0 => batch'[c][f] = upstream[f]
      BY <1>4, EeaAssumption DEF Download, Drop, EeaInv, EeaTypeOK
    <2>4. upstream[f] # 0 /\ (drops' = 0 => batch'[c][f] >= known'[c][f])
      BY <2>1, <2>2, <2>3, <1>a
    <2>5. Owes(c)'  BY <2>1, <2>2, <2>4, <1>b DEF Owes
    <2>6. ASSUME drops' = 0, NEW g \in Files, NEW p \in Parts, Answers(c, g, p)
          PROVE  Answers(c, g, p)'
      BY <2>1, <2>2, <2>4, <2>6 DEF Answers, AboutToStore
    <2> QED  BY <2>5, <2>6
  <1> QED  BY <1>1, <1>2, <1>3, <1>4

\* A collector that starts anew owes nothing and answers for all it forgot.
LEMMA Restarting ==
    ASSUME EeaInv, NEW c \in Collectors, Restart(c)
    PROVE  Owes(c)' /\ \A f \in Files, p \in Parts : Answers(c, f, p)'
  <1> USE EeaAssumption
  <1>1. /\ \A f \in Files : known'[c][f] = 0 /\ quiet'[c][f] = 0 /\ batch'[c][f] = 0
        /\ unwritten'[c] = {} /\ stored' = stored
    BY DEF Restart, EndsCycle, NoFile, EeaInv, EeaTypeOK
  <1>2. \A f \in Files, p \in Parts : stored[f][p] \in Nat
    BY DEF EeaInv, EeaTypeOK, Revisions
  <1> QED  BY <1>1, <1>2 DEF Owes, Answers

\* Writing: the part written becomes this collector's to answer for; the others it
\* answered for are written already, or wait for another chunk.
LEMMA Writing ==
    ASSUME EeaInv, NEW c \in Collectors, WriteFileChunk(c)
    PROVE  /\ Owes(c)'
           /\ drops = 0 => \E f \in Files, p \in Parts :
                /\ Answers(c, f, p)'
                /\ \A g \in Files, q \in Parts :
                     <<g, q>> # <<f, p>>
                        => stored'[g][q] = stored[g][q] /\ (Answers(c, g, q) => Answers(c, g, q)')
  <1> USE EeaAssumption
  <1>1. PICK f \in Files, p \in Parts :
          /\ <<f, p>> \in unwritten[c]
          /\ stored' = [stored EXCEPT ![f][p] = batch[c][f]]
          /\ IF unwritten[c] = {<<f, p>>} THEN EndsCycle(c)
             ELSE /\ unwritten' = [unwritten EXCEPT ![c] = @ \ {<<f, p>>}]
                  /\ UNCHANGED <<stage, todo, batch>>
    BY DEF WriteFileChunk
  <1>2. /\ stage[c] = "write" /\ known' = known /\ quiet' = quiet /\ drops' = drops
    BY DEF WriteFileChunk, memory
  <1>3. /\ \A g \in Files : known[c][g] \in Nat /\ batch[c][g] \in Nat
        /\ drops = 0 => \A g \in Files : batch[c][g] # 0 => batch[c][g] >= known[c][g]
        /\ \A g \in Files, q \in Parts : <<g, q>> \in unwritten[c] => batch[c][g] # 0
        /\ \A g \in Files : quiet[c][g] < TTLCycles
    BY <1>2 DEF EeaInv, EeaTypeOK, Revisions, BatchIsNewest, UnwrittenIsBatch, Pruned
  <1>4. /\ stored'[f][p] = batch[c][f]
        /\ \A g \in Files, q \in Parts : <<g, q>> # <<f, p>> => stored'[g][q] = stored[g][q]
    BY <1>1 DEF EeaInv, EeaTypeOK
  <1>5. drops = 0 => Answers(c, f, p)'  BY <1>1, <1>2, <1>3, <1>4 DEF Answers
  <1>6. CASE EndsCycle(c)
    <2>1. unwritten'[c] = {} /\ \A g \in Files : batch'[c][g] = 0
      BY <1>6 DEF EndsCycle, NoFile, EeaInv, EeaTypeOK
    <2>2. Owes(c)'  BY <2>1, <1>2, <1>3 DEF Owes
    <2>3. CASE unwritten[c] = {<<f, p>>}
      <3>1. \A g \in Files, q \in Parts :
              <<g, q>> # <<f, p>> /\ Answers(c, g, q) => Answers(c, g, q)'
        BY <2>3, <1>2, <1>4 DEF Answers, AboutToStore
      <3> QED  BY <2>2, <3>1, <1>4, <1>5
    <2>4. CASE unwritten[c] # {<<f, p>>}
      <3>1. /\ unwritten'[c] = unwritten[c] \ {<<f, p>>} /\ batch' = batch /\ stage' = stage
        BY <2>4, <1>1 DEF EeaInv, EeaTypeOK
      <3>2. \A g \in Files, q \in Parts :
              <<g, q>> # <<f, p>> /\ Answers(c, g, q) => Answers(c, g, q)'
        BY <3>1, <1>2, <1>4 DEF Answers, AboutToStore
      <3> QED  BY <2>2, <3>2, <1>4, <1>5
    <2> QED  BY <2>3, <2>4
  <1>7. CASE ~EndsCycle(c)
    <2>1. /\ unwritten'[c] = unwritten[c] \ {<<f, p>>} /\ batch' = batch /\ stage' = stage
      BY <1>7, <1>1 DEF EeaInv, EeaTypeOK
    <2>2. Owes(c)'  BY <2>1, <1>2, <1>3 DEF Owes
    <2>3. \A g \in Files, q \in Parts :
            <<g, q>> # <<f, p>> /\ Answers(c, g, q) => Answers(c, g, q)'
      BY <2>1, <1>2, <1>4 DEF Answers, AboutToStore
    <2> QED  BY <2>2, <2>3, <1>4, <1>5
  <1> QED  BY <1>6, <1>7

\* WriteFails ends a cycle: with quiet and known untouched, only its drop matters.
LEMMA Failing ==
    ASSUME EeaInv, NEW c \in Collectors, WriteFails(c)
    PROVE  Owes(c)' /\ drops' # 0
  <1>1. /\ \A f \in Files : batch'[c][f] = 0 /\ quiet'[c][f] = quiet[c][f]
        /\ unwritten'[c] = {} /\ stage[c] = "write"
    BY DEF WriteFails, EndsCycle, NoFile, memory, EeaInv, EeaTypeOK
  <1>2. \A f \in Files : quiet[c][f] < TTLCycles  BY <1>1 DEF EeaInv, Pruned
  <1>3. drops' # 0  BY EeaAssumption DEF WriteFails, Drop, EeaInv, EeaTypeOK
  <1> QED  BY <1>1, <1>2, <1>3 DEF Owes

\* One step of any collector, or of the agency.
LEMMA EeaNextInv == EeaInv /\ [EeaNext]_eeaVars => EeaInv'
  <1> SUFFICES ASSUME EeaInv, [EeaNext]_eeaVars PROVE EeaInv'  OBVIOUS
  <1>a. EeaTypeOK /\ Pruned /\ SomeoneAnswers  BY DEF EeaInv
  <1>b. drops' = 0 => drops = 0  BY <1>a, Counts
  <1>c. \A d \in Collectors : Owes(d)
    BY DEF EeaInv, Owes, BatchIsNewest, UnwrittenIsBatch, Pruned
  <1>1. ASSUME \A d \in Collectors : Owes(d)', SomeoneAnswers'
        PROVE  EeaInv'
    <2>1. EeaTypeOK'  BY <1>a, TypesKept
    <2> QED
      BY <2>1, <1>1 DEF EeaInv, Owes, BatchIsNewest, UnwrittenIsBatch, Pruned
  <1>2. CASE UNCHANGED eeaVars
    <2>1. UNCHANGED <<drops, batch, known, unwritten, stage, quiet, stored>>
      BY <1>2 DEF eeaVars, memory, cycle
    <2> QED
      BY <2>1, <1>1, <1>a, <1>c DEF Owes, SomeoneAnswers, Answers, AboutToStore
  <1>3. ASSUME NEW f \in Files, Revise(f) PROVE EeaInv'
    <2>1. UNCHANGED <<drops, batch, known, unwritten, stage, quiet, stored>>
      BY <1>3 DEF Revise, memory, cycle
    <2> QED
      BY <2>1, <1>1, <1>a, <1>c DEF Owes, SomeoneAnswers, Answers, AboutToStore
  <1>4. ASSUME NEW c \in Collectors,
               \/ Poll(c) \/ WriteFails(c) \/ Restart(c)
               \/ \E f \in Files : FetchFails(c, f)
        PROVE  EeaInv'
    <2>1. \A d \in Collectors \ {c} :
            /\ known'[d] = known[d] /\ batch'[d] = batch[d]
            /\ stage'[d] = stage[d] /\ unwritten'[d] = unwritten[d] /\ quiet'[d] = quiet[d]
      BY <1>4, <1>a, OthersKept
    <2>2. \A d \in Collectors \ {c} : Owes(d)'
      BY <2>1, <1>b, <1>c DEF Owes
    <2>3. ASSUME NEW d \in Collectors \ {c}, NEW f \in Files, NEW p \in Parts,
                 stored'[f][p] = stored[f][p], Answers(d, f, p)
          PROVE  Answers(d, f, p)'
      BY <2>1, <2>3 DEF Answers, AboutToStore
    <2>4. CASE \/ Start(c) \/ Prune(c)
               \/ \E f \in Files : NotModified(c, f) \/ FetchFails(c, f) \/ Download(c, f)
      <3>1. stored' = stored
        BY <2>4 DEF Start, Prune, NotModified, FetchFails, Download
      <3>2. Owes(c)' /\ (drops' = 0 => \A f \in Files, p \in Parts :
                                        Answers(c, f, p) => Answers(c, f, p)')
        BY <2>4, <1>b, Fetching
      <3>3. ASSUME drops' = 0, NEW f \in Files, NEW p \in Parts
            PROVE  \E d \in Collectors : Answers(d, f, p)'
        <4>1. PICK d \in Collectors : Answers(d, f, p)
          BY <3>3, <1>a, <1>b DEF SomeoneAnswers
        <4> QED  BY <4>1, <3>1, <3>2, <3>3, <2>3
      <3>4. SomeoneAnswers'  BY <3>3 DEF SomeoneAnswers
      <3> QED  BY <3>2, <3>4, <2>2, <1>1
    <2>5. CASE WriteFileChunk(c)
      <3>1. drops' = drops  BY <2>5 DEF WriteFileChunk
      <3>2. Owes(c)'  BY <2>5, Writing
      <3>3. ASSUME drops' = 0, NEW g \in Files, NEW q \in Parts
            PROVE  \E d \in Collectors : Answers(d, g, q)'
        <4>1. PICK f \in Files, p \in Parts :
                /\ Answers(c, f, p)'
                /\ \A h \in Files, r \in Parts :
                     <<h, r>> # <<f, p>>
                        => stored'[h][r] = stored[h][r] /\ (Answers(c, h, r) => Answers(c, h, r)')
          BY <2>5, <3>1, <3>3, Writing
        <4>2. CASE <<g, q>> = <<f, p>>  BY <4>1, <4>2
        <4>3. CASE <<g, q>> # <<f, p>>
          <5>1. PICK d \in Collectors : Answers(d, g, q)
            BY <3>1, <3>3, <1>a DEF SomeoneAnswers
          <5> QED  BY <5>1, <4>1, <4>3, <2>3
        <4> QED  BY <4>2, <4>3
      <3>4. SomeoneAnswers'  BY <3>3 DEF SomeoneAnswers
      <3> QED  BY <3>2, <3>4, <2>2, <1>1
    <2>6. CASE Restart(c)
      <3>1. SomeoneAnswers'  BY <2>6, Restarting DEF SomeoneAnswers
      <3> QED  BY <3>1, <2>2, <2>6, Restarting, <1>1
    <2>7. CASE WriteFails(c)
      <3>1. SomeoneAnswers'  BY <2>7, Failing DEF SomeoneAnswers
      <3> QED  BY <3>1, <2>2, <2>7, Failing, <1>1
    <2> QED  BY <2>4, <2>5, <2>6, <2>7, <1>4 DEF Poll
  <1> QED  BY <1>2, <1>3, <1>4 DEF EeaNext

-----------------------------------------------------------------------------

\* RunOnce and the cache of file headers (collector.go): the memory keeps its shape,
\* and a revision all the collectors remember is stored or about to be, as long as no
\* body is dropped after its header was remembered.
THEOREM MemoryAlwaysSound == EeaSpec => []MemoryIsSound
  <1>1. EeaInv => MemoryIsSound
    BY DEF EeaInv, MemoryIsSound, RememberedIsStored, SomeoneAnswers, Answers
  <1> QED  BY EeaInitInv, EeaNextInv, <1>1, PTL DEF EeaSpec

\* Without faults a collector remembers what it downloaded last, and by the end of
\* the list has seen every file.
Unfailing ==
    eeaFaults = 0 =>
        /\ \A c \in Collectors, f \in Files : known[c][f] = downloaded[c][f]
        /\ \A c \in Collectors, f \in Files :
              stage[c] = "fetch" /\ f \notin todo[c] => quiet[c][f] = 0
        /\ \A c \in Collectors : stage[c] = "write" => todo[c] = {}

LEMMA FaultsStay ==
    ASSUME EeaTypeOK, [EeaNext]_eeaVars
    PROVE  /\ eeaFaults \in Nat /\ (eeaFaults' = 0 => eeaFaults = 0 /\ ~Fault)
           /\ TTLCycles \in Nat /\ TTLCycles > 0
  <1>1. eeaFaults \in Nat  BY EeaAssumption DEF EeaTypeOK
  <1>2. eeaFaults' = eeaFaults \/ eeaFaults' = eeaFaults + 1
    BY DEF EeaNext, Poll, Start, Prune, WriteFileChunk, NotModified, Download, WriteFails, Restart,
           FetchFails, Revise, Fault, Drop, eeaVars
  <1>3. Fault => eeaFaults' = eeaFaults + 1  BY DEF Fault
  <1> QED  BY <1>1, <1>2, <1>3, EeaAssumption

LEMMA UnfailingKept ==
    ASSUME EeaTypeOK, Unfailing, [EeaNext]_eeaVars
    PROVE  Unfailing'
  <1> SUFFICES ASSUME eeaFaults' = 0 PROVE Unfailing'  BY DEF Unfailing
  <1>1. eeaFaults = 0 /\ ~Fault /\ TTLCycles # 0  BY FaultsStay
  <1>2. /\ \A c \in Collectors, f \in Files : known[c][f] = downloaded[c][f]
        /\ \A c \in Collectors, f \in Files :
              stage[c] = "fetch" /\ f \notin todo[c] => quiet[c][f] = 0
        /\ \A c \in Collectors : stage[c] = "write" => todo[c] = {}
    BY <1>1 DEF Unfailing
  <1>3. ASSUME NEW c \in Collectors, Start(c) PROVE Unfailing'
    <2>1. /\ todo' = [todo EXCEPT ![c] = Files] /\ UNCHANGED known /\ UNCHANGED downloaded
          /\ stage' = [stage EXCEPT ![c] = "fetch"]
          /\ quiet' = [quiet EXCEPT ![c] =
                [f \in Files |-> IF known[c][f] = 0 THEN 0 ELSE quiet[c][f] + 1]]
      BY <1>1, <1>3 DEF Start, Ages
    <2>2. \A d \in Collectors : /\ d = c => stage'[d] = "fetch" /\ todo'[d] = Files
                                /\ d # c => /\ stage'[d] = stage[d] /\ todo'[d] = todo[d]
                                            /\ quiet'[d] = quiet[d]
      BY <2>1 DEF EeaTypeOK
    <2>3. \A d \in Collectors, f \in Files :
              stage'[d] = "fetch" /\ f \notin todo'[d] => quiet'[d][f] = 0
      BY <1>2, <2>2
    <2>4. \A d \in Collectors : stage'[d] = "write" => todo'[d] = {}
      BY <1>2, <2>2
    <2> QED  BY <1>2, <2>1, <2>3, <2>4 DEF Unfailing
  <1>4. ASSUME NEW c \in Collectors, NEW f \in Files, NotModified(c, f) PROVE Unfailing'
    <2>1. /\ UNCHANGED <<known, downloaded, stage>>
          /\ stage[c] = "fetch" /\ todo' = [todo EXCEPT ![c] = @ \ {f}]
          /\ quiet' = [quiet EXCEPT ![c][f] = 0]
      BY <1>4 DEF NotModified, Fetched
    <2>2. \A d \in Collectors, g \in Files :
              /\ quiet'[d][g] = quiet[d][g] \/ quiet'[d][g] = 0
              /\ g \in todo'[d] <=> g \in todo[d] /\ ~(d = c /\ g = f)
              /\ d = c /\ g = f => quiet'[d][g] = 0
      BY <2>1 DEF EeaTypeOK
    <2>3. \A d \in Collectors : stage'[d] = "write" => todo'[d] = {}
      BY <1>2, <2>1 DEF EeaTypeOK
    <2> QED  BY <1>2, <2>1, <2>2, <2>3 DEF Unfailing
  <1>5. ASSUME NEW c \in Collectors, NEW f \in Files, Download(c, f) PROVE Unfailing'
    <2>1. /\ stage[c] = "fetch" /\ UNCHANGED stage /\ todo' = [todo EXCEPT ![c] = @ \ {f}]
          /\ quiet' = [quiet EXCEPT ![c][f] = 0]
          /\ known' = [known EXCEPT ![c][f] = upstream[f]]
          /\ downloaded' = [downloaded EXCEPT ![c][f] = upstream[f]]
      BY <1>1, <1>5 DEF Download, Fetched, Remember
    <2>2. \A d \in Collectors, g \in Files :
              /\ quiet'[d][g] = quiet[d][g] \/ quiet'[d][g] = 0
              /\ g \in todo'[d] <=> g \in todo[d] /\ ~(d = c /\ g = f)
              /\ d = c /\ g = f => quiet'[d][g] = 0
      BY <2>1 DEF EeaTypeOK
    <2>3. \A d \in Collectors : stage'[d] = "write" => todo'[d] = {}
      BY <1>2, <2>1 DEF EeaTypeOK
    <2>4. \A d \in Collectors, g \in Files : known'[d][g] = downloaded'[d][g]
      BY <1>2, <2>1 DEF EeaTypeOK
    <2> QED  BY <1>2, <2>1, <2>2, <2>3, <2>4 DEF Unfailing
  <1>6. ASSUME NEW c \in Collectors, Prune(c) PROVE Unfailing'
    <2>1. /\ stage[c] = "fetch" /\ todo[c] = {} /\ UNCHANGED <<todo, downloaded>>
          /\ known' = [known EXCEPT ![c] =
                [f \in Files |-> IF f \in Unseen(c) THEN 0 ELSE known[c][f]]]
          /\ stage' = [stage EXCEPT ![c] = IF batch[c] = NoFile THEN "idle" ELSE "write"]
          /\ quiet' = [quiet EXCEPT ![c] =
                [f \in Files |-> IF f \in Unseen(c) THEN 0 ELSE quiet[c][f]]]
      BY <1>6 DEF Prune
    <2>2. Unseen(c) = {}  BY <1>1, <1>2, <2>1 DEF Unseen
    <2>3. \A d \in Collectors, f \in Files : known'[d][f] = known[d][f] /\ quiet'[d][f] = quiet[d][f]
      BY <2>1, <2>2 DEF EeaTypeOK
    <2>4. \A d \in Collectors : /\ d = c => stage'[d] # "fetch" /\ todo'[d] = {}
                                /\ d # c => stage'[d] = stage[d]
      BY <2>1 DEF EeaTypeOK
    <2> QED  BY <1>2, <2>1, <2>3, <2>4 DEF Unfailing
  <1>7. ASSUME NEW c \in Collectors, WriteFileChunk(c) \/ WriteFails(c) PROVE Unfailing'
    <2>1. UNCHANGED <<known, quiet, downloaded>> /\ stage[c] = "write"
          /\ (EndsCycle(c) \/ UNCHANGED <<stage, todo>>)
      BY <1>7 DEF WriteFileChunk, WriteFails, memory
    <2>2. CASE UNCHANGED <<stage, todo>>  BY <1>2, <2>1, <2>2 DEF Unfailing
    <2>3. CASE EndsCycle(c)
      <3>1. \A d \in Collectors : /\ d = c => stage'[d] = "idle" /\ todo'[d] = {}
                                  /\ d # c => stage'[d] = stage[d] /\ todo'[d] = todo[d]
        BY <2>3 DEF EndsCycle, EeaTypeOK
      <3> QED  BY <1>2, <2>1, <3>1 DEF Unfailing
    <2> QED  BY <2>1, <2>2, <2>3
  <1>8. ASSUME NEW f \in Files, Revise(f) PROVE Unfailing'
    BY <1>2, <1>8 DEF Revise, memory, cycle, Unfailing
  <1>9. CASE UNCHANGED eeaVars
    BY <1>2, <1>9 DEF eeaVars, memory, cycle, Unfailing
  <1>10. \A c \in Collectors : ~Restart(c) /\ \A f \in Files : ~FetchFails(c, f)
    BY <1>1 DEF Restart, FetchFails
  <1> QED  BY <1>3, <1>4, <1>5, <1>6, <1>7, <1>8, <1>9, <1>10 DEF EeaNext, Poll

\* What is downloaded without a fault is newer than what was downloaded before.
LEMMA DownloadIsNews ==
    ASSUME EeaTypeOK, Unfailing, [EeaNext]_eeaVars,
           NEW c \in Collectors, NEW f \in Files,
           eeaFaults' = 0, f \in todo[c], f \notin todo'[c], batch'[c][f] # batch[c][f]
    PROVE  upstream[f] > downloaded[c][f]
  <1>1. eeaFaults = 0 /\ ~Fault  BY FaultsStay
  <1>2. /\ known[c][f] = downloaded[c][f]
        /\ \A d \in Collectors : stage[d] = "write" => todo[d] = {}
    BY <1>1 DEF Unfailing
  <1>3. ASSUME NEW d \in Collectors, Start(d) \/ Prune(d) PROVE FALSE
    BY <1>3 DEF Start, Prune
  <1>4. ASSUME NEW d \in Collectors, WriteFileChunk(d) \/ WriteFails(d) PROVE FALSE
    <2>1. stage[d] = "write" /\ (EndsCycle(d) \/ UNCHANGED todo)
      BY <1>4 DEF WriteFileChunk, WriteFails
    <2>2. EndsCycle(d)  BY <2>1
    <2>3. d # c  BY <1>2, <2>1
    <2>4. todo'[c] = todo[c]  BY <2>2, <2>3 DEF EndsCycle, EeaTypeOK
    <2> QED  BY <2>4
  <1>5. ASSUME NEW d \in Collectors, NEW g \in Files, NotModified(d, g) PROVE FALSE
    BY <1>5 DEF NotModified
  <1>6. ASSUME NEW d \in Collectors, NEW g \in Files, Download(d, g)
        PROVE  upstream[f] > downloaded[c][f]
    <2>1. todo' = [todo EXCEPT ![d] = @ \ {g}] /\ known[d][g] < upstream[g]
      BY <1>6 DEF Download, Fetched
    <2>2. d = c /\ g = f  BY <2>1 DEF EeaTypeOK
    <2>3. known[c][f] \in Nat /\ upstream[f] \in Nat  BY EeaAssumption DEF EeaTypeOK, Revisions
    <2> QED  BY <1>2, <2>1, <2>2, <2>3
  <1>7. ASSUME NEW d \in Collectors, Restart(d) \/ \E g \in Files : FetchFails(d, g) PROVE FALSE
    BY <1>1, <1>7 DEF Restart, FetchFails
  <1>8. ASSUME NEW g \in Files, Revise(g) PROVE FALSE  BY <1>8 DEF Revise, cycle
  <1>9. CASE UNCHANGED eeaVars  BY <1>9 DEF eeaVars, cycle
  <1> QED  BY <1>3, <1>4, <1>5, <1>6, <1>7, <1>8, <1>9 DEF EeaNext, Poll

\* EEA collector: as long as nothing fails, a listed file that answers is downloaded
\* again only when the agency revised it, for any number of collectors and files.
THEOREM DownloadsAlwaysNeeded == EeaSpec => NoNeedlessDownload
  <1>1. EeaInit => Unfailing  BY DEF EeaInit, NoFile, Unfailing
  <1>2. EeaInv => EeaTypeOK  BY DEF EeaInv
  <1>3. EeaTypeOK /\ Unfailing /\ [EeaNext]_eeaVars
        => [\A c \in Collectors, f \in Files :
              (eeaFaults' = 0 /\ f \in todo[c] /\ f \notin todo'[c]
                  /\ batch'[c][f] # batch[c][f])
                 => upstream[f] > downloaded[c][f]]_eeaVars
    BY DownloadIsNews
  <1> QED  BY EeaInitInv, EeaNextInv, UnfailingKept, <1>1, <1>2, <1>3, PTL
           DEF EeaSpec, NoNeedlessDownload

-----------------------------------------------------------------------------
(* The end of a serve process. *)

Sent(l) == IF serve[l] = "sent" THEN 1 ELSE 0

\* What lies in the channel was sent by a listener that sends no more.
ErrChCounts == Len(errCh) <= Sent("public") + Sent("private") + Sent("tiles")

\* Before the drain a listener ends only by dying.
OnlyDeaths ==
    main = "select" =>
        /\ shut = {} /\ draining = "public"
        /\ \A l \in Listeners : serve[l] # "closed"
        /\ \A i \in 1 .. Len(errCh) : errCh[i] = "failed"

\* Run left its select for a reason.
EndHasReason == main # "select" => signalled \/ verdict = "error"

\* A listener that was given its time: it takes no request any more.
HadItsTime(l) == l \in shut /\ (l \notin inHand \/ expired)

\* The listeners are given their time one after the other.
DrainOrder ==
    /\ main = "drain" => draining # "none"
    /\ draining = "private" => HadItsTime("public")
    /\ draining = "tiles" => HadItsTime("public") /\ HadItsTime("private")
    /\ main \in {"stop", "wait", "close", "exited"} =>
           \A l \in Listeners : serve[l] = "off" \/ HadItsTime(l)

\* Only the basemap's listener may be off, and it has nothing in hand then.
OffIsIdle ==
    /\ serve["public"] # "off" /\ serve["private"] # "off"
    /\ \A l \in inHand : serve[l] # "off"

\* The loops are down before the pools are closed, and the queries after it.
WayDown ==
    /\ main \in {"close", "exited"} => \A p \in Loops : loop[p] \in {"off", "returned"}
    /\ main = "exited" => ~querying

LifeInv ==
    LifeTypeOK /\ ErrChCounts /\ OnlyDeaths /\ EndHasReason /\ DrainOrder
    /\ OffIsIdle /\ WayDown

\* A process that has just started has nothing to account for.
LEMMA LifeInitInv == LifecycleInit => LifeInv
<1> SUFFICES ASSUME LifecycleInit PROVE LifeInv
  OBVIOUS
<1> USE LifecycleAssumption
<1>1. LifeTypeOK
  <2>1. serve \in [Listeners -> {"off", "serving", "failed", "closed", "sent"}]
    BY DEF LifecycleInit
  <2>2. loop \in [Loops -> {"off", "cycle", "waits", "returned"}]
    BY DEF LifecycleInit
  <2>3. errCh \in Seq({"failed", "closed"})
    BY DEF LifecycleInit
  <2>4. main = "select" /\ draining = "public" /\ verdict = "none" /\ shut = {} /\ inHand = {}
        /\ signalled = FALSE /\ stopped = FALSE /\ expired = FALSE /\ querying = FALSE
    BY DEF LifecycleInit
  <2>5. ticks \in 0 .. MaxTicks /\ arrived \in 0 .. MaxRequests
    BY DEF LifecycleInit
  <2> QED
    BY <2>1, <2>2, <2>3, <2>4, <2>5 DEF LifeTypeOK, MainSteps, Listeners
<1>2. ErrChCounts
  BY DEF LifecycleInit, ErrChCounts, Sent, Listeners
<1>3. OnlyDeaths /\ EndHasReason /\ OffIsIdle
  BY DEF LifecycleInit, OnlyDeaths, EndHasReason, OffIsIdle, Listeners
<1>4. DrainOrder /\ WayDown
  BY DEF LifecycleInit, DrainOrder, WayDown
<1> QED
  BY <1>1, <1>2, <1>3, <1>4 DEF LifeInv

\* Neither the world's steps nor the loops touch the way down.
LEMMA WorldKeeps ==
    ASSUME LifeInv,
           Signal \/ Queries \/ QueryEnds \/ GraceEnds
           \/ \E l \in Listeners : Arrives(l) \/ Responds(l)
    PROVE  LifeInv'
<1> USE DEF LifeInv, front, back
<1>1. CASE Signal
  BY <1>1 DEF Signal, LifeTypeOK, ErrChCounts, Sent, OnlyDeaths, EndHasReason, HadItsTime, DrainOrder, OffIsIdle, WayDown
<1>2. CASE Queries
  BY <1>2 DEF Queries, LifeTypeOK, ErrChCounts, Sent, OnlyDeaths, EndHasReason, HadItsTime, DrainOrder, OffIsIdle, WayDown
<1>3. CASE QueryEnds
  BY <1>3 DEF QueryEnds, LifeTypeOK, ErrChCounts, Sent, OnlyDeaths, EndHasReason, HadItsTime, DrainOrder, OffIsIdle, WayDown
<1>4. CASE GraceEnds
  BY <1>4 DEF GraceEnds, LifeTypeOK, ErrChCounts, Sent, OnlyDeaths, EndHasReason, HadItsTime, DrainOrder, OffIsIdle, WayDown
<1>5. ASSUME NEW l \in Listeners, Arrives(l)
      PROVE  LifeInv'
  BY <1>5, LifecycleAssumption DEF Arrives, LifeTypeOK, ErrChCounts, Sent, OnlyDeaths, EndHasReason, HadItsTime, DrainOrder, OffIsIdle, WayDown
<1>6. ASSUME NEW l \in Listeners, Responds(l)
      PROVE  LifeInv'
  BY <1>6 DEF Responds, LifeTypeOK, ErrChCounts, Sent, OnlyDeaths, EndHasReason, HadItsTime, DrainOrder, OffIsIdle, WayDown
<1> QED
  BY <1>1, <1>2, <1>3, <1>4, <1>5, <1>6

\* A loop ends its cycle, waits, or returns once it is told.
LEMMA LoopsKeep ==
    ASSUME LifeInv, NEW p \in Loops, CycleEnds(p) \/ TimerTicks(p) \/ LoopReturns(p)
    PROVE  LifeInv'
<1> USE DEF LifeInv, front
<1>1. LifeTypeOK'
  BY LifecycleAssumption DEF LifeTypeOK, CycleEnds, TimerTicks, LoopReturns
<1>2. WayDown'
  BY DEF LifeTypeOK, WayDown, CycleEnds, TimerTicks, LoopReturns
<1>3. ErrChCounts' /\ OnlyDeaths' /\ EndHasReason' /\ DrainOrder' /\ OffIsIdle'
  BY DEF ErrChCounts, Sent, OnlyDeaths, EndHasReason, HadItsTime, DrainOrder, OffIsIdle,
         CycleEnds, TimerTicks, LoopReturns
<1> QED
  BY <1>1, <1>2, <1>3

\* A listener dies, returns or reports.
LEMMA ListenersKeep ==
    ASSUME LifeInv, NEW l \in Listeners, ListenerDies(l) \/ ServeReturns(l) \/ Reports(l)
    PROVE  LifeInv'
<1> USE DEF LifeInv, back
<1>1. serve \in [Listeners -> {"off", "serving", "failed", "closed", "sent"}]
      /\ errCh \in Seq({"failed", "closed"})
  BY DEF LifeTypeOK
<1>2. LifeTypeOK'
  <2>1. /\ serve' \in [Listeners -> {"off", "serving", "failed", "closed", "sent"}]
        /\ UNCHANGED <<main, draining, signalled, stopped, shut, expired, verdict, inHand,
                       querying, loop, ticks, arrived>>
    BY <1>1 DEF ListenerDies, ServeReturns, Reports
  <2>2. errCh' \in Seq({"failed", "closed"})
    BY <1>1 DEF ListenerDies, ServeReturns, Reports
  <2> QED
    BY <2>1, <2>2 DEF LifeTypeOK
<1>3. ErrChCounts'
  <2>1. CASE ListenerDies(l)
    BY <1>1, <2>1 DEF ErrChCounts, Sent, ListenerDies, Listeners
  <2>2. CASE ServeReturns(l)
    BY <1>1, <2>2 DEF ErrChCounts, Sent, ServeReturns, Listeners
  <2>3. CASE Reports(l)
    <3>1. serve[l] # "sent" /\ serve' = [serve EXCEPT ![l] = "sent"]
          /\ Len(errCh') = Len(errCh) + 1
      BY <1>1, <2>3 DEF Reports
    <3> QED
      BY <1>1, <3>1 DEF ErrChCounts, Sent, Listeners
  <2> QED
    BY <2>1, <2>2, <2>3
<1>4. OnlyDeaths'
  <2>1. CASE ListenerDies(l)
    BY <1>1, <2>1 DEF OnlyDeaths, ListenerDies
  <2>2. CASE ServeReturns(l)
    BY <1>1, <2>2 DEF OnlyDeaths, ServeReturns
  <2>3. CASE Reports(l)
    <3> SUFFICES ASSUME main' = "select" PROVE OnlyDeaths'
      BY DEF OnlyDeaths
    <3>1. main = "select" /\ serve[l] = "failed"
      BY <2>3 DEF Reports, OnlyDeaths
    <3>2. errCh' = Append(errCh, "failed") /\ Len(errCh') = Len(errCh) + 1
      BY <1>1, <2>3, <3>1 DEF Reports
    <3>3. \A i \in 1 .. Len(errCh') : errCh'[i] = "failed"
      BY <1>1, <3>1, <3>2 DEF OnlyDeaths
    <3> QED
      BY <1>1, <2>3, <3>1, <3>3 DEF OnlyDeaths, Reports
  <2> QED
    BY <2>1, <2>2, <2>3
<1>5. DrainOrder' /\ OffIsIdle'
  <2>1. /\ UNCHANGED <<main, draining, shut, inHand, expired>>
        /\ \A k \in Listeners : serve'[k] = "off" <=> serve[k] = "off"
    BY <1>1 DEF ListenerDies, ServeReturns, Reports
  <2>2. inHand \subseteq Listeners
    BY DEF LifeTypeOK
  <2>3. DrainOrder'
    BY <2>1 DEF DrainOrder, HadItsTime
  <2>4. OffIsIdle'
    BY <2>1, <2>2 DEF OffIsIdle, Listeners
  <2> QED
    BY <2>3, <2>4
<1>6. EndHasReason' /\ WayDown'
  BY DEF EndHasReason, WayDown, ListenerDies, ServeReturns, Reports
<1> QED
  BY <1>2, <1>3, <1>4, <1>5, <1>6

\* runServe and Run.
LEMMA MainKeeps ==
    ASSUME LifeInv, MainGoes
    PROVE  LifeInv'
<1> USE DEF LifeInv, front, back
<1>1. CASE Cancelled
  BY <1>1 DEF Cancelled, LifeTypeOK, MainSteps, ErrChCounts, Sent, OnlyDeaths, EndHasReason, HadItsTime, DrainOrder, OffIsIdle, WayDown
<1>2. CASE HearsListener
  <2>1. errCh \in Seq({"failed", "closed"}) /\ errCh # <<>>
    BY <1>2 DEF HearsListener, LifeTypeOK
  <2>2. Len(errCh) \in Nat /\ Len(errCh) > 0 /\ errCh' \in Seq({"failed", "closed"})
        /\ Len(errCh') = Len(errCh) - 1
    BY <1>2, <2>1, EmptySeq, HeadTailProperties DEF HearsListener
  <2>3. verdict' = "error"
    BY <1>2, <2>1, <2>2 DEF HearsListener, OnlyDeaths
  <2>4. LifeTypeOK'
    BY <1>2, <2>2, <2>3 DEF HearsListener, LifeTypeOK, MainSteps
  <2>5. ErrChCounts'
    BY <1>2, <2>2 DEF HearsListener, ErrChCounts, Sent
  <2>6. OnlyDeaths' /\ EndHasReason' /\ DrainOrder' /\ OffIsIdle' /\ WayDown'
    BY <1>2, <2>3 DEF HearsListener, OnlyDeaths, EndHasReason, HadItsTime, DrainOrder, OffIsIdle, WayDown
  <2> QED
    BY <2>4, <2>5, <2>6
<1>3. CASE Shutdown
  BY <1>3 DEF Shutdown, LifeTypeOK, MainSteps, ErrChCounts, Sent, OnlyDeaths, EndHasReason, HadItsTime, DrainOrder, OffIsIdle, WayDown
<1>4. CASE Drained
  <2>1. HadItsTime(draining) /\ main = "drain" /\ draining \in Listeners
    BY <1>4 DEF Drained, Idle, HadItsTime, DrainOrder, LifeTypeOK
  <2>2. \/ main' = "stop" /\ draining' = "none"
           /\ (After(draining) = "none" \/ serve[After(draining)] = "off")
        \/ main' = main /\ draining' = After(draining) /\ draining' # "none"
    BY <1>4 DEF Drained
  <2>3. /\ draining = "public" => After(draining) = "private"
        /\ draining = "private" => After(draining) = "tiles"
        /\ draining = "tiles" => After(draining) = "none"
    BY DEF After
  <2>4. LifeTypeOK'
    BY <1>4, <2>1, <2>2, <2>3 DEF Drained, LifeTypeOK, MainSteps, Listeners
  <2>5. DrainOrder'
    BY <1>4, <2>1, <2>2, <2>3 DEF Drained, DrainOrder, OffIsIdle, HadItsTime, Listeners
  <2>6. ErrChCounts' /\ OnlyDeaths' /\ OffIsIdle'
    BY <1>4, <2>1, <2>2 DEF Drained, ErrChCounts, Sent, OnlyDeaths, OffIsIdle
  <2>7. EndHasReason' /\ WayDown'
    BY <1>4, <2>1, <2>2 DEF Drained, EndHasReason, WayDown
  <2> QED
    BY <2>4, <2>5, <2>6, <2>7
<1>5. CASE StopPolling
  BY <1>5 DEF StopPolling, LifeTypeOK, MainSteps, ErrChCounts, Sent, OnlyDeaths, EndHasReason, HadItsTime, DrainOrder, OffIsIdle, WayDown
<1>6. CASE WaitForLoops
  BY <1>6 DEF WaitForLoops, LoopsDone, LifeTypeOK, MainSteps, ErrChCounts, Sent, OnlyDeaths, EndHasReason, HadItsTime, DrainOrder, OffIsIdle, WayDown
<1>7. CASE ClosePools
  BY <1>7 DEF ClosePools, LifeTypeOK, MainSteps, ErrChCounts, Sent, OnlyDeaths, EndHasReason, HadItsTime, DrainOrder, OffIsIdle, WayDown
<1> QED
  BY <1>1, <1>2, <1>3, <1>4, <1>5, <1>6, <1>7 DEF MainGoes

\* Nothing changes when nothing moves.
LEMMA LifeStutters ==
    ASSUME LifeInv, UNCHANGED lifeVars
    PROVE  LifeInv'
  BY DEF LifeInv, lifeVars, LifeTypeOK, ErrChCounts, Sent, OnlyDeaths, EndHasReason,
         HadItsTime, DrainOrder, OffIsIdle, WayDown

\* What holds on the way is what a clean exit asks for.
LEMMA LifeInvIsClean == LifeInv => ExitIsClean
<1> SUFFICES ASSUME LifeInv PROVE ExitIsClean
  OBVIOUS
<1> USE DEF LifeInv
<1>1. NoHalfCycle
  BY DEF WayDown, NoHalfCycle
<1>2. GraceIsGiven
  BY DEF DrainOrder, HadItsTime, OffIsIdle, GraceIsGiven, LifeTypeOK
<1>3. DeathIsReported
  BY DEF EndHasReason, DeathIsReported
<1>4. NobodyBlocksOnErrCh
  <2>1. Len(errCh) \in Nat
    BY DEF LifeTypeOK
  <2> QED
    BY <2>1 DEF ErrChCounts, Sent, NobodyBlocksOnErrCh, Buffer, Listeners
<1> QED
  BY <1>1, <1>2, <1>3, <1>4 DEF ExitIsClean

(***************************************************************************)
(* Whatever the order of a signal, listeners' deaths, requests and loops,  *)
(* the end of serve leaves no cycle half done, gives every request its     *)
(* grace, reports a death and blocks nobody (runServe and Run).            *)
(***************************************************************************)
THEOREM ExitAlwaysClean == LifecycleSpec => []ExitIsClean
<1>1. LifeInv /\ [LifecycleNext]_lifeVars => LifeInv'
  BY WorldKeeps, LoopsKeep, ListenersKeep, MainKeeps, LifeStutters DEF LifecycleNext
<1> QED
  BY LifeInitInv, <1>1, LifeInvIsClean, PTL DEF LifecycleSpec

=============================================================================
