---------------------------- MODULE EeaCollector ----------------------------
(***************************************************************************)
(* The collector of official readings (internal/upstream/eea/collector.go, *)
(* client.go): hourly files that the agency revises in place, fetched on   *)
(* condition that they changed, decoded, and written in chunks.            *)
(*                                                                         *)
(* `airbg serve` and `airbg collect` each run one.  What a collector knows *)
(* of the files lives in its memory; the rows are in table reading, which  *)
(* the collectors share.  A file's contents are its revision, and so is    *)
(* its Last-Modified header: the agency's clock only orders revisions.     *)
(* A part is what one chunk carries of a file's usable rows; rows that     *)
(* cannot be placed or whose pollutant is unknown are left out.            *)
(***************************************************************************)
EXTENDS Integers, FiniteSets

CONSTANTS
    Collectors,
    Files,
    Parts,
    TTLCycles,     \* fileFetchTTL / eea.poll_interval
    MaxRevision,   \* bound: the agency stops revising
    MaxEeaFaults,     \* bound: failures before anything was remembered
    MaxDrops       \* bound: failures after it

ASSUME EeaAssumption ==
    /\ Collectors # {} /\ Parts # {}
    /\ TTLCycles \in Nat \ {0} /\ MaxRevision \in Nat \ {0}
    /\ MaxEeaFaults \in Nat /\ MaxDrops \in Nat

Revisions == 0 .. MaxRevision      \* 0: none; a zero time is not sent

VARIABLES
    upstream,    \* the revision the agency serves of each file
    stored,      \* the revision each part of a file is stored at
    known,       \* lastFileFetch: lastModified, per collector and file
    quiet,       \* and its age: cycles since seenAt
    stage,          \* where each collector is in RunOnce
    todo,        \* files of the list still to fetch
    batch,       \* the decoded revisions, 0 for a file not in the batch
    unwritten,   \* chunks of the batch still to write
    eeaFaults, drops,
    downloaded   \* history: the last revision a collector downloaded

memory == <<known, quiet>>
cycle  == <<stage, todo, batch, unwritten>>
eeaVars   == <<upstream, stored, memory, cycle, eeaFaults, drops, downloaded>>

NoFile == [f \in Files |-> 0]

EeaTypeOK ==
    /\ upstream \in [Files -> Revisions]
    /\ stored \in [Files -> [Parts -> Revisions]]
    /\ known \in [Collectors -> [Files -> Revisions]]
    /\ quiet \in [Collectors -> [Files -> 0 .. TTLCycles]]
    /\ stage \in [Collectors -> {"idle", "fetch", "write"}]
    /\ todo \in [Collectors -> SUBSET Files]
    /\ batch \in [Collectors -> [Files -> Revisions]]
    /\ unwritten \in [Collectors -> SUBSET (Files \X Parts)]
    /\ eeaFaults \in 0 .. MaxEeaFaults /\ drops \in 0 .. MaxDrops
    /\ downloaded \in [Collectors -> [Files -> Revisions]]

EeaInit ==
    /\ upstream = [f \in Files |-> 1]
    /\ stored = [f \in Files |-> [p \in Parts |-> 0]]
    /\ known = [c \in Collectors |-> NoFile]
    /\ quiet = [c \in Collectors |-> NoFile]
    /\ stage = [c \in Collectors |-> "idle"]
    /\ todo = [c \in Collectors |-> {}]
    /\ batch = [c \in Collectors |-> NoFile]
    /\ unwritten = [c \in Collectors |-> {}]
    /\ eeaFaults = 0 /\ drops = 0
    /\ downloaded = [c \in Collectors |-> NoFile]

Fault == eeaFaults < MaxEeaFaults /\ eeaFaults' = eeaFaults + 1 /\ UNCHANGED drops
Drop  == drops < MaxDrops /\ drops' = drops + 1 /\ UNCHANGED eeaFaults

-----------------------------------------------------------------------------

Ages(c, remembered) ==
    quiet' = [quiet EXCEPT ![c] =
        [f \in Files |-> IF remembered[f] = 0 THEN 0 ELSE quiet[c][f] + 1]]

(* The metadata is at hand and FileURLs answered.  A file may be missing   *)
(* from the list, its URL be rejected, or be a new one, with a new token,  *)
(* of which nothing is remembered.  A cycle that fails here leaves         *)
(* everything as it was.                                                   *)
Start(c) ==
    /\ stage[c] = "idle"
    /\ \/ /\ todo' = [todo EXCEPT ![c] = Files]
          /\ UNCHANGED <<known, eeaFaults, drops>>
       \/ /\ \E f \in Files : todo' = [todo EXCEPT ![c] = Files \ {f}]
          /\ Fault
          /\ UNCHANGED known
       \/ /\ todo' = [todo EXCEPT ![c] = Files]
          /\ \E f \in Files : known' = [known EXCEPT ![c][f] = 0]
          /\ Fault
    /\ Ages(c, known'[c])
    /\ stage' = [stage EXCEPT ![c] = "fetch"]
    /\ UNCHANGED <<upstream, stored, batch, unwritten, downloaded>>

Fetched(c, f) == stage[c] = "fetch" /\ f \in todo[c]
                 /\ todo' = [todo EXCEPT ![c] = @ \ {f}]

\* Mutant of FetchFails: the entry is written before the error is looked at.
FetchFails_Remembered(c, f) ==
    /\ Fetched(c, f)
    /\ Fault
    /\ known' = [known EXCEPT ![c][f] = upstream[f]]
    /\ quiet' = [quiet EXCEPT ![c][f] = 0]
    /\ UNCHANGED <<upstream, stored, stage, batch, unwritten, downloaded>>

FetchFails(c, f) ==
    /\ Fetched(c, f)
    /\ Fault
    /\ UNCHANGED <<upstream, stored, memory, stage, batch, unwritten, downloaded>>

\* Mutant of NotModified: an unchanged file is not seen.
NotModified_Unseen(c, f) ==
    /\ Fetched(c, f)
    /\ known[c][f] >= upstream[f]
    /\ UNCHANGED <<upstream, stored, memory, stage, batch, unwritten, eeaFaults, drops,
                   downloaded>>

(* 304: only seenAt is bumped, so that pruning leaves the file alone. *)
NotModified(c, f) ==
    /\ Fetched(c, f)
    /\ known[c][f] >= upstream[f]
    /\ quiet' = [quiet EXCEPT ![c][f] = 0]
    /\ UNCHANGED <<upstream, stored, known, stage, batch, unwritten, eeaFaults, drops,
                   downloaded>>

\* Mutant of Remember: this host's clock, ahead of the agency's, is sent back.
Remember_HostClock(c, f) == IF upstream[f] < MaxRevision THEN upstream[f] + 1
                            ELSE MaxRevision
Remember(c, f) == upstream[f]

(* 200: what the header said is remembered at once.  Without the header    *)
(* the prior value is kept, so the file is fetched in full next time.      *)
(* Then the body is decoded, or dropped.                                   *)
Download(c, f) ==
    /\ Fetched(c, f)
    /\ known[c][f] < upstream[f]
    /\ quiet' = [quiet EXCEPT ![c][f] = 0]
    /\ downloaded' = [downloaded EXCEPT ![c][f] = upstream[f]]
    /\ \/ /\ known' = [known EXCEPT ![c][f] = Remember(c, f)]
          /\ \/ batch' = [batch EXCEPT ![c][f] = upstream[f]]
                /\ UNCHANGED <<eeaFaults, drops>>
             \/ Drop /\ UNCHANGED batch
       \/ /\ Fault
          /\ batch' = [batch EXCEPT ![c][f] = upstream[f]]
          /\ UNCHANGED known
    /\ UNCHANGED <<upstream, stored, stage, unwritten>>

\* Mutant of Unseen: nothing is ever pruned.
Unseen_None(c) == {}
Unseen(c) == {f \in Files : quiet[c][f] = TTLCycles}

(* Files not seen for TTLCycles are forgotten.  The batch goes on to       *)
(* UpsertStations, and chunk by chunk to WriteStationReadings.             *)
Prune(c) ==
    /\ stage[c] = "fetch" /\ todo[c] = {}
    /\ known' = [known EXCEPT ![c] =
          [f \in Files |-> IF f \in Unseen(c) THEN 0 ELSE known[c][f]]]
    /\ quiet' = [quiet EXCEPT ![c] =
          [f \in Files |-> IF f \in Unseen(c) THEN 0 ELSE quiet[c][f]]]
    /\ unwritten' = [unwritten EXCEPT ![c] = {f \in Files : batch[c][f] # 0} \X Parts]
    /\ stage' = [stage EXCEPT ![c] = IF batch[c] = NoFile THEN "idle" ELSE "write"]
    /\ UNCHANGED <<upstream, stored, todo, batch, eeaFaults, drops, downloaded>>

EndsCycle(c) ==
    /\ stage' = [stage EXCEPT ![c] = "idle"]
    /\ todo' = [todo EXCEPT ![c] = {}]
    /\ batch' = [batch EXCEPT ![c] = NoFile]
    /\ unwritten' = [unwritten EXCEPT ![c] = {}]

WriteFileChunk(c) ==
    /\ stage[c] = "write"
    /\ \E f \in Files, p \in Parts :
          /\ <<f, p>> \in unwritten[c]
          /\ stored' = [stored EXCEPT ![f][p] = batch[c][f]]
          /\ IF unwritten[c] = {<<f, p>>} THEN EndsCycle(c)
             ELSE /\ unwritten' = [unwritten EXCEPT ![c] = @ \ {<<f, p>>}]
                  /\ UNCHANGED <<stage, todo, batch>>
    /\ UNCHANGED <<upstream, memory, eeaFaults, drops, downloaded>>

(* UpsertStations or a chunk failed: the cycle ends, and what it had not   *)
(* written is gone.  What it remembers of the files stays.                 *)
WriteFails(c) ==
    /\ stage[c] = "write"
    /\ Drop
    /\ EndsCycle(c)
    /\ UNCHANGED <<upstream, stored, memory, downloaded>>

(* The process dies and comes back: it remembers nothing. *)
Restart(c) ==
    /\ Fault
    /\ EndsCycle(c)
    /\ known' = [known EXCEPT ![c] = NoFile]
    /\ quiet' = [quiet EXCEPT ![c] = NoFile]
    /\ downloaded' = [downloaded EXCEPT ![c] = NoFile]
    /\ UNCHANGED <<upstream, stored>>

Revise(f) ==
    /\ upstream[f] < MaxRevision
    /\ upstream' = [upstream EXCEPT ![f] = @ + 1]
    /\ UNCHANGED <<stored, memory, cycle, eeaFaults, drops, downloaded>>

-----------------------------------------------------------------------------

Poll(c) ==
    \/ Start(c) \/ Prune(c) \/ WriteFileChunk(c)
    \/ \E f \in Files : NotModified(c, f) \/ Download(c, f)

EeaNext ==
    \/ \E c \in Collectors :
          \/ Poll(c) \/ WriteFails(c) \/ Restart(c)
          \/ \E f \in Files : FetchFails(c, f)
    \/ \E f \in Files : Revise(f)

EeaSpec == EeaInit /\ [][EeaNext]_eeaVars

(* Loop runs RunOnce on every tick, whatever the last one returned. *)
FairEeaSpec == EeaSpec /\ \A c \in Collectors : WF_eeaVars(Poll(c))

-----------------------------------------------------------------------------

InSync == \A f \in Files, p \in Parts : stored[f][p] = upstream[f]

(***************************************************************************)
(* A revision that every collector remembers, so that none will ask for it *)
(* again, is stored or about to be: through failed fetches, files missing  *)
(* from the list, missing headers, pruning, restarts between two chunks,   *)
(* revisions while it runs, and an older batch that another collector      *)
(* writes last (the If-Modified-Since value of RunOnce).  It takes that no *)
(* body is dropped after its header was remembered.                        *)
(***************************************************************************)
AboutToStore(c, f, p) ==
    /\ batch[c][f] >= known[c][f]
    /\ stage[c] = "write" => <<f, p>> \in unwritten[c]

RememberedIsStored ==
    drops = 0 =>
        \A f \in Files, p \in Parts : \E c \in Collectors :
            stored[f][p] >= known[c][f] \/ AboutToStore(c, f, p)

(***************************************************************************)
(* The collectors' memory keeps its shape and its word.                    *)
(***************************************************************************)
MemoryIsSound == EeaTypeOK /\ RememberedIsStored

(***************************************************************************)
(* A file is downloaded again only when the agency revised it: nothing of  *)
(* what the collector remembers is pruned while the file is listed and     *)
(* answers ("Unchanged file: bump seenAt only").                           *)
(***************************************************************************)
NoNeedlessDownload ==
    [][\A c \in Collectors, f \in Files :
          (eeaFaults' = 0 /\ f \in todo[c] /\ f \notin todo'[c]
              /\ batch'[c][f] # batch[c][f])
             => upstream[f] > downloaded[c][f]]_eeaVars

(***************************************************************************)
(* Two collectors write the same rows, and the slower may overwrite a      *)
(* newer revision with an older one.  While no body is dropped after it    *)
(* was remembered, all settles on the last revision in the end: whoever    *)
(* wrote the older one does not remember the newer, and fetches it.        *)
(***************************************************************************)
SettlesOnLastRevision == [](drops = 0) => <>[]InSync

(***************************************************************************)
(* What WriteStationReadings' comment says: "a genuine revision still      *)
(* lands" (internal/store/store.go:222-224), for a loop in which "a failed *)
(* cycle is logged and the loop continues" (collector.go:299-301).         *)
(***************************************************************************)
RevisionLands == <>[]InSync

=============================================================================
