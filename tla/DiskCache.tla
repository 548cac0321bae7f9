------------------------------ MODULE DiskCache ------------------------------
(***************************************************************************)
(* internal/filterliststore/diskcache: the cache of filter lists, an       *)
(* in-memory index in front of one content file per URL and an index file. *)
(*                                                                         *)
(* Workers run Load, Promote and Refresh concurrently; a critical section  *)
(* of entriesMu is one step, promoteMu and flushMu are variables because   *)
(* they are held across file operations.  The process may crash between    *)
(* any two steps and starts again with loadFromDisk.                       *)
(*                                                                         *)
(* Contents are numbered in the order their renames happen and a validator *)
(* is the number of the content its response carried, so "tag = gen" says  *)
(* that metadata and bytes come from the same response.  Time is counted   *)
(* in units of lastAccessFlushInterval and only where the code compares it.*)
(***************************************************************************)
EXTENDS Integers, FiniteSets, FiniteSetsExt

CONSTANTS
  Hashes,       \* hashes of the URLs
  Workers,      \* goroutines that use the cache
  NoWorker,     \* a free mutex
  GcAge,        \* gcMaxAge, in units of lastAccessFlushInterval
  MaxGen,       \* bound: contents ever installed, legacy files included
  LegacyMax,    \* 1..LegacyMax may lie around in files of the old naming scheme
  MaxCrashes,   \* bound: crashes and restarts
  Faults        \* file operations that may fail: the rename of a "migration",
                \* the remove of a "collection", the read or the "write" of
                \* the index, the sync or the rename of a "promotion"

ASSUME GcAgeAssumption == GcAge \in Nat \ {0, 1}
ASSUME GenAssumption == MaxGen \in Nat /\ LegacyMax \in 0 .. MaxGen
ASSUME CrashAssumption == MaxCrashes \in Nat
ASSUME HashesAssumption == Hashes # {}
ASSUME WorkersAssumption == IsFiniteSet(Workers) /\ NoWorker \notin Workers
ASSUME FaultsAssumption ==
  Faults \subseteq {"migration", "collection", "read", "write", "promotion"}

VARIABLES
  file,       \* file[h]: the content file, [gen, synced, whole]; gen 0: absent
  legacy,     \* legacy[h]: contents of the files of the pre-index scheme
  index,      \* index[h]: what the index file says of h
  up,         \* whether the process runs
  entries,    \* entries[h]: the in-memory index
  promoteMu,  \* holder of promoteMu
  flushMu,    \* holder of flushMu
  pc,         \* where each worker stands
  job,        \* hash a worker works on, and the entry or content it remembers
  snapshot,   \* the marshalled index a worker is about to write
  made,       \* contents installed so far
  lastRead,   \* history: age of h's last use whose access time reached the index
  overtaken,  \* history: hashes whose entry got the validators of a replaced one
  unwritten,  \* history: a flush has failed since the last one that succeeded
  crashes     \* crashes so far

vars == <<file, legacy, index, up, entries, promoteMu, flushMu, pc, job,
          snapshot, made, lastRead, overtaken, unwritten, crashes>>

-----------------------------------------------------------------------------
Gens == 0 .. MaxGen
Ages == 0 .. GcAge

\* id stands for the identity of the *entry pointer: a promotion allocates a
\* new one, loadFromDisk's entries have identity 0.
Entries == [live : BOOLEAN, id : Gens, tag : Gens, fresh : BOOLEAN, age : Ages]
NoEntry == [live |-> FALSE, id |-> 0, tag |-> 0, fresh |-> FALSE, age |-> 0]
Adopted(fresh) ==
  [live |-> TRUE, id |-> 0, tag |-> 0, fresh |-> fresh, age |-> 0]

Files == [gen : Gens, synced : BOOLEAN, whole : BOOLEAN]
NoFile == [gen |-> 0, synced |-> TRUE, whole |-> TRUE]
Durable(g) == [gen |-> g, synced |-> TRUE, whole |-> TRUE]

PCs == {"idle", "open", "drop", "asking", "sync", "rename", "entry", "flush",
        "write", "unlock"}
\* tag: the validators that the caller of Load got and asks the origin with;
\* after: where Flush returns to; synced: whether the temporary file is synced.
Jobs == [hash : Hashes, id : Gens, tag : Gens, after : PCs, synced : BOOLEAN]
NoJob == [hash |-> CHOOSE h \in Hashes : TRUE, id |-> 0, tag |-> 0,
          after |-> "idle", synced |-> FALSE]

NoIndex == [h \in Hashes |-> NoEntry]

Init ==
  \* a first start over a directory of the pre-index scheme, or an empty one
  /\ file = [h \in Hashes |-> NoFile]
  /\ legacy \in [Hashes -> SUBSET (1 .. LegacyMax)]
  /\ index = NoIndex
  /\ up = FALSE
  /\ entries = NoIndex
  /\ promoteMu = NoWorker
  /\ flushMu = NoWorker
  /\ pc = [w \in Workers |-> "idle"]
  /\ job = [w \in Workers |-> NoJob]
  /\ snapshot = [w \in Workers |-> NoIndex]
  /\ made = LegacyMax
  /\ lastRead = [h \in Hashes |-> 0]
  /\ overtaken = {}
  /\ unwritten = FALSE
  /\ crashes = 0

-----------------------------------------------------------------------------
(* loadFromDisk *)

\* The newest legacy file becomes the content file of a hash that has none.
Migrated(migrates) ==
  [h \in Hashes |->
     IF file[h].gen = 0 /\ h \in migrates THEN Durable(Max(legacy[h])) ELSE file[h]]

\* Older legacy files are deleted, and the newest as well when it is migrated
\* or superseded by a content file.
LegacyLeft(migrates) ==
  [h \in Hashes |->
     IF legacy[h] = {} \/ file[h].gen # 0 \/ h \in migrates THEN {}
     ELSE {Max(legacy[h])}]

\* Entries without content are dropped, contents without entry adopted: stale
\* by the zero ExpiresAt, or with the expiry that the legacy name carried.
Reconciled(read, contents, migrates, fresh) ==
  [h \in Hashes |->
     IF contents[h].gen = 0 THEN NoEntry
     ELSE IF read[h].live THEN [read[h] EXCEPT !.id = 0]
     ELSE Adopted(h \in migrates /\ fresh)]

Abandoned(e) == e.live /\ ~e.fresh /\ e.age >= GcAge

\* migrates: the migrations whose rename succeeds; collects: the collections
\* whose remove succeeds; readable: whether the index file can be parsed.
Restart ==
  /\ ~up
  /\ \E migrates \in SUBSET {h \in Hashes : legacy[h] # {} /\ file[h].gen = 0},
        readable, fresh, flushed \in BOOLEAN :
       LET contents == Migrated(migrates)
           read     == IF readable THEN index ELSE NoIndex
           found    == Reconciled(read, contents, migrates, fresh)
           unused   == {h \in Hashes : Abandoned(found[h])} IN
       \E collects \in SUBSET unused :
         /\ "migration" \in Faults
              \/ \A h \in Hashes : legacy[h] # {} /\ file[h].gen = 0 => h \in migrates
         /\ collects = unused \/ "collection" \in Faults
         /\ readable \/ "read" \in Faults
         /\ flushed \/ "write" \in Faults
         /\ file' = [h \in Hashes |-> IF h \in collects THEN NoFile ELSE contents[h]]
         /\ legacy' = LegacyLeft(migrates)
         /\ entries' = [h \in Hashes |-> IF h \in collects THEN NoEntry ELSE found[h]]
         /\ index' = IF flushed THEN entries' ELSE index
         /\ unwritten' = ~flushed
  /\ up' = TRUE
  /\ UNCHANGED <<promoteMu, flushMu, pc, job, snapshot, made, lastRead, overtaken,
                 crashes>>

\* The process or the machine dies: what was not synced may come back torn.
Crash ==
  /\ up
  /\ crashes < MaxCrashes
  /\ crashes' = crashes + 1
  /\ \E torn \in SUBSET {h \in Hashes : ~file[h].synced} :
       file' = [h \in Hashes |-> [file[h] EXCEPT !.synced = TRUE,
                                                 !.whole = @ /\ h \notin torn]]
  /\ up' = FALSE
  /\ entries' = NoIndex
  /\ promoteMu' = NoWorker
  /\ flushMu' = NoWorker
  /\ pc' = [w \in Workers |-> "idle"]
  /\ job' = [w \in Workers |-> NoJob]
  /\ snapshot' = [w \in Workers |-> NoIndex]
  /\ overtaken' = {}
  /\ UNCHANGED <<legacy, index, made, lastRead, unwritten>>

\* The OS or the user deletes a content file.
Purge(h) ==
  /\ file[h].gen # 0
  /\ file' = [file EXCEPT ![h] = NoFile]
  /\ UNCHANGED <<legacy, index, up, entries, promoteMu, flushMu, pc, job,
                 snapshot, made, lastRead, overtaken, unwritten, crashes>>

\* Time passes: an interval of lastAccessFlushInterval, perhaps past expiries.
\* Operations on the cache are short against it, and so is the request that a
\* caller sends between its Load and its Refresh.
Older(e, expired) ==
  [e EXCEPT !.age = IF e.live /\ @ < GcAge THEN @ + 1 ELSE @,
            !.fresh = @ /\ ~expired]
Tick ==
  /\ \A w \in Workers : pc[w] = "idle"
  /\ \E expired \in BOOLEAN :
       LET Aged(m) == [h \in Hashes |-> Older(m[h], expired)] IN
       entries' = Aged(entries) /\ index' = Aged(index)
  /\ lastRead' = [h \in Hashes |->
                    IF lastRead[h] < GcAge THEN lastRead[h] + 1 ELSE GcAge]
  /\ UNCHANGED <<file, legacy, up, promoteMu, flushMu, pc, job, snapshot, made,
                 overtaken, unwritten, crashes>>

-----------------------------------------------------------------------------
GoTo(w, where) == pc' = [pc EXCEPT ![w] = where]
Done(w) ==
  /\ GoTo(w, "idle")
  /\ job' = [job EXCEPT ![w] = NoJob]
Start(w, where, j) ==
  /\ up
  /\ pc[w] = "idle"
  /\ GoTo(w, where)
  /\ job' = [job EXCEPT ![w] = j]

\* Faulty: the snapshot is taken and written without flushMu.
FlushBeginUnlocked(w) ==
  /\ pc[w] = "flush"
  /\ snapshot' = [snapshot EXCEPT ![w] = entries]
  /\ GoTo(w, "write")
  /\ UNCHANGED <<file, legacy, index, up, entries, promoteMu, flushMu, job, made,
                 lastRead, overtaken, unwritten, crashes>>

\* Flush, called by w: the snapshot is taken and written under flushMu.
FlushBegin(w) ==
  /\ pc[w] = "flush"
  /\ flushMu = NoWorker
  /\ flushMu' = w
  /\ snapshot' = [snapshot EXCEPT ![w] = entries]
  /\ GoTo(w, "write")
  /\ UNCHANGED <<file, legacy, index, up, entries, promoteMu, job, made,
                 lastRead, overtaken, unwritten, crashes>>

FlushEnd(w) ==
  /\ pc[w] = "write"
  /\ \/ index' = snapshot[w] /\ unwritten' = FALSE
     \/ "write" \in Faults /\ UNCHANGED index /\ unwritten' = TRUE
  /\ flushMu' = NoWorker
  /\ snapshot' = [snapshot EXCEPT ![w] = NoIndex]
  /\ lastRead' = [lastRead EXCEPT ![job[w].hash] = IF unwritten' THEN @ ELSE 0]
  /\ IF job[w].after = "idle" THEN Done(w)
     ELSE GoTo(w, job[w].after) /\ UNCHANGED job
  /\ UNCHANGED <<file, legacy, up, entries, promoteMu, made, overtaken, crashes>>

-----------------------------------------------------------------------------
(* Load *)

\* Faulty: the access time is bumped in memory only.
LoadLookupUnsaved(w, h) ==
  /\ entries[h].live
  /\ Start(w, "open", [hash |-> h, id |-> entries[h].id,
                       tag |-> IF entries[h].fresh THEN 0 ELSE entries[h].tag,
                       after |-> "open", synced |-> FALSE])
  /\ entries' = [entries EXCEPT ![h].age = 0]
  /\ UNCHANGED <<file, legacy, index, up, promoteMu, flushMu, snapshot, made,
                 lastRead, overtaken, unwritten, crashes>>

\* Up to the release of entriesMu: the metadata is copied, the access time is
\* bumped, and the bump is persisted when the recorded one is old enough.  Only
\* the validators of a stale entry are ever asked with.
LoadLookup(w, h) ==
  LET e == entries[h] IN
  /\ e.live
  /\ Start(w, IF e.age > 0 THEN "flush" ELSE "open",
           [hash |-> h, id |-> e.id, tag |-> IF e.fresh THEN 0 ELSE e.tag,
            after |-> "open", synced |-> FALSE])
  /\ entries' = [entries EXCEPT ![h].age = 0]
  /\ UNCHANGED <<file, legacy, index, up, promoteMu, flushMu, snapshot, made,
                 lastRead, overtaken, unwritten, crashes>>

LoadOpen(w) ==
  LET h == job[w].hash IN
  /\ pc[w] = "open"
  /\ IF file[h].gen = 0
     THEN /\ GoTo(w, "drop")
          /\ UNCHANGED <<job, lastRead>>
     ELSE /\ IF job[w].tag = 0 THEN Done(w)
             ELSE GoTo(w, "asking") /\ UNCHANGED job
          /\ lastRead' = [lastRead EXCEPT ![h] =
                            IF ~unwritten /\ \A v \in Workers :
                                 pc[v] \notin {"flush", "write"}
                            THEN 0 ELSE @]
  /\ UNCHANGED <<file, legacy, index, up, entries, promoteMu, flushMu, snapshot, made,
                 overtaken, unwritten, crashes>>

\* Faulty: the entry of the hash is forgotten, whoever made it.
LoadDropAny(w) ==
  /\ pc[w] = "drop"
  /\ entries' = [entries EXCEPT ![job[w].hash] = NoEntry]
  /\ Done(w)
  /\ UNCHANGED <<file, legacy, index, up, promoteMu, flushMu, snapshot, made,
                 lastRead, overtaken, unwritten, crashes>>

\* The content is gone: forget the entry, unless it was promoted since.
LoadDrop(w) ==
  LET h == job[w].hash IN
  /\ pc[w] = "drop"
  /\ entries' = [entries EXCEPT ![h] = IF @.id = job[w].id THEN NoEntry ELSE @]
  /\ Done(w)
  /\ UNCHANGED <<file, legacy, index, up, promoteMu, flushMu, snapshot, made,
                 lastRead, overtaken, unwritten, crashes>>

-----------------------------------------------------------------------------
(* cacheDownload and Promote *)

\* A complete download lies in a temporary file.
Downloaded(w, h) ==
  /\ made + Cardinality({v \in Workers : pc[v] \in {"sync", "rename"}}) < MaxGen
  /\ Start(w, "sync", [NoJob EXCEPT !.hash = h])
  /\ UNCHANGED <<file, legacy, index, up, entries, promoteMu, flushMu, snapshot, made,
                 lastRead, overtaken, unwritten, crashes>>

SyncTemp(w) ==
  /\ pc[w] = "sync"
  /\ GoTo(w, "rename")
  /\ job' = [job EXCEPT ![w].synced = TRUE]
  /\ UNCHANGED <<file, legacy, index, up, entries, promoteMu, flushMu, snapshot, made,
                 lastRead, overtaken, unwritten, crashes>>

\* The sync, or the rename in Promote, fails: the temporary file is removed
\* and the previous entry stays.
PromoteFails(w) ==
  /\ "promotion" \in Faults
  /\ \/ pc[w] = "sync"
     \/ pc[w] = "rename" /\ promoteMu = NoWorker
  /\ Done(w)
  /\ UNCHANGED <<file, legacy, index, up, entries, promoteMu, flushMu, snapshot, made,
                 lastRead, overtaken, unwritten, crashes>>

\* Faulty: the rename is not serialised with the index update of another.
PromoteRenameUnlocked(w) ==
  /\ pc[w] = "rename"
  /\ made' = made + 1
  /\ file' = [file EXCEPT ![job[w].hash] =
                [gen |-> made + 1, synced |-> job[w].synced, whole |-> TRUE]]
  /\ job' = [job EXCEPT ![w].id = made + 1]
  /\ GoTo(w, "entry")
  /\ UNCHANGED <<legacy, index, up, entries, promoteMu, flushMu, snapshot,
                 lastRead, overtaken, unwritten, crashes>>

\* Faulty: Promote goes on when the rename has failed.
PromoteRenameUnchecked(w) ==
  /\ pc[w] = "rename"
  /\ promoteMu = NoWorker
  /\ promoteMu' = w
  /\ made' = made + 1
  /\ job' = [job EXCEPT ![w].id = made + 1]
  /\ GoTo(w, "entry")
  /\ UNCHANGED <<file, legacy, index, up, entries, flushMu, snapshot,
                 lastRead, overtaken, unwritten, crashes>>

PromoteRename(w) ==
  /\ pc[w] = "rename"
  /\ promoteMu = NoWorker
  /\ promoteMu' = w
  /\ made' = made + 1
  /\ file' = [file EXCEPT ![job[w].hash] =
                [gen |-> made + 1, synced |-> job[w].synced, whole |-> TRUE]]
  /\ job' = [job EXCEPT ![w].id = made + 1]
  /\ GoTo(w, "entry")
  /\ UNCHANGED <<legacy, index, up, entries, flushMu, snapshot, lastRead, overtaken,
                 unwritten, crashes>>

PromoteEntry(w) ==
  LET h == job[w].hash IN
  /\ pc[w] = "entry"
  /\ entries' = [entries EXCEPT ![h] = [live |-> TRUE, id |-> job[w].id,
                                        tag |-> job[w].id, fresh |-> TRUE, age |-> 0]]
  /\ job' = [job EXCEPT ![w].after = "unlock"]
  /\ GoTo(w, "flush")
  /\ overtaken' = overtaken \ {h}
  /\ UNCHANGED <<file, legacy, index, up, promoteMu, flushMu, snapshot, made, lastRead,
                 unwritten, crashes>>

\* Faulty: Promote returns without releasing promoteMu.
PromoteUnlockNever(w) ==
  /\ pc[w] = "unlock"
  /\ Done(w)
  /\ UNCHANGED <<file, legacy, index, up, entries, promoteMu, flushMu, snapshot,
                 made, lastRead, overtaken, unwritten, crashes>>

PromoteUnlock(w) ==
  /\ pc[w] = "unlock"
  /\ promoteMu' = NoWorker
  /\ Done(w)
  /\ UNCHANGED <<file, legacy, index, up, entries, flushMu, snapshot, made,
                 lastRead, overtaken, unwritten, crashes>>

-----------------------------------------------------------------------------
(* Refresh *)

\* The origin answers the caller of Load with a 304: the entry that the index
\* has by now is extended, and the validators of the answer, those that were
\* asked with, replace its own unless the answer carries none.
Refresh(w) ==
  LET h == job[w].hash
      e == entries[h] IN
  /\ pc[w] = "asking"
  /\ IF ~e.live
     THEN Done(w) /\ UNCHANGED <<entries, overtaken>>
     ELSE \E tag \in {e.tag, job[w].tag} :
            /\ entries' = [entries EXCEPT ![h] =
                             [@ EXCEPT !.tag = tag, !.fresh = TRUE, !.age = 0]]
            /\ overtaken' = IF e.id # job[w].id /\ tag # e.tag
                            THEN overtaken \cup {h} ELSE overtaken
            /\ GoTo(w, "flush")
            /\ job' = [job EXCEPT ![w] = [NoJob EXCEPT !.hash = h]]
  /\ UNCHANGED <<file, legacy, index, up, promoteMu, flushMu, snapshot, made,
                 lastRead, unwritten, crashes>>

\* Any other answer: a download is an operation of its own.
NotRefreshed(w) ==
  /\ pc[w] = "asking"
  /\ Done(w)
  /\ UNCHANGED <<file, legacy, index, up, entries, promoteMu, flushMu, snapshot, made,
                 lastRead, overtaken, unwritten, crashes>>

-----------------------------------------------------------------------------
Work(w) ==
  \/ FlushBegin(w) \/ FlushEnd(w)
  \/ LoadOpen(w) \/ LoadDrop(w)
  \/ SyncTemp(w) \/ PromoteFails(w) \/ PromoteRename(w) \/ PromoteEntry(w)
  \/ PromoteUnlock(w)
  \/ Refresh(w) \/ NotRefreshed(w)

Next ==
  \/ Restart \/ Crash \/ Tick
  \/ \E h \in Hashes : Purge(h)
  \/ \E w \in Workers :
       \/ Work(w)
       \/ \E h \in Hashes : LoadLookup(w, h) \/ Downloaded(w, h)

Spec == Init /\ [][Next]_vars

\* File operations end and mutexes are handed on in order.
Fairness ==
  \A w \in Workers :
    /\ WF_vars(Work(w))
    /\ SF_vars(FlushBegin(w))
    /\ SF_vars(PromoteRename(w))

FairSpec == Spec /\ Fairness

-----------------------------------------------------------------------------
(* Properties *)

\* Every variable stays within its type.
TypeOK ==
  /\ file \in [Hashes -> Files]
  /\ legacy \in [Hashes -> SUBSET (1 .. LegacyMax)]
  /\ index \in [Hashes -> Entries]
  /\ up \in BOOLEAN
  /\ entries \in [Hashes -> Entries]
  /\ promoteMu \in Workers \cup {NoWorker}
  /\ flushMu \in Workers \cup {NoWorker}
  /\ pc \in [Workers -> PCs]
  /\ job \in [Workers -> Jobs]
  /\ snapshot \in [Workers -> [Hashes -> Entries]]
  /\ made \in Gens
  /\ lastRead \in [Hashes -> Ages]
  /\ overtaken \subseteq Hashes
  /\ unwritten \in BOOLEAN
  /\ crashes \in 0 .. MaxCrashes

\* Promote is between its rename and its index update.
Promoting(h) == \E w \in Workers : pc[w] = "entry" /\ job[w].hash = h

\* Concurrent promotions of one URL never pair the bytes of one response with
\* the metadata of another (comment on promoteMu), and neither does a Refresh of
\* the entry that its Load has seen.  A Refresh that finds a later promotion's
\* entry is excepted: nothing in the cache stops it from writing the validators
\* of the replaced entry there.  What keeps the store from it, its flights and
\* an origin that does not confirm what it has replaced, is FilterListStore's.
MetadataMatchesContent ==
  \A h \in Hashes \ overtaken :
    /\ entries[h].live /\ entries[h].id # 0
    /\ file[h].gen # 0 /\ ~Promoting(h)
    => entries[h].tag = file[h].gen

\* Whatever the crash, the validators that the index holds are never those of
\* a newer response than the bytes they stand for: such an entry would be
\* confirmed by a 304 for content it does not have.
TagNeverAhead ==
  \A h \in Hashes : file[h].gen # 0 =>
    entries[h].tag <= file[h].gen /\ index[h].tag <= file[h].gen

\* When no operation is under way and the last write succeeded, the index file
\* says what the memory says: an older snapshot never overwrites a newer one
\* (comment on flushMu).
IndexUpToDate ==
  up /\ ~unwritten /\ (\A w \in Workers : pc[w] = "idle") =>
    \A h \in Hashes : entries[h].live =>
      /\ index[h].live
      /\ index[h].tag = entries[h].tag
      /\ index[h].fresh = entries[h].fresh

\* Content on disk is always reachable through the index: a Load that found
\* the file missing does not forget an entry promoted since, and every file
\* that survives a crash is adopted.
ContentReachable ==
  \A h \in Hashes : up /\ file[h].gen # 0 /\ ~Promoting(h) => entries[h].live

\* A restart leaves every URL the newest content it had, with all its bytes,
\* under its new name or still in its legacy file, except what is stale and
\* has not been used for gcMaxAge (comment on gcMaxAge), by the last use whose
\* access time a write of the index has recorded.
Newest(h) ==
  IF file[h].gen # 0 THEN file[h].gen
  ELSE IF legacy[h] # {} THEN Max(legacy[h]) ELSE 0
RestartKeepsContent ==
  [][~up /\ up' =>
       \A h \in Hashes :
         \/ file'[h].gen = Newest(h) /\ file'[h].whole
         \/ Newest(h) \in legacy'[h]
         \/ lastRead[h] >= GcAge /\ ~index[h].fresh]_vars

\* Every Load, Promote and Refresh comes to its end: the two mutexes that are
\* held across file operations never lock each other out.
OperationsFinish ==
  \A w \in Workers : pc[w] # "idle" ~> pc[w] = "idle"
=============================================================================
