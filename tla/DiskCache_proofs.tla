--------------------------- MODULE DiskCache_proofs ---------------------------
(***************************************************************************)
(* Machine-checked proofs about DiskCache, for every set of URLs and       *)
(* goroutines and every number of crashes, purges and faults: bytes and    *)
(* metadata stay together, content stays reachable, the index file keeps   *)
(* up with the memory, and a start drops only what is abandoned.           *)
(*                                                                         *)
(* Each invariant leans on others.  Metadata can only be matched with      *)
(* bytes because promoteMu serialises the promotions (Locked) and because  *)
(* a new entry has an identity nobody remembers (Unique); the index file   *)
(* keeps up because a change is followed by a flush that starts later      *)
(* (Saved) and snapshots do not overtake each other (Locked).              *)
(***************************************************************************)
EXTENDS DiskCache, FiniteSetTheorems, WellFoundedInduction, TLAPS

\* Between PromoteRename and PromoteUnlock a worker is inside Promote.
InPromote(w) ==
  \/ pc[w] \in {"entry", "unlock"}
  \/ pc[w] \in {"flush", "write"} /\ job[w].after = "unlock"

\* The two mutexes are held where the code holds them, and a process that is
\* not up runs nothing.
Locked ==
  /\ \A w \in Workers : InPromote(w) => promoteMu = w
  /\ \A w \in Workers : pc[w] = "write" => flushMu = w
  /\ \A w \in Workers : pc[w] \in {"flush", "write"} =>
       job[w].after \in {"idle", "open", "unlock"}
  /\ ~up => \A w \in Workers : pc[w] = "idle"

\* A complete download waits for its number.
Downloads == {v \in Workers : pc[v] \in {"sync", "rename"}}
Budget == made + Cardinality(Downloads) <= MaxGen

\* Entries and workers know identities that were given out, and the one a
\* promotion is about to use is new to all of them.
Unique ==
  /\ \A h \in Hashes : entries[h].id <= made
  /\ \A w \in Workers : job[w].id <= made
  /\ \A w \in Workers : pc[w] = "entry" =>
       /\ job[w].id = made
       /\ \A h \in Hashes : entries[h].id < made
       /\ \A v \in Workers \ {w} : job[v].id < made

\* While a promotion is between rename and index update, its bytes are there
\* unless they were purged.
Renamed ==
  \A w \in Workers : pc[w] = "entry" => file[job[w].hash].gen \in {0, job[w].id}

\* A Load that is about to forget an entry has seen that it has no content.
DropJustified ==
  \A w \in Workers :
    pc[w] = "drop" /\ entries[job[w].hash].live
      /\ entries[job[w].hash].id = job[w].id
    => file[job[w].hash].gen = 0 \/ Promoting(job[w].hash)

\* Content files are synced before they get their name.
Synced ==
  /\ \A w \in Workers : pc[w] = "rename" => job[w].synced = TRUE
  /\ \A h \in Hashes : file[h].synced = TRUE /\ file[h].whole = TRUE

\* Between its look-up and its request, a Load asks with the validators that
\* its entry still has.
Loading(w) ==
  \/ pc[w] \in {"open", "asking"}
  \/ pc[w] \in {"flush", "write"} /\ job[w].after = "open"
Asked ==
  \A w \in Workers :
    /\ pc[w] = "asking" => job[w].tag # 0
    /\ /\ Loading(w) /\ job[w].id # 0 /\ job[w].tag # 0
       /\ job[w].hash \notin overtaken
       /\ entries[job[w].hash].live /\ entries[job[w].hash].id = job[w].id
       => entries[job[w].hash].tag = job[w].tag

Pairing ==
  /\ Renamed /\ DropJustified /\ Asked
  /\ MetadataMatchesContent /\ ContentReachable
-----------------------------------------------------------------------------
(* Access times and the index file. *)

\* A worker has used the entry of its hash since time last passed.
Using == {"flush", "write", "open", "drop"}
Touched ==
  \A w \in Workers :
    /\ pc[w] \in Using => entries[job[w].hash].age = 0
    /\ pc[w] = "write" => snapshot[w][job[w].hash].age = 0
Used(h) == \E w \in Workers : pc[w] \in Using /\ job[w].hash = h

\* m says of h what the memory says.
Faithful(m, h) ==
  /\ entries[h].live =>
       /\ m[h].live = TRUE
       /\ m[h].tag = entries[h].tag
       /\ m[h].fresh = entries[h].fresh
       /\ m[h].age = entries[h].age
  /\ Used(h) => m[h].age = 0

\* Either a flush is still to come, or the one under way has a snapshot that
\* is up to date, or the index file is, unless its last write failed.
Pending == \E w \in Workers : pc[w] = "flush"
Writing == \E w \in Workers : pc[w] = "write"
Saved ==
  \/ Pending
  \/ \A h \in Hashes :
       /\ \A w \in Workers : pc[w] = "write" => Faithful(snapshot[w], h)
       /\ ~Writing /\ ~unwritten => Faithful(index, h)

\* What is recorded is no older than the last use that was recorded.
AgesKept ==
  \A h \in Hashes :
    /\ entries[h].age <= lastRead[h] /\ index[h].age <= lastRead[h]
    /\ \A w \in Workers : pc[w] = "write" => snapshot[w][h].age <= lastRead[h]

Recording == Touched /\ Saved /\ AgesKept

IInv == TypeOK /\ Locked /\ Budget /\ Unique /\ Synced /\ Pairing /\ Recording
-----------------------------------------------------------------------------
(* Validators, when migrations do not fail. *)

\* Metadata m never runs ahead of the bytes it is about.
Behind(m) ==
  \A h \in Hashes :
    /\ m[h].tag <= made
    /\ file[h].gen # 0 => m[h].tag <= file[h].gen

\* What a Load asks with was behind the bytes when it was read, and stays so.
BehindAsked ==
  \A w \in Workers : pc[w] # "idle" =>
    /\ job[w].tag <= made
    /\ file[job[w].hash].gen # 0 => job[w].tag <= file[job[w].hash].gen

\* Before the first start there are legacy files, and nothing else; after it
\* there are none.
FirstStart ==
  \/ \A h \in Hashes : legacy[h] = {}
  \/ /\ ~up
     /\ \A h \in Hashes : index[h].tag = 0

InOrder ==
  /\ Behind(entries) /\ Behind(index) /\ BehindAsked
  /\ \A w \in Workers : pc[w] = "write" => Behind(snapshot[w])
  /\ FirstStart
  /\ LegacyMax <= made /\ \A h \in Hashes : file[h].gen <= made
-----------------------------------------------------------------------------
(* The newest of several legacy files is one of them. *)

LEMMA NewestLegacy ==
  ASSUME NEW n \in Nat, NEW S \in SUBSET (1 .. n), S # {}
  PROVE  Max(S) \in S
<1> DEFINE T == {n - x : x \in S}
           R == {ss \in Nat \X Nat : ss[1] < ss[2]}
<1>1. T \subseteq Nat /\ T # {}
  <2>1. PICK x \in S : TRUE
    OBVIOUS
  <2>2. n - x \in T
    BY <2>1
  <2>3. QED
    BY <2>2
<1>2. IsWellFoundedOn(R, Nat)
  BY NatLessThanWellFounded DEF OpToRel
<1>3. PICK t \in T : \A y \in T : ~ (<<y, t>> \in R)
  <2> HIDE DEF R, T
  <2>1. QED
    BY <1>1, <1>2, WFMin
<1>4. \A y \in T : ~ (y < t)
  BY <1>1, <1>3
<1>5. PICK m \in S : t = n - m
  OBVIOUS
<1>6. \A x \in S : m >= x
  BY <1>4, <1>5
<1>7. QED
  BY <1>6, Zenon DEF Max
-----------------------------------------------------------------------------
(* Types. *)

LEMMA Bounds ==
  /\ MaxGen \in Nat /\ LegacyMax \in Nat /\ LegacyMax <= MaxGen
  /\ GcAge \in Nat /\ 2 <= GcAge
  /\ MaxCrashes \in Nat
BY GcAgeAssumption, GenAssumption, CrashAssumption

LEMMA ValueTypes ==
  /\ NoEntry \in Entries
  /\ NoIndex \in [Hashes -> Entries]
  /\ NoFile \in Files
  /\ NoJob \in Jobs
  /\ \A b \in BOOLEAN : Adopted(b) \in Entries
  /\ \A g \in Gens : Durable(g) \in Files
<1>1. NoEntry \in Entries
  BY Bounds DEF NoEntry, Entries, Gens, Ages
<1>2. NoJob \in Jobs
  BY Bounds, HashesAssumption DEF NoJob, Jobs, Gens, PCs
<1>3. \A b \in BOOLEAN : Adopted(b) \in Entries
  BY Bounds DEF Adopted, Entries, Gens, Ages
<1>4. NoFile \in Files /\ \A g \in Gens : Durable(g) \in Files
  BY Bounds DEF NoFile, Durable, Files, Gens
<1>5. QED
  BY <1>1, <1>2, <1>3, <1>4 DEF NoIndex

LEMMA NumberTypes ==
  ASSUME TypeOK
  PROVE  /\ made \in Nat
         /\ \A h \in Hashes :
              /\ entries[h] \in Entries /\ index[h] \in Entries
              /\ entries[h].id \in Nat /\ index[h].id \in Nat
              /\ entries[h].tag \in Nat /\ index[h].tag \in Nat
              /\ entries[h].age \in Nat /\ index[h].age \in Nat
              /\ file[h] \in Files /\ file[h].gen \in Nat
              /\ lastRead[h] \in Nat
         /\ \A w \in Workers :
              /\ job[w] \in Jobs /\ job[w].hash \in Hashes
              /\ job[w].id \in Nat /\ job[w].tag \in Nat
BY Bounds DEF TypeOK, Entries, Files, Jobs, Gens, Ages

LEMMA GoToType ==
  ASSUME TypeOK, NEW w \in Workers, NEW where \in PCs, GoTo(w, where)
  PROVE  /\ pc' \in [Workers -> PCs] /\ pc'[w] = where
         /\ \A v \in Workers \ {w} : pc'[v] = pc[v]
BY DEF GoTo, TypeOK

LEMMA JobType ==
  ASSUME TypeOK, NEW w \in Workers, NEW j \in Jobs,
         job' = [job EXCEPT ![w] = j]
  PROVE  /\ job' \in [Workers -> Jobs] /\ job'[w] = j
         /\ \A v \in Workers \ {w} : job'[v] = job[v]
BY DEF TypeOK

LEMMA DoneType ==
  ASSUME TypeOK, NEW w \in Workers, Done(w)
  PROVE  /\ pc' \in [Workers -> PCs] /\ pc'[w] = "idle"
         /\ \A v \in Workers \ {w} : pc'[v] = pc[v]
         /\ job' \in [Workers -> Jobs] /\ job'[w] = NoJob
         /\ \A v \in Workers \ {w} : job'[v] = job[v]
BY ValueTypes, GoToType, JobType DEF Done, PCs

LEMMA StartType ==
  ASSUME TypeOK, NEW w \in Workers, NEW where \in PCs, NEW j \in Jobs,
         Start(w, where, j)
  PROVE  /\ up /\ pc[w] = "idle"
         /\ pc' \in [Workers -> PCs] /\ pc'[w] = where
         /\ \A v \in Workers \ {w} : pc'[v] = pc[v]
         /\ job' \in [Workers -> Jobs] /\ job'[w] = j
         /\ \A v \in Workers \ {w} : job'[v] = job[v]
BY GoToType, JobType DEF Start

\* How the memory is changed at one hash.
LEMMA ResetType ==
  ASSUME NEW m \in [Hashes -> Entries], NEW h \in Hashes
  PROVE  [m EXCEPT ![h].age = 0] \in [Hashes -> Entries]
<1>1. m[h] \in Entries /\ 0 \in Ages
  BY Bounds DEF Ages
<1>2. [m[h] EXCEPT !.age = 0] \in Entries
  BY <1>1 DEF Entries
<1>3. QED
  BY <1>2

Revalidated(e, t) == [e EXCEPT !.tag = t, !.fresh = TRUE, !.age = 0]

LEMMA RevalidatedEntry ==
  ASSUME NEW e \in Entries, NEW t \in Gens
  PROVE  /\ Revalidated(e, t) \in Entries
         /\ Revalidated(e, t).live = e.live /\ Revalidated(e, t).id = e.id
         /\ Revalidated(e, t).tag = t /\ Revalidated(e, t).age = 0
<1>1. 0 \in Ages
  BY Bounds DEF Ages
<1>2. Revalidated(e, t) = [[[e EXCEPT !.tag = t] EXCEPT !.fresh = TRUE] EXCEPT !.age = 0]
  BY DEF Revalidated
<1>3. QED
  BY <1>1, <1>2 DEF Entries
-----------------------------------------------------------------------------
(* What the operations do, field by field. *)

\* An operation has used the entry of h.
Bumps(m, n, h) ==
  /\ n \in [Hashes -> Entries]
  /\ n[h].age = 0
  /\ \A g \in Hashes : n[g].id = m[g].id /\ n[g].live = m[g].live
  /\ \A g \in Hashes \ {h} : n[g] = m[g]

SameTags(m, n) == \A g \in Hashes : n[g].tag = m[g].tag

LEMMA AgeReset ==
  ASSUME NEW m \in [Hashes -> Entries], NEW h \in Hashes, NEW n,
         n = [m EXCEPT ![h].age = 0]
  PROVE  Bumps(m, n, h) /\ SameTags(m, n)
<1>1. n \in [Hashes -> Entries]
  <2>1. [m EXCEPT ![h].age = 0] \in [Hashes -> Entries]
    BY ResetType, Zenon
  <2>2. QED
    BY <2>1, Zenon
<1>2. m[h] \in Entries
  OBVIOUS
<1>3. n[h] = [m[h] EXCEPT !.age = 0]
  OBVIOUS
<1>4. /\ n[h].age = 0 /\ n[h].id = m[h].id /\ n[h].tag = m[h].tag
      /\ n[h].live = m[h].live
  BY <1>2, <1>3 DEF Entries
<1>5. QED
  BY <1>1, <1>4 DEF Bumps, SameTags

\* Between operations a worker remembers nothing.
LEMMA NoJobFields ==
  /\ NoJob.id = 0 /\ NoJob.tag = 0 /\ NoJob.after = "idle" /\ NoJob.synced = FALSE
BY DEF NoJob

LEMMA NewJob ==
  ASSUME NEW h \in Hashes, NEW j, j = [NoJob EXCEPT !.hash = h]
  PROVE  /\ j \in Jobs /\ j.hash = h /\ j.id = 0 /\ j.tag = 0
         /\ j.after = "idle" /\ j.synced = FALSE
BY ValueTypes, NoJobFields DEF Jobs

LEMMA LookupEffect ==
  ASSUME TypeOK, NEW w \in Workers, NEW h \in Hashes, LoadLookup(w, h)
  PROVE  /\ up /\ pc[w] = "idle" /\ entries[h].live
         /\ Bumps(entries, entries', h)
         /\ entries'[h].fresh = entries[h].fresh
         /\ \A g \in Hashes : entries'[g].tag = entries[g].tag
         /\ pc' \in [Workers -> PCs] /\ job' \in [Workers -> Jobs]
         /\ pc'[w] = IF entries[h].age > 0 THEN "flush" ELSE "open"
         /\ job'[w].hash = h /\ job'[w].id = entries[h].id
         /\ job'[w].after = "open"
         /\ job'[w].tag \in {0, entries[h].tag}
         /\ \A v \in Workers \ {w} : pc'[v] = pc[v] /\ job'[v] = job[v]
         /\ UNCHANGED <<file, legacy, index, up, promoteMu, flushMu, snapshot,
                        made, lastRead, overtaken, unwritten, crashes>>
<1> DEFINE t == IF entries[h].fresh THEN 0 ELSE entries[h].tag
           j == [hash |-> h, id |-> entries[h].id, tag |-> t, after |-> "open",
                 synced |-> FALSE]
           where == IF entries[h].age > 0 THEN "flush" ELSE "open"
<1>1. j \in Jobs /\ where \in PCs /\ t \in {0, entries[h].tag}
  <2>1. entries[h] \in Entries /\ t \in {0, entries[h].tag}
    BY DEF TypeOK
  <2>2. t \in Gens
    BY <2>1, Bounds DEF Entries, Gens
  <2>3. QED
    BY <2>1, <2>2 DEF Entries, Jobs, PCs
<1>2. /\ Start(w, where, j) /\ entries[h].live
      /\ entries' = [entries EXCEPT ![h].age = 0]
      /\ UNCHANGED <<file, legacy, index, up, promoteMu, flushMu, snapshot,
                     made, lastRead, overtaken, unwritten, crashes>>
  BY DEF LoadLookup
<1>3. j.hash = h /\ j.id = entries[h].id /\ j.tag = t /\ j.after = "open"
  OBVIOUS
<1> HIDE DEF j, t, where
<1>4. /\ up /\ pc[w] = "idle"
      /\ pc' \in [Workers -> PCs] /\ pc'[w] = where
      /\ \A v \in Workers \ {w} : pc'[v] = pc[v]
      /\ job' \in [Workers -> Jobs] /\ job'[w] = j
      /\ \A v \in Workers \ {w} : job'[v] = job[v]
  BY <1>1, <1>2, StartType
<1>5. entries \in [Hashes -> Entries] /\ entries[h] \in Entries
  BY DEF TypeOK
<1>6. Bumps(entries, entries', h) /\ SameTags(entries, entries')
  BY <1>2, <1>5, AgeReset
<1>7. entries'[h].fresh = entries[h].fresh
  BY <1>2, <1>5 DEF Entries
<1>8. QED
  BY <1>1, <1>2, <1>3, <1>4, <1>6, <1>7 DEF where, SameTags

\* The entry found was forgotten, or it is extended, whoever made it.
LEMMA RefreshEffect ==
  ASSUME TypeOK, NEW w \in Workers, Refresh(w)
  PROVE  /\ pc[w] = "asking" /\ job[w].hash \in Hashes
         /\ pc' \in [Workers -> PCs] /\ job' \in [Workers -> Jobs]
         /\ job'[w].id = 0 /\ job'[w].tag = 0 /\ job'[w].after = "idle"
         /\ \A v \in Workers \ {w} : pc'[v] = pc[v] /\ job'[v] = job[v]
         /\ \/ /\ pc'[w] = "idle" /\ UNCHANGED <<entries, overtaken>>
            \/ /\ pc'[w] = "flush" /\ job'[w].hash = job[w].hash
               /\ Bumps(entries, entries', job[w].hash)
               /\ \/ entries'[job[w].hash].tag = entries[job[w].hash].tag
                     /\ UNCHANGED overtaken
                  \/ /\ entries'[job[w].hash].tag = job[w].tag
                     /\ \/ /\ entries[job[w].hash].id = job[w].id
                           /\ UNCHANGED overtaken
                        \/ overtaken' = overtaken \cup {job[w].hash}
         /\ UNCHANGED <<file, legacy, index, up, promoteMu, flushMu, snapshot,
                        made, lastRead, unwritten, crashes>>
<1> DEFINE h == job[w].hash
           j == [NoJob EXCEPT !.hash = h]
<1>1. h \in Hashes /\ job[w].tag \in Gens
  BY DEF TypeOK, Jobs
<1>2. /\ entries \in [Hashes -> Entries] /\ entries[h] \in Entries
      /\ entries[h].tag \in Gens
  BY <1>1 DEF TypeOK, Entries
<1>3. pc[w] = "asking"
  BY DEF Refresh
<1>4. CASE ~entries[h].live
  BY <1>1, <1>3, <1>4, DoneType, NoJobFields DEF Refresh
<1>5. CASE entries[h].live
  <2>1. PICK t \in {entries[h].tag, job[w].tag} :
          /\ entries' = [entries EXCEPT ![h] = Revalidated(entries[h], t)]
          /\ overtaken' = IF entries[h].id # job[w].id /\ t # entries[h].tag
                          THEN overtaken \cup {h} ELSE overtaken
          /\ GoTo(w, "flush") /\ job' = [job EXCEPT ![w] = j]
    BY <1>2, <1>5 DEF Refresh, Revalidated
  <2>2. /\ j \in Jobs /\ j.hash = h /\ j.id = 0 /\ j.tag = 0 /\ j.after = "idle"
    BY <1>1, NewJob
  <2>3. "flush" \in PCs /\ t \in Gens
    BY <1>1, <1>2 DEF PCs
  <2> HIDE DEF j
  <2>4. /\ pc' \in [Workers -> PCs] /\ pc'[w] = "flush"
        /\ \A v \in Workers \ {w} : pc'[v] = pc[v]
    BY <2>1, <2>3, GoToType
  <2>5. /\ job' \in [Workers -> Jobs] /\ job'[w] = j
        /\ \A v \in Workers \ {w} : job'[v] = job[v]
    BY <2>1, <2>2, JobType
  <2>6. /\ Revalidated(entries[h], t) \in Entries
        /\ Revalidated(entries[h], t).live = entries[h].live
        /\ Revalidated(entries[h], t).id = entries[h].id
        /\ Revalidated(entries[h], t).tag = t
        /\ Revalidated(entries[h], t).age = 0
    BY <1>2, <2>3, RevalidatedEntry
  <2>7. Bumps(entries, entries', h) /\ entries'[h].tag = t
    <3>1. /\ entries' \in [Hashes -> Entries]
          /\ entries'[h] = Revalidated(entries[h], t)
          /\ \A g \in Hashes \ {h} : entries'[g] = entries[g]
      BY <1>1, <1>2, <2>1, <2>6
    <3> HIDE DEF h
    <3>2. QED
      BY <2>6, <3>1 DEF Bumps
  <2>8. \/ t = entries[h].tag /\ UNCHANGED overtaken
        \/ /\ t = job[w].tag
           /\ \/ entries[h].id = job[w].id /\ UNCHANGED overtaken
              \/ overtaken' = overtaken \cup {h}
    BY <2>1
  <2>9. QED
    BY <1>1, <1>3, <2>2, <2>4, <2>5, <2>7, <2>8 DEF Refresh
<1>6. QED
  BY <1>4, <1>5

LEMMA NotRefreshedEffect ==
  ASSUME TypeOK, NEW w \in Workers, NotRefreshed(w)
  PROVE  /\ pc[w] = "asking"
         /\ pc' \in [Workers -> PCs] /\ job' \in [Workers -> Jobs]
         /\ pc'[w] = "idle" /\ job'[w] = NoJob
         /\ \A v \in Workers \ {w} : pc'[v] = pc[v] /\ job'[v] = job[v]
         /\ UNCHANGED <<file, legacy, index, up, entries, promoteMu, flushMu,
                        snapshot, made, lastRead, overtaken, unwritten, crashes>>
BY DoneType DEF NotRefreshed

LEMMA DownloadedEffect ==
  ASSUME TypeOK, NEW w \in Workers, NEW h \in Hashes, Downloaded(w, h)
  PROVE  /\ up /\ pc[w] = "idle"
         /\ made + Cardinality(Downloads) < MaxGen
         /\ pc' \in [Workers -> PCs] /\ job' \in [Workers -> Jobs]
         /\ pc'[w] = "sync"
         /\ job'[w].hash = h /\ job'[w].id = 0 /\ job'[w].tag = 0
         /\ job'[w].after = "idle"
         /\ \A v \in Workers \ {w} : pc'[v] = pc[v] /\ job'[v] = job[v]
         /\ UNCHANGED <<file, legacy, index, up, entries, promoteMu, flushMu,
                        snapshot, made, lastRead, overtaken, unwritten, crashes>>
<1> DEFINE j == [NoJob EXCEPT !.hash = h]
<1>1. Start(w, "sync", j)
  BY DEF Downloaded
<1>2. j \in Jobs /\ j.hash = h /\ j.id = 0 /\ j.tag = 0 /\ j.after = "idle"
  BY NewJob
<1>3. "sync" \in PCs
  BY DEF PCs
<1> HIDE DEF j
<1>4. QED
  BY <1>1, <1>2, <1>3, StartType DEF Downloaded, Downloads

LEMMA FlushBeginEffect ==
  ASSUME TypeOK, NEW w \in Workers, FlushBegin(w)
  PROVE  /\ pc[w] = "flush" /\ flushMu = NoWorker /\ flushMu' = w
         /\ pc' \in [Workers -> PCs] /\ pc'[w] = "write"
         /\ \A v \in Workers \ {w} : pc'[v] = pc[v]
         /\ snapshot' \in [Workers -> [Hashes -> Entries]]
         /\ snapshot'[w] = entries
         /\ \A v \in Workers \ {w} : snapshot'[v] = snapshot[v]
         /\ UNCHANGED <<file, legacy, index, up, entries, promoteMu, job, made,
                        lastRead, overtaken, unwritten, crashes>>
<1>1. "write" \in PCs
  BY DEF PCs
<1>2. QED
  BY <1>1, GoToType DEF FlushBegin, TypeOK

LEMMA FlushEndEffect ==
  ASSUME TypeOK, Locked, NEW w \in Workers, FlushEnd(w)
  PROVE  /\ pc[w] = "write" /\ flushMu' = NoWorker
         /\ \/ index' = snapshot[w] /\ unwritten' = FALSE
            \/ index' = index /\ unwritten' = TRUE
         /\ index' \in [Hashes -> Entries]
         /\ lastRead' \in [Hashes -> Ages]
         /\ \A g \in Hashes : lastRead'[g] = IF g = job[w].hash /\ ~unwritten'
                                             THEN 0 ELSE lastRead[g]
         /\ pc' \in [Workers -> PCs] /\ job' \in [Workers -> Jobs]
         /\ pc'[w] = job[w].after /\ pc'[w] \in {"idle", "open", "unlock"}
         /\ job'[w] = job[w] \/ (pc'[w] = "idle" /\ job'[w] = NoJob)
         /\ \A v \in Workers \ {w} : pc'[v] = pc[v] /\ job'[v] = job[v]
         /\ snapshot' = [snapshot EXCEPT ![w] = NoIndex]
         /\ snapshot' \in [Workers -> [Hashes -> Entries]]
         /\ UNCHANGED <<file, legacy, up, entries, promoteMu, made, overtaken, crashes>>
<1>1. job[w].after \in {"idle", "open", "unlock"} /\ job[w].after \in PCs
  BY DEF FlushEnd, Locked, PCs
<1>2. snapshot' \in [Workers -> [Hashes -> Entries]]
  BY ValueTypes DEF FlushEnd, TypeOK
<1>3. /\ \/ index' = snapshot[w] /\ unwritten' = FALSE
         \/ index' = index /\ unwritten' = TRUE
      /\ index' \in [Hashes -> Entries]
  BY DEF FlushEnd, TypeOK
<1>4. /\ lastRead' \in [Hashes -> Ages]
      /\ \A g \in Hashes : lastRead'[g] = IF g = job[w].hash /\ ~unwritten'
                                          THEN 0 ELSE lastRead[g]
  <2>1. /\ lastRead' = [lastRead EXCEPT ![job[w].hash] =
                          IF unwritten' THEN @ ELSE 0]
        /\ lastRead \in [Hashes -> Ages] /\ 0 \in Ages
        /\ job[w].hash \in Hashes
    BY Bounds, NumberTypes DEF FlushEnd, TypeOK, Ages
  <2>2. CASE unwritten'
    BY <2>1, <2>2
  <2>3. CASE ~unwritten'
    BY <2>1, <2>3
  <2>4. QED
    BY <2>2, <2>3
<1>5. CASE job[w].after = "idle"
  BY <1>2, <1>3, <1>4, <1>5, DoneType DEF FlushEnd
<1>6. CASE job[w].after # "idle"
  <2>1. GoTo(w, job[w].after) /\ UNCHANGED job
    BY <1>6 DEF FlushEnd
  <2>2. /\ pc' \in [Workers -> PCs] /\ pc'[w] = job[w].after
        /\ \A v \in Workers \ {w} : pc'[v] = pc[v]
    BY <1>1, <2>1, GoToType
  <2>3. job' \in [Workers -> Jobs]
    BY <2>1 DEF TypeOK
  <2>4. QED
    BY <1>1, <1>2, <1>3, <1>4, <2>1, <2>2, <2>3 DEF FlushEnd
<1>7. QED
  BY <1>5, <1>6

LEMMA OpenEffect ==
  ASSUME TypeOK, NEW w \in Workers, LoadOpen(w)
  PROVE  /\ pc[w] = "open"
         /\ \A v \in Workers \ {w} : pc'[v] = pc[v] /\ job'[v] = job[v]
         /\ pc' \in [Workers -> PCs] /\ job' \in [Workers -> Jobs]
         /\ \/ /\ file[job[w].hash].gen = 0
               /\ pc'[w] = "drop" /\ job'[w] = job[w] /\ UNCHANGED lastRead
            \/ /\ file[job[w].hash].gen # 0
               /\ \/ pc'[w] = "idle" /\ job'[w] = NoJob
                  \/ pc'[w] = "asking" /\ job'[w] = job[w] /\ job[w].tag # 0
               /\ \/ UNCHANGED lastRead
                  \/ /\ ~unwritten
                     /\ \A v \in Workers : pc[v] \notin {"flush", "write"}
                     /\ lastRead' = [lastRead EXCEPT ![job[w].hash] = 0]
         /\ UNCHANGED <<file, legacy, index, up, entries, promoteMu, flushMu,
                        snapshot, made, overtaken, unwritten, crashes>>
<1> DEFINE h == job[w].hash
<1>1. CASE file[h].gen = 0
  <2>1. GoTo(w, "drop") /\ UNCHANGED <<job, lastRead>>
    BY <1>1 DEF LoadOpen
  <2>2. "drop" \in PCs
    BY DEF PCs
  <2>3. /\ pc' \in [Workers -> PCs] /\ pc'[w] = "drop"
        /\ \A v \in Workers \ {w} : pc'[v] = pc[v]
    BY <2>1, <2>2, GoToType
  <2>4. job' \in [Workers -> Jobs]
    BY <2>1 DEF TypeOK
  <2>5. QED
    BY <1>1, <2>1, <2>3, <2>4 DEF LoadOpen
<1>2. CASE file[h].gen # 0
  <2> DEFINE recorded == ~unwritten /\ \A v \in Workers :
                           pc[v] \notin {"flush", "write"}
  <2>1. /\ pc' \in [Workers -> PCs] /\ job' \in [Workers -> Jobs]
        /\ \A v \in Workers \ {w} : pc'[v] = pc[v] /\ job'[v] = job[v]
        /\ \/ pc'[w] = "idle" /\ job'[w] = NoJob
           \/ pc'[w] = "asking" /\ job'[w] = job[w] /\ job[w].tag # 0
    <3>1. CASE job[w].tag = 0
      BY <1>2, <3>1, DoneType DEF LoadOpen
    <3>2. CASE job[w].tag # 0
      <4>1. GoTo(w, "asking") /\ UNCHANGED job /\ "asking" \in PCs
        BY <1>2, <3>2 DEF LoadOpen, PCs
      <4>2. QED
        BY <3>2, <4>1, GoToType DEF TypeOK
    <3>3. QED
      BY <3>1, <3>2
  <2>2. lastRead' = [lastRead EXCEPT ![h] = IF recorded THEN 0 ELSE @]
    BY <1>2 DEF LoadOpen
  <2>3. recorded => lastRead' = [lastRead EXCEPT ![h] = 0]
    BY <2>2
  <2>4. ~recorded => lastRead' = lastRead
    <3>1. h \in Hashes /\ lastRead \in [Hashes -> Ages]
      BY NumberTypes DEF TypeOK
    <3>2. QED
      BY <2>2, <3>1
  <2>5. QED
    BY <1>2, <2>1, <2>3, <2>4 DEF LoadOpen
<1>3. QED
  BY <1>1, <1>2

LEMMA DropEffect ==
  ASSUME TypeOK, NEW w \in Workers, LoadDrop(w)
  PROVE  /\ pc[w] = "drop"
         /\ pc' \in [Workers -> PCs] /\ job' \in [Workers -> Jobs]
         /\ pc'[w] = "idle" /\ job'[w] = NoJob
         /\ \A v \in Workers \ {w} : pc'[v] = pc[v] /\ job'[v] = job[v]
         /\ entries' \in [Hashes -> Entries]
         /\ \A g \in Hashes :
              \/ entries'[g] = entries[g]
              \/ /\ g = job[w].hash /\ entries[g].id = job[w].id
                 /\ entries'[g] = NoEntry
         /\ UNCHANGED <<file, legacy, index, up, promoteMu, flushMu, snapshot,
                        made, lastRead, overtaken, unwritten, crashes>>
<1>1. entries' \in [Hashes -> Entries]
  BY ValueTypes DEF LoadDrop, TypeOK
<1>2. \A g \in Hashes :
        \/ entries'[g] = entries[g]
        \/ /\ g = job[w].hash /\ entries[g].id = job[w].id
           /\ entries'[g] = NoEntry
  BY DEF LoadDrop, TypeOK
<1>3. Done(w)
  BY DEF LoadDrop
<1>4. QED
  BY <1>1, <1>2, <1>3, DoneType DEF LoadDrop

LEMMA SyncEffect ==
  ASSUME TypeOK, NEW w \in Workers, SyncTemp(w)
  PROVE  /\ pc[w] = "sync"
         /\ pc' \in [Workers -> PCs] /\ job' \in [Workers -> Jobs]
         /\ pc'[w] = "rename"
         /\ job'[w].hash = job[w].hash /\ job'[w].id = job[w].id
         /\ job'[w].tag = job[w].tag /\ job'[w].synced = TRUE
         /\ \A v \in Workers \ {w} : pc'[v] = pc[v] /\ job'[v] = job[v]
         /\ UNCHANGED <<file, legacy, index, up, entries, promoteMu, flushMu,
                        snapshot, made, lastRead, overtaken, unwritten, crashes>>
<1>1. job[w] \in Jobs /\ "rename" \in PCs
  BY DEF TypeOK, PCs
<1>2. [job[w] EXCEPT !.synced = TRUE] \in Jobs
  BY <1>1 DEF Jobs
<1>3. job' = [job EXCEPT ![w] = [job[w] EXCEPT !.synced = TRUE]]
  BY DEF SyncTemp, TypeOK
<1>4. /\ job' \in [Workers -> Jobs] /\ job'[w] = [job[w] EXCEPT !.synced = TRUE]
      /\ \A v \in Workers \ {w} : job'[v] = job[v]
  BY <1>2, <1>3, JobType
<1>5. /\ job'[w].hash = job[w].hash /\ job'[w].id = job[w].id
      /\ job'[w].tag = job[w].tag /\ job'[w].synced = TRUE
  BY <1>1, <1>4 DEF Jobs
<1>6. QED
  BY <1>1, <1>4, <1>5, GoToType DEF SyncTemp

LEMMA FailsEffect ==
  ASSUME TypeOK, NEW w \in Workers, PromoteFails(w)
  PROVE  /\ pc[w] \in {"sync", "rename"}
         /\ pc' \in [Workers -> PCs] /\ job' \in [Workers -> Jobs]
         /\ pc'[w] = "idle" /\ job'[w] = NoJob
         /\ \A v \in Workers \ {w} : pc'[v] = pc[v] /\ job'[v] = job[v]
         /\ UNCHANGED <<file, legacy, index, up, entries, promoteMu, flushMu,
                        snapshot, made, lastRead, overtaken, unwritten, crashes>>
BY DoneType DEF PromoteFails

LEMMA RenameEffect ==
  ASSUME TypeOK, Budget, NEW w \in Workers, PromoteRename(w)
  PROVE  /\ pc[w] = "rename" /\ promoteMu = NoWorker /\ promoteMu' = w
         /\ made' = made + 1 /\ made' \in Gens
         /\ file' \in [Hashes -> Files]
         /\ file'[job[w].hash].gen = made + 1
         /\ file'[job[w].hash].synced = job[w].synced
         /\ file'[job[w].hash].whole = TRUE
         /\ \A g \in Hashes \ {job[w].hash} : file'[g] = file[g]
         /\ pc' \in [Workers -> PCs] /\ job' \in [Workers -> Jobs]
         /\ pc'[w] = "entry"
         /\ job'[w].hash = job[w].hash /\ job'[w].id = made + 1
         /\ job'[w].tag = job[w].tag
         /\ \A v \in Workers \ {w} : pc'[v] = pc[v] /\ job'[v] = job[v]
         /\ UNCHANGED <<legacy, index, up, entries, flushMu, snapshot, lastRead,
                        overtaken, unwritten, crashes>>
<1> DEFINE f == [gen |-> made + 1, synced |-> job[w].synced, whole |-> TRUE]
<1>1. job[w] \in Jobs /\ job[w].hash \in Hashes /\ job[w].synced \in BOOLEAN
  BY DEF TypeOK, Jobs
<1>2. made + 1 \in Gens
  <2>1. IsFiniteSet(Downloads) /\ w \in Downloads
    BY WorkersAssumption, FS_Subset DEF Downloads, PromoteRename
  <2>2. Cardinality(Downloads) \in Nat /\ Cardinality(Downloads) # 0
    <3>1. Cardinality(Downloads) \in Nat
      BY <2>1, FS_CardinalityType
    <3>2. Cardinality(Downloads \ {w}) \in Nat
      BY <2>1, FS_RemoveElement, FS_CardinalityType
    <3>3. Cardinality(Downloads \ {w}) = Cardinality(Downloads) - 1
      BY <2>1, FS_RemoveElement
    <3>4. QED
      BY <3>1, <3>2, <3>3
  <2>3. QED
    BY <2>2, Bounds, NumberTypes DEF Budget, Gens
<1>3. f \in Files
  BY <1>1, <1>2 DEF Files
<1>3a. f.gen = made + 1 /\ f.synced = job[w].synced /\ f.whole = TRUE
  OBVIOUS
<1>4. /\ pc[w] = "rename" /\ promoteMu = NoWorker /\ promoteMu' = w
      /\ made' = made + 1 /\ GoTo(w, "entry")
      /\ file' = [file EXCEPT ![job[w].hash] = f]
      /\ UNCHANGED <<legacy, index, up, entries, flushMu, snapshot, lastRead,
                     overtaken, unwritten, crashes>>
  BY DEF PromoteRename
<1>5. job' = [job EXCEPT ![w] = [job[w] EXCEPT !.id = made + 1]]
  BY DEF PromoteRename, TypeOK
<1>6. [job[w] EXCEPT !.id = made + 1] \in Jobs
  BY <1>1, <1>2 DEF Jobs
<1>7. /\ job' \in [Workers -> Jobs] /\ job'[w] = [job[w] EXCEPT !.id = made + 1]
      /\ \A v \in Workers \ {w} : job'[v] = job[v]
  BY <1>5, <1>6, JobType
<1>8. /\ job'[w].hash = job[w].hash /\ job'[w].id = made + 1
      /\ job'[w].tag = job[w].tag
  BY <1>1, <1>7 DEF Jobs
<1>9. "entry" \in PCs
  BY DEF PCs
<1>10. /\ pc' \in [Workers -> PCs] /\ pc'[w] = "entry"
       /\ \A v \in Workers \ {w} : pc'[v] = pc[v]
  BY <1>4, <1>9, GoToType
<1> HIDE DEF f
<1>11. /\ file' \in [Hashes -> Files] /\ file'[job[w].hash] = f
       /\ \A g \in Hashes \ {job[w].hash} : file'[g] = file[g]
  BY <1>1, <1>3, <1>4 DEF TypeOK
<1>12. QED
  BY <1>2, <1>4, <1>7, <1>8, <1>10, <1>11, <1>3a

LEMMA EntryEffect ==
  ASSUME TypeOK, NEW w \in Workers, PromoteEntry(w)
  PROVE  /\ pc[w] = "entry"
         /\ entries' \in [Hashes -> Entries]
         /\ entries'[job[w].hash].live = TRUE
         /\ entries'[job[w].hash].id = job[w].id
         /\ entries'[job[w].hash].tag = job[w].id
         /\ entries'[job[w].hash].age = 0
         /\ \A g \in Hashes \ {job[w].hash} : entries'[g] = entries[g]
         /\ pc' \in [Workers -> PCs] /\ job' \in [Workers -> Jobs]
         /\ pc'[w] = "flush"
         /\ overtaken' = overtaken \ {job[w].hash}
         /\ job'[w].hash = job[w].hash /\ job'[w].id = job[w].id
         /\ job'[w].tag = job[w].tag /\ job'[w].after = "unlock"
         /\ \A v \in Workers \ {w} : pc'[v] = pc[v] /\ job'[v] = job[v]
         /\ UNCHANGED <<file, legacy, index, up, promoteMu, flushMu, snapshot,
                        made, lastRead, unwritten, crashes>>
<1> DEFINE e == [live |-> TRUE, id |-> job[w].id, tag |-> job[w].id,
                 fresh |-> TRUE, age |-> 0]
<1>1. job[w] \in Jobs /\ job[w].hash \in Hashes /\ job[w].id \in Gens
  BY DEF TypeOK, Jobs
<1>2. /\ e \in Entries
      /\ e.live = TRUE /\ e.id = job[w].id /\ e.tag = job[w].id /\ e.age = 0
  BY <1>1, Bounds DEF Entries, Ages
<1>3. /\ pc[w] = "entry" /\ GoTo(w, "flush")
      /\ entries' = [entries EXCEPT ![job[w].hash] = e]
      /\ overtaken' = overtaken \ {job[w].hash}
      /\ UNCHANGED <<file, legacy, index, up, promoteMu, flushMu, snapshot,
                     made, lastRead, unwritten, crashes>>
  BY DEF PromoteEntry
<1>4. job' = [job EXCEPT ![w] = [job[w] EXCEPT !.after = "unlock"]]
  BY DEF PromoteEntry, TypeOK
<1>5. "unlock" \in PCs /\ "flush" \in PCs
  BY DEF PCs
<1>6. [job[w] EXCEPT !.after = "unlock"] \in Jobs
  BY <1>1, <1>5 DEF Jobs
<1>7. /\ job' \in [Workers -> Jobs] /\ job'[w] = [job[w] EXCEPT !.after = "unlock"]
      /\ \A v \in Workers \ {w} : job'[v] = job[v]
  BY <1>4, <1>6, JobType
<1>8. /\ job'[w].hash = job[w].hash /\ job'[w].id = job[w].id
      /\ job'[w].tag = job[w].tag /\ job'[w].after = "unlock"
  BY <1>1, <1>7 DEF Jobs
<1>9. /\ pc' \in [Workers -> PCs] /\ pc'[w] = "flush"
      /\ \A v \in Workers \ {w} : pc'[v] = pc[v]
  BY <1>3, <1>5, GoToType
<1> HIDE DEF e
<1>10. /\ entries' \in [Hashes -> Entries] /\ entries'[job[w].hash] = e
       /\ \A g \in Hashes \ {job[w].hash} : entries'[g] = entries[g]
  BY <1>1, <1>2, <1>3 DEF TypeOK
<1>11. QED
  BY <1>2, <1>3, <1>7, <1>8, <1>9, <1>10

LEMMA UnlockEffect ==
  ASSUME TypeOK, NEW w \in Workers, PromoteUnlock(w)
  PROVE  /\ pc[w] = "unlock" /\ promoteMu' = NoWorker
         /\ pc' \in [Workers -> PCs] /\ job' \in [Workers -> Jobs]
         /\ pc'[w] = "idle" /\ job'[w] = NoJob
         /\ \A v \in Workers \ {w} : pc'[v] = pc[v] /\ job'[v] = job[v]
         /\ UNCHANGED <<file, legacy, index, up, entries, flushMu, snapshot,
                        made, lastRead, overtaken, unwritten, crashes>>
BY DoneType DEF PromoteUnlock
-----------------------------------------------------------------------------
(* A start leaves each hash in one of three ways. *)

\* There is no content, or only a legacy file that could not be migrated.
FindsNothing(h) ==
  /\ file[h].gen = 0 /\ file'[h] = file[h] /\ entries'[h] = NoEntry
  /\ legacy[h] = {} \/ Max(legacy[h]) \in legacy'[h]

\* The content is abandoned and removed.
Collects(h) ==
  /\ file'[h] = NoFile /\ entries'[h] = NoEntry
  /\ ~index[h].fresh /\ index[h].age >= GcAge

\* The content, its own or a migrated one, has an entry: that of the index
\* or a new one without validators.
Keeps(h) ==
  /\ \/ file[h].gen # 0 /\ file'[h] = file[h]
     \/ /\ file[h].gen = 0 /\ legacy[h] # {}
        /\ file'[h] = Durable(Max(legacy[h]))
  /\ file'[h].gen # 0
  /\ entries'[h].live = TRUE /\ entries'[h].id = 0
  /\ \/ entries'[h].tag = index[h].tag /\ entries'[h].age = index[h].age
     \/ entries'[h].tag = 0 /\ entries'[h].age = 0

LEMMA LegacyGen ==
  ASSUME TypeOK, NEW h \in Hashes, legacy[h] # {}
  PROVE  /\ Max(legacy[h]) \in legacy[h] /\ Max(legacy[h]) \in 1 .. LegacyMax
         /\ Max(legacy[h]) \in Gens /\ Max(legacy[h]) # 0
<1>1. legacy[h] \in SUBSET (1 .. LegacyMax)
  BY DEF TypeOK
<1>2. Max(legacy[h]) \in legacy[h]
  BY <1>1, Bounds, NewestLegacy
<1>3. QED
  BY <1>1, <1>2, Bounds DEF Gens

LEMMA RestartEffect ==
  ASSUME TypeOK, Restart
  PROVE  /\ ~up /\ up' = TRUE
         /\ file' \in [Hashes -> Files] /\ entries' \in [Hashes -> Entries]
         /\ legacy' \in [Hashes -> SUBSET (1 .. LegacyMax)]
         /\ \A h \in Hashes : FindsNothing(h) \/ Collects(h) \/ Keeps(h)
         /\ \/ index' = entries' /\ unwritten' = FALSE
            \/ index' = index /\ unwritten' = TRUE
         /\ "migration" \notin Faults => \A h \in Hashes : legacy'[h] = {}
         /\ UNCHANGED <<promoteMu, flushMu, pc, job, snapshot, made, lastRead,
                        overtaken, crashes>>
<1>1. PICK migrates \in SUBSET {h \in Hashes : legacy[h] # {} /\ file[h].gen = 0},
           readable, fresh, flushed \in BOOLEAN :
        LET contents == Migrated(migrates)
            read     == IF readable THEN index ELSE NoIndex
            found    == Reconciled(read, contents, migrates, fresh)
            unused   == {h \in Hashes : Abandoned(found[h])} IN
        \E collects \in SUBSET unused :
          /\ "migration" \in Faults
               \/ \A h \in Hashes : legacy[h] # {} /\ file[h].gen = 0 => h \in migrates
          /\ collects = unused \/ "collection" \in Faults
          /\ readable \/ "read" \in Faults
          /\ flushed \/ "write" \in Faults
          /\ file' = [h \in Hashes |-> IF h \in collects THEN NoFile ELSE contents[h]]
          /\ legacy' = LegacyLeft(migrates)
          /\ entries' = [h \in Hashes |-> IF h \in collects THEN NoEntry ELSE found[h]]
          /\ index' = IF flushed THEN entries' ELSE index
          /\ unwritten' = ~flushed
  BY Zenon DEF Restart
<1> DEFINE contents == Migrated(migrates)
           read == IF readable THEN index ELSE NoIndex
           found == Reconciled(read, contents, migrates, fresh)
<1>2. PICK collects \in SUBSET {h \in Hashes : Abandoned(found[h])} :
        /\ "migration" \in Faults
             \/ \A h \in Hashes : legacy[h] # {} /\ file[h].gen = 0 => h \in migrates
        /\ file' = [h \in Hashes |-> IF h \in collects THEN NoFile
                                     ELSE contents[h]]
        /\ legacy' = LegacyLeft(migrates)
        /\ entries' = [h \in Hashes |-> IF h \in collects THEN NoEntry
                                        ELSE found[h]]
        /\ index' = IF flushed THEN entries' ELSE index
        /\ unwritten' = ~flushed
  BY <1>1
<1>3. \A h \in Hashes :
        /\ h \in migrates => legacy[h] # {} /\ file[h].gen = 0
        /\ contents[h] = IF h \in migrates THEN Durable(Max(legacy[h]))
                         ELSE file[h]
        /\ contents[h] \in Files
        /\ h \in migrates => contents[h].gen # 0
  <2> SUFFICES ASSUME NEW h \in Hashes
               PROVE  /\ h \in migrates => legacy[h] # {} /\ file[h].gen = 0
                      /\ contents[h] = IF h \in migrates
                                       THEN Durable(Max(legacy[h]))
                                       ELSE file[h]
                      /\ contents[h] \in Files
                      /\ h \in migrates => contents[h].gen # 0
    OBVIOUS
  <2>1. h \in migrates => legacy[h] # {} /\ file[h].gen = 0
    OBVIOUS
  <2>2. contents[h] = IF h \in migrates THEN Durable(Max(legacy[h])) ELSE file[h]
    BY <2>1 DEF Migrated
  <2>3. CASE h \in migrates
    <3>1. Max(legacy[h]) \in Gens /\ Max(legacy[h]) # 0
      BY <2>1, <2>3, LegacyGen
    <3>2. /\ Durable(Max(legacy[h])) \in Files
          /\ Durable(Max(legacy[h])).gen # 0
      BY <3>1, ValueTypes DEF Durable
    <3>3. QED
      BY <2>1, <2>2, <2>3, <3>2
  <2>4. CASE h \notin migrates
    BY <2>2, <2>4 DEF TypeOK
  <2>5. QED
    BY <2>1, <2>2, <2>3, <2>4
<1>4. \A h \in Hashes : read[h] = index[h] \/ read[h] = NoEntry
  BY DEF NoIndex
<1> HIDE DEF contents, read
<1>5. \A h \in Hashes :
        found[h] = IF contents[h].gen = 0 THEN NoEntry
                   ELSE IF read[h].live THEN [read[h] EXCEPT !.id = 0]
                   ELSE Adopted(h \in migrates /\ fresh)
  BY DEF Reconciled
<1> HIDE DEF found
<1>6. \A h \in Hashes :
        /\ found[h] \in Entries
        /\ contents[h].gen = 0 => found[h] = NoEntry
        /\ contents[h].gen # 0 =>
             /\ found[h].live = TRUE /\ found[h].id = 0
             /\ \/ /\ found[h].tag = index[h].tag
                   /\ found[h].age = index[h].age
                   /\ found[h].fresh = index[h].fresh
                \/ found[h].tag = 0 /\ found[h].age = 0
  <2> SUFFICES ASSUME NEW h \in Hashes
               PROVE  /\ found[h] \in Entries
                      /\ contents[h].gen = 0 => found[h] = NoEntry
                      /\ contents[h].gen # 0 =>
                           /\ found[h].live = TRUE /\ found[h].id = 0
                           /\ \/ /\ found[h].tag = index[h].tag
                                 /\ found[h].age = index[h].age
                                 /\ found[h].fresh = index[h].fresh
                              \/ found[h].tag = 0 /\ found[h].age = 0
    OBVIOUS
  <2>1. CASE contents[h].gen = 0
    BY <1>5, <2>1, ValueTypes
  <2>2. CASE contents[h].gen # 0 /\ read[h].live
    <3>1. read[h] = index[h] /\ index[h].live = TRUE
      BY <1>4, <2>2 DEF NoEntry, TypeOK, Entries
    <3>2. found[h] = [index[h] EXCEPT !.id = 0]
      BY <1>5, <2>2, <3>1
    <3>3. index[h] \in Entries /\ 0 \in Gens
      BY Bounds DEF TypeOK, Gens
    <3>4. /\ found[h] \in Entries
          /\ found[h].live = index[h].live /\ found[h].id = 0
          /\ found[h].tag = index[h].tag /\ found[h].age = index[h].age
          /\ found[h].fresh = index[h].fresh
      BY <3>2, <3>3 DEF Entries
    <3>5. QED
      BY <2>2, <3>1, <3>4
  <2>3. CASE contents[h].gen # 0 /\ ~read[h].live
    <3>1. PICK b \in BOOLEAN : found[h] = Adopted(b)
      BY <1>5, <2>3
    <3>2. found[h] \in Entries
      BY <3>1, ValueTypes
    <3>3. QED
      BY <2>3, <3>1, <3>2 DEF Adopted
  <2>4. QED
    BY <2>1, <2>2, <2>3
<1>7. ASSUME NEW h \in Hashes
      PROVE  FindsNothing(h) \/ Collects(h) \/ Keeps(h)
  <2>1. CASE h \in collects
    <3>1. found[h].live /\ ~found[h].fresh /\ found[h].age >= GcAge
      BY <2>1 DEF Abandoned
    <3>2. contents[h].gen # 0
      BY <1>6, <3>1 DEF NoEntry
    <3>3. ~index[h].fresh /\ index[h].age >= GcAge
      BY <1>6, <3>1, <3>2, Bounds
    <3>4. QED
      BY <1>2, <2>1, <3>3 DEF Collects
  <2>2. CASE h \notin collects /\ contents[h].gen # 0
    <3>1. file'[h] = contents[h] /\ entries'[h] = found[h]
      BY <1>2, <2>2
    <3>2. QED
      BY <1>3, <1>6, <2>2, <3>1 DEF Keeps
  <2>3. CASE h \notin collects /\ contents[h].gen = 0
    <3>1. file'[h] = contents[h] /\ entries'[h] = NoEntry
      BY <1>2, <1>6, <2>3
    <3>2. h \notin migrates /\ contents[h] = file[h]
      BY <1>3, <2>3
    <3>3. legacy'[h] = IF legacy[h] = {} THEN {} ELSE {Max(legacy[h])}
      BY <1>2, <2>3, <3>2 DEF LegacyLeft
    <3>4. QED
      BY <2>3, <3>1, <3>2, <3>3 DEF FindsNothing
  <2>4. QED
    BY <2>1, <2>2, <2>3
<1>8. legacy' \in [Hashes -> SUBSET (1 .. LegacyMax)]
  <2>1. ASSUME NEW h \in Hashes
        PROVE  LegacyLeft(migrates)[h] \in SUBSET (1 .. LegacyMax)
    BY LegacyGen DEF LegacyLeft
  <2>2. QED
    BY <1>2, <2>1 DEF LegacyLeft
<1>9. "migration" \notin Faults => \A h \in Hashes : legacy'[h] = {}
  BY <1>2 DEF LegacyLeft
<1>10. file' \in [Hashes -> Files] /\ entries' \in [Hashes -> Entries]
  BY <1>2, <1>3, <1>6, ValueTypes
<1>11. \/ index' = entries' /\ unwritten' = FALSE
       \/ index' = index /\ unwritten' = TRUE
  BY <1>2
<1>12. QED
  BY <1>7, <1>8, <1>9, <1>10, <1>11 DEF Restart
-----------------------------------------------------------------------------
(* The environment. *)

LEMMA CrashEffect ==
  ASSUME TypeOK, Crash
  PROVE  /\ up' = FALSE /\ crashes' \in 0 .. MaxCrashes
         /\ file' \in [Hashes -> Files]
         /\ \A h \in Hashes :
              /\ file'[h].gen = file[h].gen /\ file'[h].synced = TRUE
              /\ file[h].synced => file'[h].whole = file[h].whole
         /\ entries' = NoIndex
         /\ pc' \in [Workers -> PCs] /\ job' \in [Workers -> Jobs]
         /\ \A w \in Workers : pc'[w] = "idle" /\ job'[w] = NoJob
         /\ promoteMu' = NoWorker /\ flushMu' = NoWorker
         /\ snapshot' \in [Workers -> [Hashes -> Entries]]
         /\ overtaken' = {}
         /\ UNCHANGED <<legacy, index, made, lastRead, unwritten>>
<1>1. PICK torn \in SUBSET {h \in Hashes : ~file[h].synced} :
        file' = [h \in Hashes |-> [file[h] EXCEPT !.synced = TRUE,
                                                  !.whole = @ /\ h \notin torn]]
  BY DEF Crash
<1>2. ASSUME NEW h \in Hashes
      PROVE  /\ file'[h] \in Files
             /\ file'[h].gen = file[h].gen /\ file'[h].synced = TRUE
             /\ file[h].synced => file'[h].whole = file[h].whole
  <2>1. PICK b \in BOOLEAN : b = (file[h].whole /\ h \notin torn)
    OBVIOUS
  <2>2. file'[h] = [[file[h] EXCEPT !.synced = TRUE] EXCEPT !.whole = b]
    BY <1>1, <2>1
  <2>3. file[h] \in Files
    BY DEF TypeOK
  <2>4. /\ file'[h] \in Files /\ file'[h].gen = file[h].gen
        /\ file'[h].synced = TRUE /\ file'[h].whole = b
    BY <2>2, <2>3 DEF Files
  <2>5. file[h].synced => b = file[h].whole
    BY <2>1, <2>3 DEF Files
  <2>6. QED
    BY <2>4, <2>5
<1>3. file' \in [Hashes -> Files]
  BY <1>1, <1>2
<1>4. "idle" \in PCs
  BY DEF PCs
<1>5. crashes' \in 0 .. MaxCrashes
  <2>1. /\ crashes \in 0 .. MaxCrashes /\ crashes < MaxCrashes
        /\ crashes' = crashes + 1
    BY DEF Crash, TypeOK
  <2>2. QED
    BY <2>1, Bounds
<1>6. QED
  BY <1>2, <1>3, <1>4, <1>5, ValueTypes DEF Crash

LEMMA PurgeEffect ==
  ASSUME TypeOK, NEW h \in Hashes, Purge(h)
  PROVE  /\ file' \in [Hashes -> Files] /\ file'[h] = NoFile
         /\ \A g \in Hashes \ {h} : file'[g] = file[g]
         /\ UNCHANGED <<legacy, index, up, entries, promoteMu, flushMu, pc, job,
                        snapshot, made, lastRead, overtaken, unwritten, crashes>>
BY ValueTypes DEF Purge, TypeOK

\* What a tick does to an entry.
GrowsOlder(e, f) ==
  /\ f \in Entries /\ f.live = e.live /\ f.id = e.id /\ f.tag = e.tag
  /\ f.age = IF e.live /\ e.age < GcAge THEN e.age + 1 ELSE e.age

LEMMA OlderEntry ==
  ASSUME NEW e \in Entries, NEW expired \in BOOLEAN
  PROVE  /\ GrowsOlder(e, Older(e, expired))
         /\ Older(e, expired).fresh = (e.fresh /\ ~expired)
<1> DEFINE n == IF e.live /\ e.age < GcAge THEN e.age + 1 ELSE e.age
<1>1. n \in Ages
  BY Bounds DEF Entries, Ages
<1>2. PICK b \in BOOLEAN : b = (e.fresh /\ ~expired)
  OBVIOUS
<1>3. Older(e, expired) = [[e EXCEPT !.age = n] EXCEPT !.fresh = b]
  BY <1>2 DEF Older
<1> HIDE DEF n
<1>4. /\ Older(e, expired) \in Entries
      /\ Older(e, expired).live = e.live /\ Older(e, expired).id = e.id
      /\ Older(e, expired).tag = e.tag /\ Older(e, expired).age = n
      /\ Older(e, expired).fresh = b
  BY <1>1, <1>3 DEF Entries
<1>5. QED
  BY <1>2, <1>4 DEF n, GrowsOlder

LEMMA TickEffect ==
  ASSUME TypeOK, Tick
  PROVE  /\ \A w \in Workers : pc[w] = "idle"
         /\ entries' \in [Hashes -> Entries] /\ index' \in [Hashes -> Entries]
         /\ lastRead' \in [Hashes -> Ages]
         /\ \A h \in Hashes :
              /\ GrowsOlder(entries[h], entries'[h]) /\ GrowsOlder(index[h], index'[h])
              /\ entries[h].fresh = index[h].fresh
                   => entries'[h].fresh = index'[h].fresh
              /\ lastRead'[h] = IF lastRead[h] < GcAge THEN lastRead[h] + 1
                                                      ELSE GcAge
         /\ UNCHANGED <<file, legacy, up, promoteMu, flushMu, pc, job, snapshot,
                        made, overtaken, unwritten, crashes>>
<1>1. PICK expired \in BOOLEAN :
        /\ entries' = [h \in Hashes |-> Older(entries[h], expired)]
        /\ index' = [h \in Hashes |-> Older(index[h], expired)]
  BY Zenon DEF Tick
<1>2. \A h \in Hashes : entries[h] \in Entries /\ index[h] \in Entries
  BY DEF TypeOK
<1>3. \A h \in Hashes :
        /\ GrowsOlder(entries[h], entries'[h]) /\ GrowsOlder(index[h], index'[h])
        /\ entries'[h].fresh = (entries[h].fresh /\ ~expired)
        /\ index'[h].fresh = (index[h].fresh /\ ~expired)
  BY <1>1, <1>2, OlderEntry
<1>4. entries' \in [Hashes -> Entries] /\ index' \in [Hashes -> Entries]
  BY <1>1, <1>3 DEF GrowsOlder
<1>5. \A h \in Hashes : entries[h].fresh = index[h].fresh
                         => entries'[h].fresh = index'[h].fresh
  BY <1>3
<1>6. lastRead' \in [Hashes -> Ages]
  BY Bounds DEF Tick, TypeOK, Ages
<1>7. \A h \in Hashes : lastRead'[h] = IF lastRead[h] < GcAge
                                        THEN lastRead[h] + 1 ELSE GcAge
  BY DEF Tick
<1>8. QED
  BY <1>3, <1>4, <1>5, <1>6, <1>7 DEF Tick
-----------------------------------------------------------------------------
(* Types and locks. *)

LEMMA TypeStep == TypeOK /\ Locked /\ Budget /\ [Next]_vars => TypeOK'
<1> SUFFICES ASSUME TypeOK, Locked, Budget, [Next]_vars PROVE TypeOK'
  OBVIOUS
<1>1. CASE Restart
  <2>1. index' \in [Hashes -> Entries] /\ unwritten' \in BOOLEAN
    BY <1>1, RestartEffect DEF TypeOK
  <2>2. QED
    BY <1>1, <2>1, RestartEffect DEF TypeOK
<1>2. CASE Crash
  BY <1>2, CrashEffect, ValueTypes DEF TypeOK
<1>3. CASE Tick
  BY <1>3, TickEffect DEF TypeOK
<1>4. ASSUME NEW h \in Hashes, Purge(h) PROVE TypeOK'
  BY <1>4, PurgeEffect DEF TypeOK
<1>5. ASSUME NEW w \in Workers, NEW h \in Hashes, LoadLookup(w, h) PROVE TypeOK'
  BY <1>5, LookupEffect DEF TypeOK, Bumps
<1>6. ASSUME NEW w \in Workers, NEW h \in Hashes, Downloaded(w, h) PROVE TypeOK'
  BY <1>6, DownloadedEffect DEF TypeOK
<1>7. ASSUME NEW w \in Workers, Refresh(w) \/ NotRefreshed(w) PROVE TypeOK'
  BY <1>7, RefreshEffect, NotRefreshedEffect DEF TypeOK, Bumps
<1>8. ASSUME NEW w \in Workers, FlushBegin(w) PROVE TypeOK'
  BY <1>8, FlushBeginEffect DEF TypeOK
<1>9. ASSUME NEW w \in Workers, FlushEnd(w) PROVE TypeOK'
  <2>1. unwritten' \in BOOLEAN
    BY <1>9, FlushEndEffect
  <2>2. QED
    BY <1>9, <2>1, FlushEndEffect DEF TypeOK
<1>10. ASSUME NEW w \in Workers, LoadOpen(w) PROVE TypeOK'
  <2>1. lastRead' \in [Hashes -> Ages]
    <3>1. 0 \in Ages
      BY Bounds DEF Ages
    <3>2. QED
      BY <1>10, <3>1, OpenEffect DEF TypeOK
  <2>2. QED
    BY <1>10, <2>1, OpenEffect DEF TypeOK
<1>11. ASSUME NEW w \in Workers, LoadDrop(w) PROVE TypeOK'
  BY <1>11, DropEffect DEF TypeOK
<1>12. ASSUME NEW w \in Workers, SyncTemp(w) PROVE TypeOK'
  BY <1>12, SyncEffect DEF TypeOK
<1>13. ASSUME NEW w \in Workers, PromoteFails(w) PROVE TypeOK'
  BY <1>13, FailsEffect DEF TypeOK
<1>14. ASSUME NEW w \in Workers, PromoteRename(w) PROVE TypeOK'
  <2>1. /\ file' \in [Hashes -> Files] /\ made' \in Gens /\ promoteMu' = w
        /\ pc' \in [Workers -> PCs] /\ job' \in [Workers -> Jobs]
        /\ UNCHANGED <<legacy, index, up, entries, flushMu, snapshot, lastRead,
                       overtaken, unwritten, crashes>>
    BY <1>14, RenameEffect
  <2>2. QED
    BY <2>1 DEF TypeOK
<1>15. ASSUME NEW w \in Workers, PromoteEntry(w) PROVE TypeOK'
  <2>1. /\ entries' \in [Hashes -> Entries]
        /\ pc' \in [Workers -> PCs] /\ job' \in [Workers -> Jobs]
        /\ overtaken' \subseteq overtaken
        /\ UNCHANGED <<file, legacy, index, up, promoteMu, flushMu, snapshot,
                       made, lastRead, unwritten, crashes>>
    BY <1>15, EntryEffect
  <2>2. QED
    BY <2>1 DEF TypeOK
<1>16. ASSUME NEW w \in Workers, PromoteUnlock(w) PROVE TypeOK'
  BY <1>16, UnlockEffect DEF TypeOK
<1>17. CASE UNCHANGED vars
  BY <1>17 DEF vars, TypeOK
<1>18. QED
  BY <1>1, <1>2, <1>3, <1>4, <1>5, <1>6, <1>7, <1>8, <1>9, <1>10, <1>11, <1>12,
     <1>13, <1>14, <1>15, <1>16, <1>17 DEF Next, Work

LEMMA LockedStep == TypeOK /\ Locked /\ Budget /\ [Next]_vars => Locked'
<1> SUFFICES ASSUME TypeOK, Locked, Budget, [Next]_vars PROVE Locked'
  OBVIOUS
<1> USE DEF Locked, InPromote
<1>1. CASE Restart
  BY <1>1, RestartEffect
<1>2. CASE Crash
  BY <1>2, CrashEffect
<1>3. CASE Tick
  BY <1>3, TickEffect
<1>4. ASSUME NEW h \in Hashes, Purge(h) PROVE Locked'
  BY <1>4, PurgeEffect
<1>5. ASSUME NEW w \in Workers, NEW h \in Hashes, LoadLookup(w, h) PROVE Locked'
  BY <1>5, LookupEffect
<1>6. ASSUME NEW w \in Workers, NEW h \in Hashes, Downloaded(w, h) PROVE Locked'
  BY <1>6, DownloadedEffect
<1>7. ASSUME NEW w \in Workers, Refresh(w) \/ NotRefreshed(w) PROVE Locked'
  BY <1>7, RefreshEffect, NotRefreshedEffect
<1>8. ASSUME NEW w \in Workers, FlushBegin(w) PROVE Locked'
  BY <1>8, FlushBeginEffect, WorkersAssumption
<1>9. ASSUME NEW w \in Workers, FlushEnd(w) PROVE Locked'
  <2>1. /\ pc[w] = "write" /\ pc'[w] = job[w].after
        /\ pc'[w] \in {"idle", "open", "unlock"}
        /\ \A v \in Workers \ {w} : pc'[v] = pc[v] /\ job'[v] = job[v]
        /\ UNCHANGED <<promoteMu, up>>
    BY <1>9, FlushEndEffect
  <2>2. \A v \in Workers : InPromote(v)' => promoteMu' = v
    BY <2>1
  <2>3. \A v \in Workers : pc'[v] # "write"
    BY <2>1
  <2>4. \A v \in Workers : pc'[v] \in {"flush", "write"} =>
          job'[v].after \in {"idle", "open", "unlock"}
    BY <2>1
  <2>5. QED
    BY <2>1, <2>2, <2>3, <2>4
<1>10. ASSUME NEW w \in Workers, LoadOpen(w) PROVE Locked'
  BY <1>10, OpenEffect
<1>11. ASSUME NEW w \in Workers, LoadDrop(w) PROVE Locked'
  BY <1>11, DropEffect
<1>12. ASSUME NEW w \in Workers, SyncTemp(w) PROVE Locked'
  <2>1. /\ pc[w] = "sync" /\ pc'[w] = "rename"
        /\ \A v \in Workers \ {w} : pc'[v] = pc[v] /\ job'[v] = job[v]
        /\ UNCHANGED <<promoteMu, flushMu, up>>
    BY <1>12, SyncEffect
  <2>2. QED
    BY <2>1
<1>13. ASSUME NEW w \in Workers, PromoteFails(w) PROVE Locked'
  BY <1>13, FailsEffect
<1>14. ASSUME NEW w \in Workers, PromoteRename(w) PROVE Locked'
  <2>1. /\ pc[w] = "rename" /\ promoteMu = NoWorker /\ promoteMu' = w
        /\ pc'[w] = "entry"
        /\ \A v \in Workers \ {w} : pc'[v] = pc[v] /\ job'[v] = job[v]
        /\ UNCHANGED <<flushMu, up>>
    BY <1>14, RenameEffect
  <2>2. QED
    BY <2>1, WorkersAssumption
<1>15. ASSUME NEW w \in Workers, PromoteEntry(w) PROVE Locked'
  <2>1. /\ pc[w] = "entry" /\ pc'[w] = "flush" /\ job'[w].after = "unlock"
        /\ \A v \in Workers \ {w} : pc'[v] = pc[v] /\ job'[v] = job[v]
        /\ UNCHANGED <<promoteMu, flushMu, up>>
    BY <1>15, EntryEffect
  <2>2. QED
    BY <2>1
<1>16. ASSUME NEW w \in Workers, PromoteUnlock(w) PROVE Locked'
  BY <1>16, UnlockEffect, WorkersAssumption
<1>17. CASE UNCHANGED vars
  BY <1>17 DEF vars
<1>18. QED
  BY <1>1, <1>2, <1>3, <1>4, <1>5, <1>6, <1>7, <1>8, <1>9, <1>10, <1>11, <1>12,
     <1>13, <1>14, <1>15, <1>16, <1>17 DEF Next, Work
-----------------------------------------------------------------------------
(* The bound on contents, and the syncing of files. *)

LEMMA BudgetKept ==
  ASSUME TypeOK, Budget, Downloads' \subseteq Downloads, UNCHANGED made
  PROVE  Budget'
<1>1. IsFiniteSet(Downloads)
  BY WorkersAssumption, FS_Subset DEF Downloads
<1>2. Cardinality(Downloads') <= Cardinality(Downloads)
  BY <1>1, FS_Subset
<1>3. Cardinality(Downloads) \in Nat /\ Cardinality(Downloads') \in Nat
  BY <1>1, FS_Subset, FS_CardinalityType
<1>4. QED
  BY <1>2, <1>3, NumberTypes, Bounds DEF Budget

LEMMA BudgetStep == TypeOK /\ Locked /\ Budget /\ [Next]_vars => Budget'
<1> SUFFICES ASSUME TypeOK, Locked, Budget, [Next]_vars PROVE Budget'
  OBVIOUS
<1>1. CASE UNCHANGED made
  <2>1. CASE Downloads' \subseteq Downloads
    BY <1>1, <2>1, BudgetKept
  <2>2. ASSUME NEW w \in Workers, NEW h \in Hashes, Downloaded(w, h)
        PROVE  Budget'
    <3>1. /\ made + Cardinality(Downloads) < MaxGen
          /\ Downloads' = Downloads \cup {w}
      BY <2>2, DownloadedEffect DEF Downloads
    <3>2. IsFiniteSet(Downloads)
      BY WorkersAssumption, FS_Subset DEF Downloads
    <3>3. Cardinality(Downloads) \in Nat
      BY <3>2, FS_CardinalityType
    <3>4. Cardinality(Downloads') = IF w \in Downloads THEN Cardinality(Downloads)
                                    ELSE Cardinality(Downloads) + 1
      BY <3>1, <3>2, FS_AddElement, Zenon
    <3>5. made \in Nat /\ MaxGen \in Nat
      BY NumberTypes, Bounds
    <3>6. made + Cardinality(Downloads') <= MaxGen
      BY <3>1, <3>3, <3>4, <3>5
    <3>7. QED
      BY <1>1, <3>6 DEF Budget
  <2>3. ASSUME NEW w \in Workers, Work(w) PROVE Downloads' \subseteq Downloads
    BY <2>3, FlushBeginEffect, FlushEndEffect, OpenEffect, DropEffect,
       SyncEffect, FailsEffect, RenameEffect, EntryEffect, UnlockEffect,
       RefreshEffect, NotRefreshedEffect DEF Work, Downloads
  <2>4. ASSUME NEW w \in Workers, NEW h \in Hashes, LoadLookup(w, h)
        PROVE  Downloads' \subseteq Downloads
    BY <2>4, LookupEffect DEF Downloads
  <2>5. CASE Restart \/ Crash \/ Tick \/ \E h \in Hashes : Purge(h)
    <3>1. \A w \in Workers : pc'[w] = pc[w] \/ pc'[w] = "idle"
      <4>1. CASE Restart
        BY <4>1, RestartEffect
      <4>2. CASE Crash
        BY <4>2, CrashEffect
      <4>3. CASE Tick
        BY <4>3, TickEffect
      <4>4. ASSUME NEW h \in Hashes, Purge(h) PROVE UNCHANGED pc
        BY <4>4, PurgeEffect
      <4>5. QED
        BY <2>5, <4>1, <4>2, <4>3, <4>4
    <3>2. Downloads' \subseteq Downloads
      BY <3>1 DEF Downloads
    <3>3. QED
      BY <1>1, <3>2, BudgetKept
  <2>6. CASE UNCHANGED vars
    BY <2>1, <2>6 DEF vars, Downloads
  <2>7. QED
    BY <2>1, <2>2, <2>3, <2>4, <2>5, <2>6 DEF Next
<1>2. ASSUME NEW w \in Workers, PromoteRename(w) PROVE Budget'
  <2>1. made' = made + 1 /\ Downloads' = Downloads \ {w} /\ w \in Downloads
    <3>1. /\ pc[w] = "rename" /\ pc'[w] = "entry" /\ made' = made + 1
          /\ \A v \in Workers \ {w} : pc'[v] = pc[v]
      BY <1>2, RenameEffect
    <3>2. QED
      BY <3>1 DEF Downloads
  <2>2. IsFiniteSet(Downloads)
    BY WorkersAssumption, FS_Subset DEF Downloads
  <2>3. Cardinality(Downloads) \in Nat
    BY <2>2, FS_CardinalityType
  <2>4. Cardinality(Downloads') = IF w \in Downloads THEN Cardinality(Downloads) - 1
                                  ELSE Cardinality(Downloads)
    BY <2>1, <2>2, FS_RemoveElement, Zenon
  <2>5. QED
    BY <2>1, <2>3, <2>4, NumberTypes, Bounds DEF Budget
<1>3. made' # made => \E w \in Workers : PromoteRename(w)
  BY FlushBeginEffect, FlushEndEffect, OpenEffect, DropEffect, SyncEffect,
     FailsEffect, EntryEffect, UnlockEffect, LookupEffect, RefreshEffect,
     NotRefreshedEffect, DownloadedEffect, RestartEffect, CrashEffect, TickEffect, PurgeEffect
     DEF Next, Work, vars
<1>4. QED
  BY <1>1, <1>2, <1>3

LEMMA SyncedStep ==
  TypeOK /\ Locked /\ Budget /\ Synced /\ [Next]_vars => Synced'
<1> SUFFICES ASSUME TypeOK, Locked, Budget, Synced, [Next]_vars PROVE Synced'
  OBVIOUS
<1> USE DEF Synced
<1>1. CASE Restart
  <2>1. ASSUME NEW h \in Hashes
        PROVE  file'[h].synced = TRUE /\ file'[h].whole = TRUE
    <3>1. FindsNothing(h) \/ Collects(h) \/ Keeps(h)
      BY <1>1, RestartEffect
    <3>2. \/ file'[h] = file[h] \/ file'[h] = NoFile
          \/ file'[h] = Durable(Max(legacy[h]))
      BY <3>1 DEF FindsNothing, Collects, Keeps
    <3>3. QED
      BY <3>2 DEF NoFile, Durable
  <2>2. QED
    BY <1>1, <2>1, RestartEffect
<1>2. CASE Crash
  BY <1>2, CrashEffect
<1>3. CASE Tick
  BY <1>3, TickEffect
<1>4. ASSUME NEW h \in Hashes, Purge(h) PROVE Synced'
  BY <1>4, PurgeEffect DEF NoFile
<1>5. ASSUME NEW w \in Workers, SyncTemp(w) PROVE Synced'
  BY <1>5, SyncEffect
<1>6. ASSUME NEW w \in Workers, PromoteRename(w) PROVE Synced'
  <2>1. job[w].synced = TRUE
    BY <1>6, RenameEffect
  <2>2. file'[job[w].hash].synced = TRUE /\ file'[job[w].hash].whole = TRUE
    BY <1>6, <2>1, RenameEffect
  <2>3. \A h \in Hashes \ {job[w].hash} : file'[h] = file[h]
    BY <1>6, RenameEffect
  <2>4. \A h \in Hashes : file'[h].synced = TRUE /\ file'[h].whole = TRUE
    BY <2>2, <2>3
  <2>5. QED
    BY <1>6, <2>4, RenameEffect
<1>7. ASSUME NEW w \in Workers, Work(w), ~SyncTemp(w), ~PromoteRename(w)
      PROVE  Synced'
  <2> DEFINE Leaves == /\ pc'[w] # "rename" /\ UNCHANGED file
                       /\ \A v \in Workers \ {w} : pc'[v] = pc[v] /\ job'[v] = job[v]
  <2>1. FlushBegin(w) => Leaves
    BY FlushBeginEffect
  <2>2. FlushEnd(w) => Leaves
    BY FlushEndEffect, <1>7 DEF Locked
  <2>3. LoadOpen(w) => Leaves
    BY OpenEffect
  <2>4. LoadDrop(w) => Leaves
    BY DropEffect
  <2>5. PromoteFails(w) => Leaves
    BY FailsEffect
  <2>6. PromoteEntry(w) => Leaves
    BY EntryEffect
  <2>7. PromoteUnlock(w) => Leaves
    BY UnlockEffect
  <2>8. Refresh(w) \/ NotRefreshed(w) => Leaves
    BY RefreshEffect, NotRefreshedEffect
  <2>9. Leaves
    BY <1>7, <2>1, <2>2, <2>3, <2>4, <2>5, <2>6, <2>7, <2>8 DEF Work
  <2>10. QED
    BY <2>9
<1>8. ASSUME NEW w \in Workers, NEW h \in Hashes,
             LoadLookup(w, h) \/ Downloaded(w, h)
      PROVE  Synced'
  <2>1. pc'[w] # "rename" /\ UNCHANGED file
        /\ \A v \in Workers \ {w} : pc'[v] = pc[v] /\ job'[v] = job[v]
    BY <1>8, LookupEffect, DownloadedEffect
  <2>2. QED
    BY <2>1
<1>9. CASE UNCHANGED vars
  BY <1>9 DEF vars
<1>10. QED
  BY <1>1, <1>2, <1>3, <1>4, <1>5, <1>6, <1>7, <1>8, <1>9 DEF Next
-----------------------------------------------------------------------------
(* Identities of entries. *)

\* No step but a promotion's brings a new identity into play.
LEMMA UniqueKept ==
  ASSUME TypeOK, Unique, UNCHANGED made,
         \A h \in Hashes : entries'[h].id \in {0, entries[h].id},
         \A v \in Workers :
           \/ job'[v].id \in {0, job[v].id}
           \/ \E h \in Hashes : job'[v].id = entries[h].id,
         \A v \in Workers : pc'[v] = "entry" => pc[v] = "entry" /\ job'[v] = job[v]
  PROVE  Unique'
<1>1. made \in Nat
  BY NumberTypes
<1>2. \A h \in Hashes : entries[h].id \in Nat
  BY NumberTypes
<1>3. \A v \in Workers : job[v].id \in Nat
  BY NumberTypes
<1>4. \A h \in Hashes : entries'[h].id <= made
  BY <1>1, <1>2 DEF Unique
<1>5. \A v \in Workers : job'[v].id <= made
  BY <1>1, <1>2, <1>3 DEF Unique
<1>6. ASSUME NEW w \in Workers, pc'[w] = "entry"
      PROVE  /\ job'[w].id = made
             /\ \A h \in Hashes : entries'[h].id < made
             /\ \A v \in Workers \ {w} : job'[v].id < made
  <2>1. /\ job[w].id = made
        /\ \A h \in Hashes : entries[h].id < made
        /\ \A v \in Workers \ {w} : job[v].id < made
    BY <1>6 DEF Unique
  <2>2. 0 < made
    BY <1>1, <1>2, <2>1, HashesAssumption
  <2>3. \A h \in Hashes : entries'[h].id < made
    BY <2>1, <2>2
  <2>4. \A v \in Workers \ {w} : job'[v].id < made
    BY <2>1, <2>2
  <2>5. QED
    BY <1>6, <2>1, <2>3, <2>4
<1>7. QED
  BY <1>4, <1>5, <1>6 DEF Unique

LEMMA UniqueStep ==
  TypeOK /\ Locked /\ Budget /\ Unique /\ [Next]_vars => Unique'
<1> SUFFICES ASSUME TypeOK, Locked, Budget, Unique, [Next]_vars PROVE Unique'
  OBVIOUS
<1> USE NoJobFields
<1>1. CASE Restart
  <2>1. ASSUME NEW h \in Hashes PROVE entries'[h].id = 0
    <3>1. FindsNothing(h) \/ Collects(h) \/ Keeps(h)
      BY <1>1, RestartEffect
    <3>2. QED
      BY <3>1 DEF FindsNothing, Collects, Keeps, NoEntry
  <2>2. UNCHANGED <<pc, job, made>>
    BY <1>1, RestartEffect
  <2>3. QED
    BY <2>1, <2>2, UniqueKept
<1>2. CASE Crash
  BY <1>2, CrashEffect, UniqueKept DEF NoIndex, NoEntry
<1>3. CASE Tick
  BY <1>3, TickEffect, UniqueKept DEF GrowsOlder
<1>4. ASSUME NEW h \in Hashes, Purge(h) PROVE Unique'
  BY <1>4, PurgeEffect, UniqueKept
<1>5. ASSUME NEW w \in Workers, NEW h \in Hashes, LoadLookup(w, h) PROVE Unique'
  BY <1>5, LookupEffect, UniqueKept DEF Bumps
<1>6. ASSUME NEW w \in Workers, NEW h \in Hashes, Downloaded(w, h) PROVE Unique'
  BY <1>6, DownloadedEffect, UniqueKept
<1>7. ASSUME NEW w \in Workers, Refresh(w) \/ NotRefreshed(w) PROVE Unique'
  BY <1>7, RefreshEffect, NotRefreshedEffect, UniqueKept DEF Bumps
<1>8. ASSUME NEW w \in Workers, FlushBegin(w) PROVE Unique'
  BY <1>8, FlushBeginEffect, UniqueKept
<1>9. ASSUME NEW w \in Workers, FlushEnd(w) PROVE Unique'
  BY <1>9, FlushEndEffect, UniqueKept
<1>10. ASSUME NEW w \in Workers, LoadOpen(w) PROVE Unique'
  BY <1>10, OpenEffect, UniqueKept
<1>11. ASSUME NEW w \in Workers, LoadDrop(w) PROVE Unique'
  BY <1>11, DropEffect, UniqueKept DEF NoEntry
<1>12. ASSUME NEW w \in Workers, SyncTemp(w) PROVE Unique'
  BY <1>12, SyncEffect, UniqueKept
<1>13. ASSUME NEW w \in Workers, PromoteFails(w) PROVE Unique'
  BY <1>13, FailsEffect, UniqueKept
<1>14. ASSUME NEW w \in Workers, PromoteUnlock(w) PROVE Unique'
  BY <1>14, UnlockEffect, UniqueKept
<1>15. ASSUME NEW w \in Workers, PromoteRename(w) PROVE Unique'
  <2>1. /\ made' = made + 1 /\ UNCHANGED entries
        /\ job'[w].id = made + 1 /\ pc[w] = "rename"
        /\ \A v \in Workers \ {w} : pc'[v] = pc[v] /\ job'[v] = job[v]
        /\ promoteMu = NoWorker
    BY <1>15, RenameEffect
  <2>2. \A v \in Workers : pc[v] # "entry"
    BY <2>1, WorkersAssumption DEF Locked, InPromote
  <2>3. \A h \in Hashes : entries'[h].id < made'
    BY <2>1, NumberTypes DEF Unique
  <2>4. \A v \in Workers \ {w} : job'[v].id < made'
    BY <2>1, NumberTypes DEF Unique
  <2>5. job'[w].id = made' /\ made' \in Nat
    BY <2>1, NumberTypes
  <2>6. \A v \in Workers : pc'[v] = "entry" => v = w
    BY <2>1, <2>2
  <2>7. \A h \in Hashes : entries'[h].id \in Nat
    BY <2>1, NumberTypes
  <2>8. \A v \in Workers \ {w} : job'[v].id \in Nat
    BY <2>1, NumberTypes
  <2>9. QED
    BY <2>3, <2>4, <2>5, <2>6, <2>7, <2>8 DEF Unique
<1>16. ASSUME NEW w \in Workers, PromoteEntry(w) PROVE Unique'
  <2> DEFINE h == job[w].hash
  <2>1. /\ pc[w] = "entry" /\ pc'[w] = "flush" /\ UNCHANGED made
        /\ entries'[h].id = job[w].id /\ job'[w].id = job[w].id
        /\ \A g \in Hashes \ {h} : entries'[g] = entries[g]
        /\ \A v \in Workers \ {w} : pc'[v] = pc[v] /\ job'[v] = job[v]
    BY <1>16, EntryEffect
  <2>2. \A v \in Workers : pc'[v] # "entry"
    BY <2>1 DEF Locked, InPromote
  <2>3. \A g \in Hashes : entries'[g].id <= made
    BY <2>1, NumberTypes DEF Unique
  <2>4. \A v \in Workers : job'[v].id <= made
    BY <2>1, NumberTypes DEF Unique
  <2>5. QED
    BY <2>1, <2>2, <2>3, <2>4 DEF Unique
<1>17. CASE UNCHANGED vars
  BY <1>17, UniqueKept DEF vars
<1>18. QED
  BY <1>1, <1>2, <1>3, <1>4, <1>5, <1>6, <1>7, <1>8, <1>9, <1>10, <1>11, <1>12,
     <1>13, <1>14, <1>15, <1>16, <1>17 DEF Next, Work
-----------------------------------------------------------------------------
(* Bytes and metadata. *)

\* The steps that neither rename, nor promote or forget an entry.
LEMMA PairingKept ==
  ASSUME TypeOK, Pairing, UNCHANGED up, overtaken \subseteq overtaken',
         \A h \in Hashes : /\ file'[h].gen = file[h].gen
                           /\ entries'[h].live = entries[h].live
                           /\ entries'[h].id = entries[h].id
                           /\ \/ entries'[h].tag = entries[h].tag
                              \/ entries[h].id = 0 \/ h \in overtaken',
         \A v \in Workers : Loading(v)' /\ job'[v].tag # 0 =>
           \/ Loading(v) /\ job'[v] = job[v]
           \/ job'[v].hash \in Hashes /\ entries'[job'[v].hash].tag = job'[v].tag,
         \A v \in Workers : pc'[v] = "asking" => job'[v].tag # 0,
         \A v \in Workers : pc[v] = "entry" <=> pc'[v] = "entry",
         \A v \in Workers : pc[v] = "entry" =>
           job'[v].hash = job[v].hash /\ job'[v].id = job[v].id,
         \A v \in Workers : pc'[v] = "drop" => pc[v] = "drop" /\ job'[v] = job[v]
  PROVE  Pairing'
<1>1. \A w \in Workers : job[w].hash \in Hashes
  BY NumberTypes
<1>2. \A h \in Hashes : Promoting(h) <=> Promoting(h)'
  BY DEF Promoting
<1>3. Renamed'
  BY <1>1 DEF Pairing, Renamed
<1>4. DropJustified'
  BY <1>1, <1>2 DEF Pairing, DropJustified
<1>5. MetadataMatchesContent'
  BY <1>2 DEF Pairing, MetadataMatchesContent
<1>6. ContentReachable'
  BY <1>2 DEF Pairing, ContentReachable
<1>7. Asked'
  <2> SUFFICES ASSUME NEW v \in Workers, Loading(v)', job'[v].id # 0,
                      job'[v].tag # 0, job'[v].hash \notin overtaken',
                      entries'[job'[v].hash].live,
                      entries'[job'[v].hash].id = job'[v].id
               PROVE  entries'[job'[v].hash].tag = job'[v].tag
    BY DEF Asked
  <2>1. CASE Loading(v) /\ job'[v] = job[v]
    BY <1>1, <2>1 DEF Pairing, Asked
  <2>2. QED
    BY <2>1
<1>8. QED
  BY <1>3, <1>4, <1>5, <1>6, <1>7 DEF Pairing

\* Without workers there is nothing between a rename and an entry.
LEMMA PairingIdle ==
  ASSUME \A w \in Workers : pc[w] = "idle",
         MetadataMatchesContent, ContentReachable
  PROVE  Pairing
BY DEF Pairing, Renamed, DropJustified, Asked, Loading

LEMMA PairingRestart ==
  ASSUME TypeOK, Locked, Restart
  PROVE  Pairing'
<1>1. \A w \in Workers : pc'[w] = "idle"
  BY RestartEffect DEF Locked
<1>2. \A h \in Hashes : /\ entries'[h].id = 0
                        /\ file'[h].gen # 0 => entries'[h].live
  <2> SUFFICES ASSUME NEW h \in Hashes
               PROVE  /\ entries'[h].id = 0
                      /\ file'[h].gen # 0 => entries'[h].live
    OBVIOUS
  <2>1. FindsNothing(h) \/ Collects(h) \/ Keeps(h)
    BY RestartEffect
  <2>2. QED
    BY <2>1 DEF FindsNothing, Collects, Keeps, NoEntry, NoFile
<1>3. MetadataMatchesContent' /\ ContentReachable'
  BY <1>2 DEF MetadataMatchesContent, ContentReachable
<1>4. QED
  BY <1>1, <1>3 DEF Pairing, Renamed, DropJustified, Asked, Loading

LEMMA PairingCrash ==
  ASSUME TypeOK, Crash
  PROVE  Pairing'
<1>1. /\ \A w \in Workers : pc'[w] = "idle"
      /\ \A h \in Hashes : entries'[h].live = FALSE
      /\ up' = FALSE
  BY CrashEffect DEF NoIndex, NoEntry
<1>2. MetadataMatchesContent' /\ ContentReachable'
  BY <1>1 DEF MetadataMatchesContent, ContentReachable
<1>3. QED
  BY <1>1, <1>2 DEF Pairing, Renamed, DropJustified, Asked, Loading

LEMMA PairingPurge ==
  ASSUME TypeOK, Pairing, NEW h \in Hashes, Purge(h)
  PROVE  Pairing'
<1>1. /\ file'[h].gen = 0 /\ \A g \in Hashes \ {h} : file'[g] = file[g]
      /\ UNCHANGED <<up, entries, pc, job, overtaken>>
  BY PurgeEffect DEF NoFile
<1>2. \A w \in Workers : job[w].hash \in Hashes
  BY NumberTypes
<1>3. \A g \in Hashes : Promoting(g)' <=> Promoting(g)
  BY <1>1 DEF Promoting
<1>4. Renamed'
  BY <1>1, <1>2 DEF Pairing, Renamed
<1>5. DropJustified'
  BY <1>1, <1>2, <1>3 DEF Pairing, DropJustified
<1>6. MetadataMatchesContent' /\ ContentReachable'
  BY <1>1, <1>3 DEF Pairing, MetadataMatchesContent, ContentReachable
<1>7. Asked'
  BY <1>1 DEF Pairing, Asked, Loading
<1>8. QED
  BY <1>4, <1>5, <1>6, <1>7 DEF Pairing

\* A Load that found no content will forget the entry it looked up.
LEMMA PairingOpen ==
  ASSUME TypeOK, Pairing, NEW w \in Workers, LoadOpen(w)
  PROVE  Pairing'
<1>1. CASE pc'[w] \in {"idle", "asking"}
  <2>1. /\ pc[w] = "open" /\ Loading(w)
        /\ \/ pc'[w] = "idle"
           \/ pc'[w] = "asking" /\ job'[w] = job[w] /\ job[w].tag # 0
        /\ \A v \in Workers \ {w} : pc'[v] = pc[v] /\ job'[v] = job[v]
        /\ UNCHANGED <<file, up, entries, overtaken>>
    BY <1>1, OpenEffect DEF Loading
  <2>2. \A v \in Workers : Loading(v)' => Loading(v) /\ job'[v] = job[v]
    BY <2>1 DEF Loading
  <2>3. \A v \in Workers : pc'[v] = "asking" => job'[v].tag # 0
    BY <2>1 DEF Pairing, Asked
  <2>4. QED
    BY <2>1, <2>2, <2>3, PairingKept
<1>2. CASE pc'[w] = "drop"
  <2>1. /\ pc[w] = "open" /\ file[job[w].hash].gen = 0 /\ job'[w] = job[w]
        /\ \A v \in Workers \ {w} : pc'[v] = pc[v] /\ job'[v] = job[v]
        /\ UNCHANGED <<file, up, entries, overtaken>>
    BY <1>2, OpenEffect
  <2>2. \A v \in Workers : job'[v] = job[v]
    BY <2>1
  <2>3. \A g \in Hashes : Promoting(g)' <=> Promoting(g)
    BY <1>2, <2>1, <2>2 DEF Promoting
  <2>4. \A v \in Workers : job[v].hash \in Hashes
    BY NumberTypes
  <2>5. Renamed'
    BY <1>2, <2>1, <2>2 DEF Pairing, Renamed
  <2>6. DropJustified'
    BY <1>2, <2>1, <2>2, <2>3, <2>4 DEF Pairing, DropJustified
  <2>7. MetadataMatchesContent' /\ ContentReachable'
    BY <2>1, <2>3 DEF Pairing, MetadataMatchesContent, ContentReachable
  <2>8. Asked'
    BY <1>2, <2>1, <2>2 DEF Pairing, Asked, Loading
  <2>9. QED
    BY <2>5, <2>6, <2>7, <2>8 DEF Pairing
<1>3. QED
  BY <1>1, <1>2, OpenEffect

\* It forgets that one only: an entry made since has another identity.
LEMMA PairingDrop ==
  ASSUME TypeOK, Pairing, NEW w \in Workers, LoadDrop(w)
  PROVE  Pairing'
<1>1. /\ pc[w] = "drop" /\ pc'[w] = "idle"
      /\ \A v \in Workers \ {w} : pc'[v] = pc[v] /\ job'[v] = job[v]
      /\ \A g \in Hashes :
           \/ entries'[g] = entries[g]
           \/ /\ g = job[w].hash /\ entries[g].id = job[w].id
              /\ entries'[g] = NoEntry
      /\ UNCHANGED <<file, up, overtaken>>
  BY DropEffect
<1>2. \A g \in Hashes : Promoting(g)' <=> Promoting(g)
  BY <1>1 DEF Promoting
<1>3. \A v \in Workers : job[v].hash \in Hashes
  BY NumberTypes
<1>4. NoEntry.live = FALSE
  BY DEF NoEntry
<1>5. Renamed'
  BY <1>1 DEF Pairing, Renamed
<1>6. DropJustified'
  BY <1>1, <1>2, <1>3, <1>4 DEF Pairing, DropJustified
<1>7. MetadataMatchesContent'
  BY <1>1, <1>2, <1>4 DEF Pairing, MetadataMatchesContent
<1>8. ContentReachable'
  <2> SUFFICES ASSUME NEW g \in Hashes, up', file'[g].gen # 0, ~Promoting(g)'
               PROVE  entries'[g].live
    BY DEF ContentReachable
  <2>1. entries[g].live
    BY <1>1, <1>2 DEF Pairing, ContentReachable
  <2>2. CASE entries'[g] = entries[g]
    BY <2>1, <2>2
  <2>3. CASE g = job[w].hash /\ entries[g].id = job[w].id
    BY <1>1, <1>2, <2>1, <2>3 DEF Pairing, DropJustified
  <2>4. QED
    BY <1>1, <2>2, <2>3
<1>9. Asked'
  BY <1>1, <1>3, <1>4 DEF Pairing, Asked, Loading
<1>10. QED
  BY <1>5, <1>6, <1>7, <1>8, <1>9 DEF Pairing

\* A rename only happens when no other promotion is under way.
LEMMA PairingRename ==
  ASSUME TypeOK, Locked, Budget, Pairing, NEW w \in Workers, PromoteRename(w)
  PROVE  Pairing'
<1> DEFINE h == job[w].hash
<1>1. /\ pc[w] = "rename" /\ promoteMu = NoWorker /\ pc'[w] = "entry"
      /\ job'[w].hash = h /\ job'[w].id = made + 1
      /\ file'[h].gen = made + 1
      /\ \A g \in Hashes \ {h} : file'[g] = file[g]
      /\ \A v \in Workers \ {w} : pc'[v] = pc[v] /\ job'[v] = job[v]
      /\ UNCHANGED <<up, entries, overtaken>>
  BY RenameEffect
<1>2. \A v \in Workers : pc[v] # "entry"
  BY <1>1, WorkersAssumption DEF Locked, InPromote
<1>3. \A v \in Workers : job[v].hash \in Hashes
  BY NumberTypes
<1>4. Promoting(h)' /\ \A g \in Hashes : ~Promoting(g)
  BY <1>1, <1>2 DEF Promoting
<1>5. Renamed'
  BY <1>1, <1>2 DEF Renamed
<1>6. DropJustified'
  <2> SUFFICES ASSUME NEW v \in Workers, pc'[v] = "drop",
                      entries'[job'[v].hash].live,
                      entries'[job'[v].hash].id = job'[v].id
               PROVE  \/ file'[job'[v].hash].gen = 0
                      \/ Promoting(job[v].hash)'
    BY DEF DropJustified
  <2>1. v # w /\ pc[v] = "drop" /\ job'[v] = job[v]
    BY <1>1
  <2>2. CASE job[v].hash = h
    <3>1. job'[w].hash = job'[v].hash
      BY <1>1, <2>1, <2>2
    <3>2. \E u \in Workers : pc'[u] = "entry" /\ job'[u].hash = job'[v].hash
      BY <1>1, <3>1
    <3>3. QED
      BY <3>2, Zenon DEF Promoting
  <2>3. CASE job[v].hash # h
    <3>1. file[job[v].hash].gen = 0
      BY <1>1, <1>3, <1>4, <2>1 DEF Pairing, DropJustified
    <3>2. QED
      BY <1>1, <1>3, <2>1, <2>3, <3>1
  <2>4. QED
    BY <2>2, <2>3
<1>7. MetadataMatchesContent'
  BY <1>1, <1>4 DEF Pairing, MetadataMatchesContent
<1>8. ContentReachable'
  BY <1>1, <1>4 DEF Pairing, ContentReachable
<1>9. Asked'
  BY <1>1 DEF Pairing, Asked, Loading
<1>10. QED
  BY <1>5, <1>6, <1>7, <1>8, <1>9 DEF Pairing

\* The index update ends the promotion with the metadata of these bytes.
LEMMA PairingEntry ==
  ASSUME TypeOK, Locked, Unique, Pairing, NEW w \in Workers, PromoteEntry(w)
  PROVE  Pairing'
<1> DEFINE h == job[w].hash
<1>1. /\ pc[w] = "entry" /\ pc'[w] = "flush"
      /\ entries'[h].live = TRUE /\ entries'[h].id = job[w].id
      /\ entries'[h].tag = job[w].id
      /\ \A g \in Hashes \ {h} : entries'[g] = entries[g]
      /\ job'[w].after = "unlock" /\ overtaken' = overtaken \ {h}
      /\ \A v \in Workers \ {w} : pc'[v] = pc[v] /\ job'[v] = job[v]
      /\ UNCHANGED <<up, file>>
  BY EntryEffect
<1>2. \A v \in Workers : pc'[v] # "entry"
  BY <1>1 DEF Locked, InPromote
<1>3. \A v \in Workers : job[v].hash \in Hashes
  BY NumberTypes
<1>4. \A g \in Hashes : Promoting(g) => g = h
  BY <1>1, <1>2 DEF Promoting
<1>5. file[h].gen \in {0, job[w].id}
  BY <1>1 DEF Pairing, Renamed
<1>6. Renamed'
  BY <1>2 DEF Renamed
<1>7. DropJustified'
  <2> SUFFICES ASSUME NEW v \in Workers, pc'[v] = "drop",
                      entries'[job'[v].hash].live,
                      entries'[job'[v].hash].id = job'[v].id
               PROVE  file'[job'[v].hash].gen = 0
    BY DEF DropJustified
  <2>1. v # w /\ pc[v] = "drop" /\ job'[v] = job[v]
    BY <1>1
  <2>2. CASE job[v].hash = h
    <3>1. job[v].id = job[w].id
      BY <1>1, <2>1, <2>2
    <3>2. job[w].id = made /\ job[v].id < made /\ made \in Nat
      BY <1>1, <2>1, NumberTypes DEF Unique
    <3>3. QED
      BY <3>1, <3>2
  <2>3. CASE job[v].hash # h
    BY <1>1, <1>3, <1>4, <2>1, <2>3 DEF Pairing, DropJustified
  <2>4. QED
    BY <2>2, <2>3
<1>8. MetadataMatchesContent'
  BY <1>1, <1>4, <1>5 DEF Pairing, MetadataMatchesContent
<1>9. ContentReachable'
  BY <1>1, <1>4 DEF Pairing, ContentReachable
<1>10. Asked'
  <2> SUFFICES ASSUME NEW v \in Workers
               PROVE  /\ pc'[v] = "asking" => job'[v].tag # 0
                      /\ /\ Loading(v)' /\ job'[v].id # 0 /\ job'[v].tag # 0
                         /\ job'[v].hash \notin overtaken'
                         /\ entries'[job'[v].hash].live
                         /\ entries'[job'[v].hash].id = job'[v].id
                         => entries'[job'[v].hash].tag = job'[v].tag
    BY DEF Asked
  <2>1. CASE v = w
    BY <1>1, <2>1 DEF Loading
  <2>2. CASE v # w /\ job[v].hash = h
    <3>1. job'[v] = job[v] /\ job[w].id = made /\ job[v].id < made /\ made \in Nat
      BY <1>1, <2>2, NumberTypes DEF Unique
    <3>2. entries'[job'[v].hash].id # job'[v].id
      BY <1>1, <2>2, <3>1
    <3>3. QED
      BY <1>1, <2>2, <3>1, <3>2 DEF Pairing, Asked
  <2>3. CASE v # w /\ job[v].hash # h
    BY <1>1, <1>3, <2>3 DEF Pairing, Asked, Loading
  <2>4. QED
    BY <2>1, <2>2, <2>3
<1>11. QED
  BY <1>6, <1>7, <1>8, <1>9, <1>10 DEF Pairing

\* A revalidation changes the validators of an entry that was promoted since
\* its Load, and that is recorded, or it writes what the entry has.
LEMMA PairingRefresh ==
  ASSUME TypeOK, Pairing, NEW w \in Workers, Refresh(w)
  PROVE  Pairing'
<1> DEFINE h == job[w].hash
<1>1. /\ pc[w] = "asking" /\ h \in Hashes /\ pc'[w] \in {"idle", "flush"}
      /\ job'[w].after = "idle"
      /\ \A v \in Workers \ {w} : pc'[v] = pc[v] /\ job'[v] = job[v]
      /\ UNCHANGED <<file, up>>
  BY RefreshEffect
<1>2. /\ overtaken \subseteq overtaken'
      /\ \A g \in Hashes : /\ entries'[g].live = entries[g].live
                            /\ entries'[g].id = entries[g].id
      /\ \A g \in Hashes \ {h} : entries'[g].tag = entries[g].tag
      /\ \/ entries'[h].tag = entries[h].tag
         \/ entries'[h].tag = job[w].tag /\ entries[h].id = job[w].id
         \/ h \in overtaken'
  BY RefreshEffect DEF Bumps
<1>3. ASSUME entries'[h].live
      PROVE  \/ entries'[h].tag = entries[h].tag
             \/ entries[h].id = 0 \/ h \in overtaken'
  BY <1>1, <1>2, <1>3 DEF Pairing, Asked, Loading
<1>4. \A v \in Workers : Loading(v)' => v # w
  BY <1>1 DEF Loading
<1>5. \A v \in Workers : Loading(v)' => Loading(v) /\ job'[v] = job[v]
  BY <1>1, <1>4 DEF Loading
<1>6. \A v \in Workers : pc'[v] = "asking" => job'[v].tag # 0
  BY <1>1 DEF Pairing, Asked
<1>7. CASE entries[h].live
  BY <1>1, <1>2, <1>3, <1>5, <1>6, <1>7, PairingKept
<1>8. CASE ~entries[h].live
  BY <1>1, <1>5, <1>6, <1>8, PairingKept DEF Refresh
<1>9. QED
  BY <1>7, <1>8

LEMMA PairingStep ==
  /\ TypeOK /\ Locked /\ Budget /\ Unique /\ Pairing
  /\ [Next]_vars
  => Pairing'
<1> SUFFICES ASSUME TypeOK, Locked, Budget, Unique, Pairing, [Next]_vars
             PROVE  Pairing'
  OBVIOUS
<1> USE DEF Loading
<1>0. \A w \in Workers : pc[w] = "asking" => job[w].tag # 0
  BY DEF Pairing, Asked
<1>1. CASE Tick
  BY <1>1, TickEffect, PairingKept DEF GrowsOlder
<1>2. ASSUME NEW w \in Workers, NEW h \in Hashes, LoadLookup(w, h) PROVE Pairing'
  <2>1. /\ pc'[w] \in {"flush", "open"} /\ pc[w] = "idle"
        /\ job'[w].hash = h /\ job'[w].tag \in {0, entries'[h].tag}
        /\ \A v \in Workers \ {w} : pc'[v] = pc[v] /\ job'[v] = job[v]
        /\ \A g \in Hashes : /\ entries'[g].live = entries[g].live
                              /\ entries'[g].id = entries[g].id
                              /\ entries'[g].tag = entries[g].tag
        /\ UNCHANGED <<up, file, overtaken>>
    BY <1>2, LookupEffect DEF Bumps
  <2>2. QED
    BY <1>0, <2>1, PairingKept
<1>3. ASSUME NEW w \in Workers, NEW h \in Hashes, Downloaded(w, h) PROVE Pairing'
  BY <1>0, <1>3, DownloadedEffect, PairingKept
<1>4. ASSUME NEW w \in Workers, NotRefreshed(w) PROVE Pairing'
  BY <1>0, <1>4, NotRefreshedEffect, PairingKept
<1>5. ASSUME NEW w \in Workers, FlushBegin(w) PROVE Pairing'
  BY <1>0, <1>5, FlushBeginEffect, PairingKept
<1>6. ASSUME NEW w \in Workers, FlushEnd(w) PROVE Pairing'
  BY <1>0, <1>6, FlushEndEffect, PairingKept
<1>7. ASSUME NEW w \in Workers, SyncTemp(w) PROVE Pairing'
  BY <1>0, <1>7, SyncEffect, PairingKept
<1>8. ASSUME NEW w \in Workers, PromoteFails(w) PROVE Pairing'
  BY <1>0, <1>8, FailsEffect, PairingKept
<1>9. ASSUME NEW w \in Workers, PromoteUnlock(w) PROVE Pairing'
  BY <1>0, <1>9, UnlockEffect, PairingKept
<1>10. CASE UNCHANGED vars
  BY <1>0, <1>10, PairingKept DEF vars
<1>11. QED
  BY <1>1, <1>2, <1>3, <1>4, <1>5, <1>6, <1>7, <1>8, <1>9, <1>10,
     PairingRestart, PairingCrash, PairingPurge, PairingOpen, PairingDrop,
     PairingRename, PairingEntry, PairingRefresh DEF Next, Work
-----------------------------------------------------------------------------
(* Access times. *)

LEMMA TouchedKept ==
  ASSUME TypeOK, Touched,
         \A h \in Hashes : entries'[h].age \in {0, entries[h].age},
         \A v \in Workers : pc'[v] \in Using =>
           \/ pc[v] \in Using /\ job'[v].hash = job[v].hash
           \/ entries'[job'[v].hash].age = 0,
         \A v \in Workers : pc'[v] = "write" =>
           /\ pc[v] = "write" /\ job'[v].hash = job[v].hash
           /\ snapshot'[v] = snapshot[v]
  PROVE  Touched'
<1>1. \A v \in Workers : job[v].hash \in Hashes
  BY NumberTypes
<1>2. QED
  BY <1>1 DEF Touched

LEMMA TouchedStep ==
  TypeOK /\ Locked /\ Budget /\ Touched /\ [Next]_vars => Touched'
<1> SUFFICES ASSUME TypeOK, Locked, Budget, Touched, [Next]_vars
             PROVE  Touched'
  OBVIOUS
<1> USE DEF Using
<1>1. CASE Restart
  BY <1>1, RestartEffect DEF Touched, Locked
<1>2. CASE Crash
  BY <1>2, CrashEffect DEF Touched
<1>3. CASE Tick
  BY <1>3, TickEffect DEF Touched
<1>4. ASSUME NEW h \in Hashes, Purge(h) PROVE Touched'
  BY <1>4, PurgeEffect, TouchedKept
<1>5. ASSUME NEW w \in Workers, NEW h \in Hashes,
             \/ LoadLookup(w, h)
             \/ Refresh(w) /\ pc'[w] = "flush" /\ job[w].hash = h
      PROVE  Touched'
  <2>1. /\ Bumps(entries, entries', h) /\ UNCHANGED snapshot
        /\ job'[w].hash = h /\ pc'[w] # "write"
        /\ \A v \in Workers \ {w} : pc'[v] = pc[v] /\ job'[v] = job[v]
    BY <1>5, LookupEffect, RefreshEffect
  <2>2. QED
    BY <2>1, TouchedKept DEF Bumps
<1>6. ASSUME NEW w \in Workers, NEW h \in Hashes, Downloaded(w, h) PROVE Touched'
  BY <1>6, DownloadedEffect, TouchedKept
<1>7. ASSUME NEW w \in Workers, FlushBegin(w) PROVE Touched'
  BY <1>7, FlushBeginEffect DEF Touched
<1>8. ASSUME NEW w \in Workers, FlushEnd(w) PROVE Touched'
  <2>1. /\ pc[w] = "write" /\ pc'[w] \in {"idle", "open", "unlock"}
        /\ job'[w] = job[w] \/ pc'[w] = "idle"
        /\ \A v \in Workers \ {w} : pc'[v] = pc[v] /\ job'[v] = job[v]
        /\ UNCHANGED entries
    BY <1>8, FlushEndEffect
  <2>2. \A v \in Workers \ {w} : snapshot'[v] = snapshot[v]
    BY <1>8, FlushEndEffect DEF TypeOK
  <2>3. QED
    BY <2>1, <2>2, TouchedKept
<1>9. ASSUME NEW w \in Workers, LoadOpen(w) PROVE Touched'
  BY <1>9, OpenEffect, TouchedKept
<1>10. ASSUME NEW w \in Workers, LoadDrop(w) PROVE Touched'
  BY <1>10, DropEffect, TouchedKept DEF NoEntry
<1>11. ASSUME NEW w \in Workers,
              \/ SyncTemp(w) \/ PromoteFails(w) \/ PromoteRename(w)
              \/ PromoteUnlock(w) \/ NotRefreshed(w)
              \/ Refresh(w) /\ pc'[w] # "flush"
       PROVE  Touched'
  <2>1. /\ pc'[w] \notin Using /\ UNCHANGED <<entries, snapshot>>
        /\ \A v \in Workers \ {w} : pc'[v] = pc[v] /\ job'[v] = job[v]
    BY <1>11, SyncEffect, FailsEffect, RenameEffect, UnlockEffect,
       NotRefreshedEffect, RefreshEffect
  <2>2. QED
    BY <2>1, TouchedKept
<1>12. ASSUME NEW w \in Workers, PromoteEntry(w) PROVE Touched'
  <2>1. /\ pc'[w] = "flush" /\ job'[w].hash = job[w].hash
        /\ entries'[job[w].hash].age = 0
        /\ \A g \in Hashes \ {job[w].hash} : entries'[g] = entries[g]
        /\ \A v \in Workers \ {w} : pc'[v] = pc[v] /\ job'[v] = job[v]
        /\ UNCHANGED snapshot
    BY <1>12, EntryEffect
  <2>2. \A g \in Hashes : entries'[g].age \in {0, entries[g].age}
    BY <2>1
  <2>3. QED
    BY <2>1, <2>2, TouchedKept
<1>13. CASE UNCHANGED vars
  BY <1>13, TouchedKept DEF vars
<1>14. ASSUME NEW w \in Workers, Refresh(w) PROVE Touched'
  <2>1. job[w].hash \in Hashes
    BY NumberTypes
  <2>2. QED
    BY <1>5, <1>11, <1>14, <2>1
<1>15. QED
  BY <1>1, <1>2, <1>3, <1>4, <1>5, <1>6, <1>7, <1>8, <1>9, <1>10, <1>11, <1>12,
     <1>13, <1>14 DEF Next, Work
-----------------------------------------------------------------------------
(* The index file. *)

\* Steps after which the same flushes are to come and the same one is under
\* way, and the memory says no more than before.
LEMMA SavedKept ==
  ASSUME TypeOK, Saved, UNCHANGED <<index, unwritten>>,
         \A v \in Workers : pc[v] = "flush" => pc'[v] = "flush",
         \A v \in Workers : pc[v] = "write" <=> pc'[v] = "write",
         \A v \in Workers : pc[v] = "write" => snapshot'[v] = snapshot[v],
         \A h \in Hashes : entries'[h].live =>
           /\ entries[h].live
           /\ entries'[h].tag = entries[h].tag
           /\ entries'[h].fresh = entries[h].fresh
           /\ entries'[h].age = entries[h].age,
         \A h \in Hashes : Used(h)' =>
           Used(h) \/ (entries[h].live /\ entries[h].age = 0)
  PROVE  Saved'
<1>1. CASE Pending
  BY <1>1 DEF Saved, Pending
<1>2. CASE ~Pending
  <2>1. ASSUME NEW h \in Hashes, NEW w \in Workers, pc'[w] = "write"
        PROVE  Faithful(snapshot[w], h)'
    <3>1. Faithful(snapshot[w], h) /\ snapshot'[w] = snapshot[w]
      BY <1>2, <2>1 DEF Saved
    <3>2. QED
      BY <3>1 DEF Faithful
  <2>2. ASSUME NEW h \in Hashes, ~Writing', ~unwritten'
        PROVE  Faithful(index, h)'
    <3>1. Faithful(index, h)
      BY <1>2, <2>2 DEF Saved, Writing
    <3>2. QED
      BY <3>1 DEF Faithful
  <2>3. QED
    BY <2>1, <2>2 DEF Saved
<1>3. QED
  BY <1>1, <1>2

LEMMA SavedBegin ==
  ASSUME TypeOK, Locked, Touched, NEW w \in Workers, FlushBegin(w)
  PROVE  Saved'
<1>1. /\ pc[w] = "flush" /\ flushMu = NoWorker /\ pc'[w] = "write"
      /\ \A v \in Workers \ {w} : pc'[v] = pc[v]
      /\ snapshot'[w] = entries /\ UNCHANGED <<entries, job>>
  BY FlushBeginEffect
<1>2. \A v \in Workers : pc'[v] = "write" => v = w
  BY <1>1, WorkersAssumption DEF Locked
<1>3. ASSUME NEW h \in Hashes PROVE Faithful(snapshot[w], h)'
  <2>1. Used(h)' => entries[h].age = 0
    BY <1>1 DEF Used, Using, Touched
  <2>2. entries[h].live => entries[h].live = TRUE
    BY DEF TypeOK, Entries
  <2>3. QED
    BY <1>1, <2>1, <2>2 DEF Faithful
<1>4. QED
  BY <1>1, <1>2, <1>3 DEF Saved, Writing

LEMMA SavedEnd ==
  ASSUME TypeOK, Locked, Saved, NEW w \in Workers, FlushEnd(w)
  PROVE  Saved'
<1>1. /\ pc[w] = "write" /\ pc'[w] \in {"idle", "open", "unlock"}
      /\ job'[w] = job[w] \/ pc'[w] = "idle"
      /\ \A v \in Workers \ {w} : pc'[v] = pc[v] /\ job'[v] = job[v]
      /\ \/ index' = snapshot[w] /\ unwritten' = FALSE
         \/ unwritten' = TRUE
      /\ UNCHANGED entries
  BY FlushEndEffect
<1>2. \A v \in Workers : pc'[v] # "write"
  BY <1>1 DEF Locked
<1>3. CASE Pending
  <2>1. Pending'
    BY <1>1, <1>3 DEF Pending
  <2>2. QED
    BY <2>1 DEF Saved
<1>4. CASE ~Pending
  <2>1. ASSUME NEW h \in Hashes, ~unwritten' PROVE Faithful(index, h)'
    <3>1. Faithful(snapshot[w], h) /\ index' = snapshot[w]
      BY <1>1, <1>4, <2>1 DEF Saved
    <3>2. Used(h)' => Used(h)
      BY <1>1 DEF Used, Using
    <3>3. QED
      BY <1>1, <3>1, <3>2 DEF Faithful
  <2>2. QED
    BY <1>2, <2>1 DEF Saved
<1>5. QED
  BY <1>3, <1>4

LEMMA SavedTick ==
  ASSUME TypeOK, Saved, Tick
  PROVE  Saved'
<1>1. /\ \A w \in Workers : pc[w] = "idle" /\ pc'[w] = "idle"
      /\ UNCHANGED unwritten
  BY TickEffect
<1>2. ASSUME NEW h \in Hashes, ~unwritten PROVE Faithful(index, h)'
  <2>1. Faithful(index, h)
    BY <1>1, <1>2 DEF Saved, Pending, Writing
  <2>2. /\ GrowsOlder(entries[h], entries'[h]) /\ GrowsOlder(index[h], index'[h])
        /\ entries[h].fresh = index[h].fresh => entries'[h].fresh = index'[h].fresh
    BY TickEffect
  <2>3. ~Used(h)'
    BY <1>1 DEF Used, Using
  <2>4. QED
    BY <2>1, <2>2, <2>3 DEF Faithful, GrowsOlder
<1>3. QED
  BY <1>1, <1>2 DEF Saved

LEMMA SavedStart ==
  ASSUME TypeOK, Locked, Restart \/ Crash
  PROVE  Saved'
<1>1. \A w \in Workers : pc'[w] = "idle"
  BY RestartEffect, CrashEffect DEF Locked
<1>2. ASSUME NEW h \in Hashes, ~unwritten' PROVE Faithful(index, h)'
  <2>1. ~Used(h)'
    BY <1>1 DEF Used, Using
  <2>2. entries'[h].live => index' = entries' /\ entries'[h].live = TRUE
    <3>1. CASE Crash
      BY <3>1, CrashEffect DEF NoIndex, NoEntry
    <3>2. CASE Restart
      <4>1. index' = entries' /\ entries' \in [Hashes -> Entries]
        BY <1>2, <3>2, RestartEffect
      <4>2. QED
        BY <4>1 DEF Entries
    <3>3. QED
      BY <3>1, <3>2
  <2>3. QED
    BY <2>1, <2>2 DEF Faithful
<1>3. QED
  BY <1>1, <1>2 DEF Saved

LEMMA SavedStep ==
  TypeOK /\ Locked /\ Budget /\ Touched /\ Saved /\ [Next]_vars => Saved'
<1> SUFFICES ASSUME TypeOK, Locked, Budget, Touched, Saved, [Next]_vars
             PROVE  Saved'
  OBVIOUS
<1> USE DEF Used, Using
<1>1. ASSUME NEW h \in Hashes, Purge(h) PROVE Saved'
  BY <1>1, PurgeEffect, SavedKept
<1>2. ASSUME NEW w \in Workers, NEW h \in Hashes, LoadLookup(w, h) PROVE Saved'
  <2>1. CASE pc'[w] = "flush"
    BY <2>1 DEF Saved, Pending
  <2>2. CASE pc'[w] # "flush"
    <3>1. /\ entries[h].live /\ pc[w] = "idle" /\ pc'[w] = "open"
          /\ entries[h].age = 0 /\ job'[w].hash = h
          /\ Bumps(entries, entries', h)
          /\ entries'[h].fresh = entries[h].fresh
          /\ \A g \in Hashes : entries'[g].tag = entries[g].tag
          /\ \A v \in Workers \ {w} : pc'[v] = pc[v] /\ job'[v] = job[v]
          /\ UNCHANGED <<index, unwritten, snapshot>>
      BY <1>2, <2>2, LookupEffect, NumberTypes
    <3>2. \A g \in Hashes : /\ entries'[g].live = entries[g].live
                            /\ entries'[g].tag = entries[g].tag
                            /\ entries'[g].fresh = entries[g].fresh
                            /\ entries'[g].age = entries[g].age
      BY <3>1 DEF Bumps
    <3>3. \A g \in Hashes : Used(g)' => Used(g) \/ g = h
      BY <3>1
    <3>4. \A v \in Workers : /\ pc[v] = "flush" => pc'[v] = "flush"
                             /\ pc[v] = "write" <=> pc'[v] = "write"
      BY <3>1
    <3> HIDE DEF Used, Using
    <3>5. QED
      BY <3>1, <3>2, <3>3, <3>4, SavedKept
  <2>3. QED
    BY <2>1, <2>2
<1>3. ASSUME NEW w \in Workers, Refresh(w), pc'[w] = "flush" PROVE Saved'
  BY <1>3 DEF Saved, Pending
<1>4. ASSUME NEW w \in Workers, PromoteEntry(w) PROVE Saved'
  <2>1. pc'[w] = "flush"
    BY <1>4, EntryEffect
  <2>2. QED
    BY <2>1 DEF Saved, Pending
<1>5. ASSUME NEW w \in Workers, NEW h \in Hashes, Downloaded(w, h) PROVE Saved'
  BY <1>5, DownloadedEffect, SavedKept
<1>6. ASSUME NEW w \in Workers, LoadOpen(w) PROVE Saved'
  <2>1. /\ pc[w] = "open" /\ pc'[w] \in {"drop", "idle", "asking"}
        /\ pc'[w] = "drop" => job'[w] = job[w]
        /\ \A v \in Workers \ {w} : pc'[v] = pc[v] /\ job'[v] = job[v]
        /\ UNCHANGED <<index, unwritten, snapshot, entries>>
    BY <1>6, OpenEffect
  <2>2. QED
    BY <2>1, SavedKept
<1>7. ASSUME NEW w \in Workers, LoadDrop(w) PROVE Saved'
  <2>1. /\ pc[w] = "drop" /\ pc'[w] = "idle"
        /\ \A v \in Workers \ {w} : pc'[v] = pc[v] /\ job'[v] = job[v]
        /\ \A g \in Hashes : entries'[g] = entries[g] \/ entries'[g] = NoEntry
        /\ UNCHANGED <<index, unwritten, snapshot>>
    BY <1>7, DropEffect
  <2>2. NoEntry.live = FALSE
    BY DEF NoEntry
  <2>3. QED
    BY <2>1, <2>2, SavedKept
<1>8. ASSUME NEW w \in Workers,
             \/ SyncTemp(w) \/ PromoteFails(w) \/ PromoteRename(w)
             \/ PromoteUnlock(w) \/ NotRefreshed(w)
             \/ Refresh(w) /\ pc'[w] # "flush"
      PROVE  Saved'
  <2>1. /\ pc[w] \notin Using /\ pc'[w] \notin Using
        /\ \A v \in Workers \ {w} : pc'[v] = pc[v] /\ job'[v] = job[v]
        /\ UNCHANGED <<index, unwritten, snapshot, entries>>
    BY <1>8, SyncEffect, FailsEffect, RenameEffect, UnlockEffect,
       NotRefreshedEffect, RefreshEffect
  <2>2. QED
    BY <2>1, SavedKept
<1>9. CASE UNCHANGED vars
  BY <1>9, SavedKept DEF vars
<1>10. QED
  BY <1>1, <1>2, <1>3, <1>4, <1>5, <1>6, <1>7, <1>8, <1>9, SavedBegin, SavedEnd,
     SavedTick, SavedStart DEF Next, Work
-----------------------------------------------------------------------------
(* Recorded uses. *)

LEMMA AgesKeptKept ==
  ASSUME TypeOK, AgesKept, UNCHANGED <<index, lastRead>>,
         \A h \in Hashes : entries'[h].age \in {0, entries[h].age},
         \A v \in Workers : pc'[v] = "write" =>
           pc[v] = "write" /\ snapshot'[v] = snapshot[v]
  PROVE  AgesKept'
<1>1. \A h \in Hashes : lastRead[h] \in Nat
  BY NumberTypes
<1>2. QED
  BY <1>1 DEF AgesKept

LEMMA AgesKeptStart ==
  ASSUME TypeOK, Locked, AgesKept, Restart \/ Crash
  PROVE  AgesKept'
<1>1. (\A w \in Workers : pc'[w] = "idle") /\ UNCHANGED lastRead
  BY RestartEffect, CrashEffect DEF Locked
<1>2. ASSUME NEW h \in Hashes PROVE entries'[h].age \in {0, index[h].age}
  <2>1. CASE Crash
    BY <2>1, CrashEffect DEF NoIndex, NoEntry
  <2>2. CASE Restart
    <3>1. FindsNothing(h) \/ Collects(h) \/ Keeps(h)
      BY <2>2, RestartEffect
    <3>2. QED
      BY <3>1 DEF FindsNothing, Collects, Keeps, NoEntry
  <2>3. QED
    BY <2>1, <2>2
<1>3. index' = index \/ index' = entries'
  BY RestartEffect, CrashEffect
<1>4. ASSUME NEW h \in Hashes
      PROVE  /\ entries'[h].age <= lastRead'[h] /\ index'[h].age <= lastRead'[h]
  <2>1. lastRead[h] \in Nat /\ index[h].age <= lastRead[h]
    BY NumberTypes DEF AgesKept
  <2>2. entries'[h].age <= lastRead[h]
    BY <1>2, <2>1
  <2>3. QED
    BY <1>1, <1>3, <2>1, <2>2
<1>5. QED
  BY <1>1, <1>4 DEF AgesKept

LEMMA AgesKeptTick ==
  ASSUME TypeOK, AgesKept, Tick
  PROVE  AgesKept'
<1>1. \A w \in Workers : pc'[w] = "idle"
  BY TickEffect
<1>2. ASSUME NEW h \in Hashes, NEW e \in Entries, NEW f, GrowsOlder(e, f),
             e.age <= lastRead[h]
      PROVE  f.age <= lastRead'[h]
  <2>1. lastRead'[h] = IF lastRead[h] < GcAge THEN lastRead[h] + 1 ELSE GcAge
    BY TickEffect
  <2>2. e.age \in Nat /\ f.age \in 0 .. GcAge /\ lastRead[h] \in Nat /\ GcAge \in Nat
    BY <1>2, NumberTypes, Bounds DEF GrowsOlder, Entries, Ages
  <2>3. f.age = e.age \/ f.age = e.age + 1
    BY <1>2 DEF GrowsOlder
  <2>4. QED
    BY <1>2, <2>1, <2>2, <2>3
<1>3. ASSUME NEW h \in Hashes
      PROVE  entries'[h].age <= lastRead'[h] /\ index'[h].age <= lastRead'[h]
  <2>1. GrowsOlder(entries[h], entries'[h]) /\ GrowsOlder(index[h], index'[h])
    BY TickEffect
  <2>2. entries[h] \in Entries /\ index[h] \in Entries
    BY NumberTypes
  <2>3. QED
    BY <1>2, <2>1, <2>2 DEF AgesKept
<1>4. QED
  BY <1>1, <1>3 DEF AgesKept

LEMMA AgesKeptEnd ==
  ASSUME TypeOK, Locked, Touched, AgesKept, NEW w \in Workers, FlushEnd(w)
  PROVE  AgesKept'
<1>1. /\ pc[w] = "write" /\ pc'[w] # "write"
      /\ \A v \in Workers \ {w} : pc'[v] = pc[v]
      /\ \/ index' = snapshot[w] /\ unwritten' = FALSE
         \/ index' = index /\ unwritten' = TRUE
      /\ \A g \in Hashes : lastRead'[g] = IF g = job[w].hash /\ ~unwritten'
                                          THEN 0 ELSE lastRead[g]
      /\ UNCHANGED entries
  BY FlushEndEffect
<1>2. \A v \in Workers : pc'[v] # "write"
  BY <1>1 DEF Locked
<1>3. ASSUME NEW h \in Hashes
      PROVE  entries'[h].age <= lastRead'[h] /\ index'[h].age <= lastRead'[h]
  <2>1. /\ entries[h].age <= lastRead[h] /\ index[h].age <= lastRead[h]
        /\ snapshot[w][h].age <= lastRead[h]
    BY <1>1 DEF AgesKept
  <2>2. CASE h = job[w].hash /\ ~unwritten'
    <3>1. entries[h].age = 0 /\ snapshot[w][h].age = 0
      BY <1>1, <2>2 DEF Touched, Using
    <3>2. QED
      BY <1>1, <2>2, <3>1
  <2>3. CASE ~(h = job[w].hash /\ ~unwritten')
    BY <1>1, <2>1, <2>3
  <2>4. QED
    BY <2>2, <2>3
<1>4. QED
  BY <1>2, <1>3 DEF AgesKept

\* A Load without flush has found the last use in the index file already.
LEMMA AgesKeptOpen ==
  ASSUME TypeOK, Touched, Saved, AgesKept, NEW w \in Workers, LoadOpen(w)
  PROVE  AgesKept'
<1>1. /\ pc[w] = "open" /\ pc'[w] # "write"
      /\ \A v \in Workers \ {w} : pc'[v] = pc[v]
      /\ UNCHANGED <<entries, index, snapshot>>
  BY OpenEffect
<1>2. CASE UNCHANGED lastRead
  BY <1>1, <1>2, AgesKeptKept
<1>3. CASE lastRead' # lastRead
  <2>1. /\ ~unwritten /\ \A v \in Workers : pc[v] \notin {"flush", "write"}
        /\ lastRead' = [lastRead EXCEPT ![job[w].hash] = 0]
    BY <1>3, OpenEffect
  <2>2. Faithful(index, job[w].hash) /\ job[w].hash \in Hashes
    BY <2>1, NumberTypes DEF Saved, Pending, Writing
  <2>3. index[job[w].hash].age = 0 /\ entries[job[w].hash].age = 0
    BY <1>1, <2>2 DEF Faithful, Used, Using, Touched
  <2>4. ASSUME NEW h \in Hashes
        PROVE  entries'[h].age <= lastRead'[h] /\ index'[h].age <= lastRead'[h]
    <3>1. lastRead'[h] = IF h = job[w].hash THEN 0 ELSE lastRead[h]
      BY <2>1, <2>2 DEF TypeOK
    <3>2. QED
      BY <1>1, <2>3, <3>1 DEF AgesKept
  <2>5. \A v \in Workers : pc'[v] # "write"
    BY <1>1, <2>1
  <2>6. QED
    BY <2>4, <2>5 DEF AgesKept
<1>4. QED
  BY <1>2, <1>3

LEMMA AgesKeptStep ==
  /\ TypeOK /\ Locked /\ Budget /\ Touched /\ Saved /\ AgesKept
  /\ [Next]_vars
  => AgesKept'
<1> SUFFICES ASSUME TypeOK, Locked, Budget, Touched, Saved, AgesKept, [Next]_vars
             PROVE  AgesKept'
  OBVIOUS
<1>1. ASSUME NEW h \in Hashes, Purge(h) PROVE AgesKept'
  BY <1>1, PurgeEffect, AgesKeptKept
<1>2. ASSUME NEW w \in Workers, NEW h \in Hashes,
             \/ LoadLookup(w, h)
             \/ Refresh(w) /\ pc'[w] = "flush" /\ job[w].hash = h
      PROVE  AgesKept'
  <2>1. /\ Bumps(entries, entries', h) /\ pc'[w] # "write"
        /\ \A v \in Workers \ {w} : pc'[v] = pc[v]
        /\ UNCHANGED <<index, lastRead, snapshot>>
    BY <1>2, LookupEffect, RefreshEffect
  <2>2. QED
    BY <2>1, AgesKeptKept DEF Bumps
<1>3. ASSUME NEW w \in Workers, NEW h \in Hashes, Downloaded(w, h) PROVE AgesKept'
  BY <1>3, DownloadedEffect, AgesKeptKept
<1>4. ASSUME NEW w \in Workers, FlushBegin(w) PROVE AgesKept'
  <2>1. /\ snapshot'[w] = entries
        /\ \A v \in Workers \ {w} : pc'[v] = pc[v] /\ snapshot'[v] = snapshot[v]
        /\ UNCHANGED <<entries, index, lastRead>>
    BY <1>4, FlushBeginEffect
  <2>2. QED
    BY <2>1 DEF AgesKept
<1>5. ASSUME NEW w \in Workers, LoadDrop(w) PROVE AgesKept'
  BY <1>5, DropEffect, AgesKeptKept DEF NoEntry
<1>6. ASSUME NEW w \in Workers, PromoteEntry(w) PROVE AgesKept'
  <2>0. UNCHANGED <<index, lastRead, snapshot>>
    BY <1>6 DEF PromoteEntry
  <2>1. pc'[w] = "flush" /\ entries'[job[w].hash].age = 0
    BY <1>6, EntryEffect
  <2>2. \A g \in Hashes \ {job[w].hash} : entries'[g] = entries[g]
    BY <1>6, EntryEffect
  <2>3. \A v \in Workers \ {w} : pc'[v] = pc[v]
    BY <1>6 DEF PromoteEntry, GoTo, TypeOK
  <2>4. \A g \in Hashes : entries'[g].age \in {0, entries[g].age}
    BY <2>1, <2>2
  <2>5. QED
    BY <2>0, <2>1, <2>3, <2>4, AgesKeptKept
<1>7. ASSUME NEW w \in Workers,
             \/ SyncTemp(w) \/ PromoteFails(w) \/ PromoteRename(w)
             \/ PromoteUnlock(w) \/ NotRefreshed(w)
             \/ Refresh(w) /\ pc'[w] # "flush"
      PROVE  AgesKept'
  <2>1. /\ pc'[w] # "write" /\ UNCHANGED <<entries, index, lastRead, snapshot>>
        /\ \A v \in Workers \ {w} : pc'[v] = pc[v]
    BY <1>7, SyncEffect, FailsEffect, RenameEffect, UnlockEffect,
       NotRefreshedEffect, RefreshEffect
  <2>2. QED
    BY <2>1, AgesKeptKept
<1>8. CASE UNCHANGED vars
  BY <1>8, AgesKeptKept DEF vars
<1>9. ASSUME NEW w \in Workers, Refresh(w) PROVE AgesKept'
  <2>1. job[w].hash \in Hashes
    BY NumberTypes
  <2>2. QED
    BY <1>2, <1>7, <1>9, <2>1
<1>10. QED
  BY <1>1, <1>2, <1>3, <1>4, <1>5, <1>6, <1>7, <1>8, <1>9, AgesKeptStart, AgesKeptTick,
     AgesKeptEnd, AgesKeptOpen DEF Next, Work
-----------------------------------------------------------------------------
(* The inductive invariant. *)

LEMMA IInvInit == Init => IInv
<1> SUFFICES ASSUME Init PROVE IInv
  OBVIOUS
<1> USE DEF Init
<1>1. /\ \A h \in Hashes : /\ entries[h].live = FALSE /\ entries[h].id = 0
                            /\ entries[h].age = 0 /\ index[h].age = 0
      /\ \A w \in Workers : pc[w] = "idle" /\ job[w].id = 0
  BY NoJobFields DEF NoIndex, NoEntry
<1>2. TypeOK
  <2>1. 0 \in Ages /\ LegacyMax \in Gens /\ "idle" \in PCs
        /\ 0 \in 0 .. MaxCrashes
    BY Bounds DEF Ages, Gens, PCs
  <2>2. QED
    BY <2>1, ValueTypes DEF TypeOK
<1>3. Locked
  BY <1>1 DEF Locked, InPromote
<1>4. Budget
  <2>1. Downloads = {}
    BY <1>1 DEF Downloads
  <2>2. Cardinality(Downloads) = 0
    BY <2>1, FS_EmptySet
  <2>3. QED
    BY <2>2, Bounds DEF Budget
<1>5. Unique
  BY <1>1, Bounds DEF Unique
<1>6. Synced
  BY <1>1 DEF Synced, NoFile
<1>7. Pairing
  BY <1>1, PairingIdle DEF MetadataMatchesContent, ContentReachable
<1>8. Recording
  <2>1. Touched
    BY <1>1 DEF Touched, Using
  <2>2. Saved
    BY <1>1 DEF Saved, Faithful, Used, Using
  <2>3. AgesKept
    BY <1>1 DEF AgesKept
  <2>4. QED
    BY <2>1, <2>2, <2>3 DEF Recording
<1>9. QED
  BY <1>2, <1>3, <1>4, <1>5, <1>6, <1>7, <1>8 DEF IInv

LEMMA IInvStep == IInv /\ [Next]_vars => IInv'
BY TypeStep, LockedStep, BudgetStep, UniqueStep, SyncedStep, PairingStep,
   TouchedStep, SavedStep, AgesKeptStep DEF IInv, Recording

LEMMA Invariance == Spec => []IInv
BY IInvInit, IInvStep, PTL DEF Spec

\* Every variable stays within its type, and the bounds on contents and
\* crashes are never passed.
THEOREM TypeCorrect == Spec => []TypeOK
<1>1. IInv => TypeOK
  BY DEF IInv
<1>2. QED
  BY <1>1, Invariance, PTL

\* Concurrent promotions of one URL never pair the bytes of one response with
\* the metadata of another: promoteMu spans the rename and the index update
\* (Promote).  A 304 that a Load's caller gets writes the validators it asked
\* with (Refresh), and these are the entry's, unless a promotion has replaced
\* the entry in between: such hashes are in overtaken, and excepted.
THEOREM PairsKept == Spec => []MetadataMatchesContent
<1>1. IInv => MetadataMatchesContent
  BY DEF IInv, Pairing
<1>2. QED
  BY <1>1, Invariance, PTL

\* A content file is never left without an entry: Load forgets the entry it
\* has looked up and no other, and loadFromDisk adopts what it finds.
THEOREM ContentFound == Spec => []ContentReachable
<1>1. IInv => ContentReachable
  BY DEF IInv, Pairing
<1>2. QED
  BY <1>1, Invariance, PTL

\* When nothing runs and the last write succeeded, the index file says what
\* the memory says: Flush marshals under flushMu, after the change it is
\* called for.
THEOREM IndexKeepsUp == Spec => []IndexUpToDate
<1>1. ASSUME Saved PROVE IndexUpToDate
  <2> SUFFICES ASSUME up, ~unwritten, \A w \in Workers : pc[w] = "idle",
                      NEW h \in Hashes, entries[h].live
               PROVE  /\ index[h].live
                      /\ index[h].tag = entries[h].tag
                      /\ index[h].fresh = entries[h].fresh
    BY DEF IndexUpToDate
  <2>1. Faithful(index, h)
    BY <1>1 DEF Saved, Pending, Writing
  <2>2. QED
    BY <2>1 DEF Faithful
<1>2. IInv => IndexUpToDate
  BY <1>1 DEF IInv, Recording
<1>3. QED
  BY <1>2, Invariance, PTL

LEMMA RestartKeeps ==
  ASSUME IInv, Restart, NEW h \in Hashes
  PROVE  \/ file'[h].gen = Newest(h) /\ file'[h].whole
         \/ Newest(h) \in legacy'[h]
         \/ lastRead[h] >= GcAge /\ ~index[h].fresh
<1>1. TypeOK /\ file[h].whole = TRUE /\ index[h].age <= lastRead[h]
  BY DEF IInv, Synced, Recording, AgesKept
<1>2. FindsNothing(h) \/ Collects(h) \/ Keeps(h)
  BY <1>1, RestartEffect
<1>3. CASE FindsNothing(h)
  BY <1>1, <1>3 DEF FindsNothing, Newest
<1>4. CASE Collects(h)
  <2>1. index[h].age \in Nat /\ lastRead[h] \in Nat /\ GcAge \in Nat
    BY <1>1, NumberTypes, Bounds
  <2>2. QED
    BY <1>1, <1>4, <2>1 DEF Collects
<1>5. CASE Keeps(h)
  BY <1>1, <1>5 DEF Keeps, Newest, Durable
<1>6. QED
  BY <1>2, <1>3, <1>4, <1>5

\* A start after a crash or a shutdown leaves every URL its newest content,
\* whole, except what is stale and whose last recorded use is gcMaxAge ago
\* (loadFromDisk): contents are synced before they are renamed, and every use
\* reaches the index file before it is gcMaxAge old.
THEOREM RestartsKeepContent == Spec => RestartKeepsContent
<1>1. ASSUME IInv, [Next]_vars, ~up, up' PROVE Restart
  BY <1>1, CrashEffect, TickEffect, PurgeEffect, LookupEffect, DownloadedEffect,
     RefreshEffect, NotRefreshedEffect, FlushBeginEffect, FlushEndEffect, OpenEffect, DropEffect,
     SyncEffect, FailsEffect, RenameEffect, EntryEffect, UnlockEffect
     DEF IInv, Next, Work, vars
<1>2. IInv /\ [Next]_vars =>
        [~up /\ up' =>
           \A h \in Hashes :
             \/ file'[h].gen = Newest(h) /\ file'[h].whole
             \/ Newest(h) \in legacy'[h]
             \/ lastRead[h] >= GcAge /\ ~index[h].fresh]_vars
  BY <1>1, RestartKeeps
<1>3. QED
  BY <1>2, Invariance, PTL DEF Spec, RestartKeepsContent
-----------------------------------------------------------------------------
(* The order of validators and contents. *)

\* Validators t stay behind the bytes of h when these stay, go away or are
\* replaced by newer ones.
BehindAt(t, h) == t <= made /\ (file[h].gen # 0 => t <= file[h].gen)

LEMMA BehindKept ==
  ASSUME TypeOK, NEW h \in Hashes, NEW t \in Nat, BehindAt(t, h),
         made' \in Nat, made <= made',
         file'[h].gen \in {0, file[h].gen} \/ file'[h].gen = made'
  PROVE  t <= made' /\ (file'[h].gen # 0 => t <= file'[h].gen)
<1>1. made \in Nat /\ file[h].gen \in Nat
  BY NumberTypes
<1>2. QED
  BY <1>1 DEF BehindAt

\* The steps that only spread known validators, and no number out of order.
LEMMA InOrderKept ==
  ASSUME TypeOK, InOrder, made' \in Nat, made <= made',
         \A h \in Hashes :
           \/ entries'[h].tag \in {0, entries[h].tag}
           \/ \E v \in Workers : /\ pc[v] # "idle" /\ job[v].hash = h
                                 /\ entries'[h].tag = job[v].tag,
         \A h \in Hashes : index'[h].tag = index[h].tag,
         \A h \in Hashes : file'[h].gen \in {0, file[h].gen} \/ file'[h].gen = made',
         \A v \in Workers : pc'[v] = "write" =>
           \/ pc[v] = "write" /\ snapshot'[v] = snapshot[v]
           \/ snapshot'[v] = entries,
         \A v \in Workers : pc'[v] # "idle" =>
           /\ job'[v].hash \in Hashes
           /\ \/ job'[v].tag \in {0, entries[job'[v].hash].tag}
              \/ /\ pc[v] # "idle" /\ job'[v].hash = job[v].hash
                 /\ job'[v].tag = job[v].tag,
         UNCHANGED legacy, up' => up
  PROVE  InOrder'
<1>1. /\ \A h \in Hashes : entries[h].tag \in Nat /\ index[h].tag \in Nat
      /\ \A v \in Workers : \A h \in Hashes : snapshot[v][h].tag \in Nat
      /\ \A v \in Workers : job[v].tag \in Nat
      /\ made \in Nat /\ \A h \in Hashes : file[h].gen \in Nat
  <2>1. \A v \in Workers : \A h \in Hashes : snapshot[v][h].tag \in Nat
    BY Bounds DEF TypeOK, Entries, Gens
  <2>2. QED
    BY <2>1, NumberTypes
<1>2. ASSUME NEW h \in Hashes, NEW t \in Nat, BehindAt(t, h)
      PROVE  t <= made' /\ (file'[h].gen # 0 => t <= file'[h].gen)
  BY <1>2, BehindKept
<1>3. \A h \in Hashes : /\ BehindAt(0, h) /\ BehindAt(entries[h].tag, h)
                        /\ BehindAt(index[h].tag, h)
  BY <1>1 DEF InOrder, Behind, BehindAt
<1>4. \A v \in Workers : pc[v] # "idle" => BehindAt(job[v].tag, job[v].hash)
  BY DEF InOrder, BehindAsked, BehindAt
<1>5. Behind(entries)'
  <2>1. ASSUME NEW h \in Hashes
        PROVE  entries'[h].tag \in Nat /\ BehindAt(entries'[h].tag, h)
    BY <1>1, <1>3, <1>4
  <2>2. QED
    BY <1>2, <2>1 DEF Behind
<1>6. Behind(index)'
  BY <1>1, <1>2, <1>3 DEF Behind
<1>7. ASSUME NEW v \in Workers, pc'[v] = "write" PROVE Behind(snapshot[v])'
  <2>1. ASSUME NEW h \in Hashes
        PROVE  snapshot'[v][h].tag \in Nat /\ BehindAt(snapshot'[v][h].tag, h)
    BY <1>1, <1>3, <1>7 DEF InOrder, Behind, BehindAt
  <2>2. QED
    BY <1>2, <2>1 DEF Behind
<1>8. BehindAsked'
  <2>1. ASSUME NEW v \in Workers, pc'[v] # "idle"
        PROVE  /\ job'[v].hash \in Hashes /\ job'[v].tag \in Nat
               /\ BehindAt(job'[v].tag, job'[v].hash)
    BY <1>1, <1>3, <1>4, <2>1
  <2>2. QED
    BY <1>2, <2>1 DEF BehindAsked
<1>9. FirstStart'
  BY DEF InOrder, FirstStart
<1>10. LegacyMax <= made' /\ \A h \in Hashes : file'[h].gen <= made'
  BY <1>1, Bounds DEF InOrder
<1>11. QED
  BY <1>5, <1>6, <1>7, <1>8, <1>9, <1>10 DEF InOrder

LEMMA InOrderRestart ==
  ASSUME IInv, InOrder, Restart, "migration" \notin Faults
  PROVE  InOrder'
<1>1. TypeOK /\ Locked
  BY DEF IInv
<1>2. /\ \A w \in Workers : pc'[w] = "idle"
      /\ UNCHANGED made /\ \A h \in Hashes : legacy'[h] = {}
      /\ index' = entries' \/ index' = index
  BY <1>1, RestartEffect DEF Locked
<1>3. ASSUME NEW h \in Hashes
      PROVE  /\ entries'[h].tag \in {0, index[h].tag}
             /\ file'[h].gen <= made
             /\ file'[h].gen # 0 => index[h].tag <= file'[h].gen
  <2>1. FindsNothing(h) \/ Collects(h) \/ Keeps(h)
    BY <1>1, RestartEffect
  <2>2. /\ made \in Nat /\ LegacyMax \in Nat /\ LegacyMax <= made
        /\ file[h].gen <= made
        /\ file[h].gen # 0 => index[h].tag <= file[h].gen
    BY <1>1, NumberTypes, Bounds DEF InOrder, Behind
  <2>3. CASE FindsNothing(h)
    BY <2>2, <2>3 DEF FindsNothing, NoEntry
  <2>4. CASE Collects(h)
    BY <2>2, <2>4 DEF Collects, NoEntry, NoFile
  <2>5. CASE Keeps(h) /\ file'[h] = file[h]
    BY <2>2, <2>5 DEF Keeps
  <2>6. CASE Keeps(h) /\ file'[h] # file[h]
    <3>1. legacy[h] # {} /\ file'[h].gen = Max(legacy[h])
      BY <2>6 DEF Keeps, Durable
    <3>2. file'[h].gen \in 1 .. LegacyMax
      BY <1>1, <3>1, LegacyGen
    <3>3. index[h].tag = 0
      BY <3>1 DEF InOrder, FirstStart
    <3>4. entries'[h].tag \in {0, index[h].tag}
      BY <2>6 DEF Keeps
    <3>5. QED
      BY <2>2, <3>2, <3>3, <3>4
  <2>7. QED
    BY <2>1, <2>3, <2>4, <2>5, <2>6
<1>4. ASSUME NEW h \in Hashes, NEW t \in {0, index[h].tag}
      PROVE  t <= made /\ (file'[h].gen # 0 => t <= file'[h].gen)
  <2>1. index[h].tag <= made /\ made \in Nat
    BY <1>1, NumberTypes DEF InOrder, Behind
  <2>2. file'[h].gen \in Nat
    BY <1>1, RestartEffect DEF Files, Gens
  <2>3. QED
    BY <1>3, <2>1, <2>2
<1>5. Behind(entries)'
  BY <1>2, <1>3, <1>4 DEF Behind
<1>6. Behind(index)'
  BY <1>2, <1>4, <1>5 DEF Behind
<1>7. BehindAsked'
  BY <1>2 DEF BehindAsked
<1>8. QED
  BY <1>2, <1>3, <1>5, <1>6, <1>7 DEF InOrder, FirstStart

LEMMA InOrderEnd ==
  ASSUME IInv, InOrder, NEW w \in Workers, FlushEnd(w)
  PROVE  InOrder'
<1>1. TypeOK /\ Locked
  BY DEF IInv
<1>2. /\ pc[w] = "write" /\ pc'[w] # "write"
      /\ \A v \in Workers \ {w} : pc'[v] = pc[v] /\ job'[v] = job[v]
      /\ job'[w] = job[w] \/ pc'[w] = "idle"
      /\ index' = snapshot[w] \/ index' = index
      /\ UNCHANGED <<file, legacy, up, entries, made>>
  BY <1>1, FlushEndEffect
<1>3. up /\ \A v \in Workers : pc'[v] # "write"
  BY <1>1, <1>2 DEF Locked
<1>4. Behind(snapshot[w]) /\ Behind(index) /\ Behind(entries)
  BY <1>2 DEF InOrder
<1>5. Behind(index)' /\ Behind(entries)'
  BY <1>2, <1>4 DEF Behind
<1>6. FirstStart'
  BY <1>2, <1>3 DEF InOrder, FirstStart
<1>7. BehindAsked'
  BY <1>2 DEF InOrder, BehindAsked
<1>8. QED
  BY <1>2, <1>3, <1>5, <1>6, <1>7 DEF InOrder

\* The index update brings the newest validators, for the newest content.
LEMMA InOrderEntry ==
  ASSUME IInv, InOrder, NEW w \in Workers, PromoteEntry(w)
  PROVE  InOrder'
<1> DEFINE h == job[w].hash
<1>1. TypeOK /\ Unique /\ Renamed
  BY DEF IInv, Pairing
<1>2. /\ pc[w] = "entry" /\ entries'[h].tag = job[w].id
      /\ \A g \in Hashes \ {h} : entries'[g] = entries[g]
      /\ pc'[w] = "flush"
      /\ job'[w].hash = job[w].hash /\ job'[w].tag = job[w].tag
      /\ \A v \in Workers \ {w} : pc'[v] = pc[v] /\ job'[v] = job[v]
      /\ UNCHANGED <<file, legacy, index, up, made, snapshot>>
  BY <1>1, EntryEffect
<1>3. job[w].id = made /\ made \in Nat /\ file[h].gen \in {0, job[w].id}
  BY <1>1, <1>2, NumberTypes DEF Unique, Renamed
<1>4. Behind(entries)'
  BY <1>2, <1>3 DEF InOrder, Behind
<1>5. Behind(index)'
  BY <1>2 DEF InOrder, Behind
<1>6. ASSUME NEW v \in Workers, pc'[v] = "write" PROVE Behind(snapshot[v])'
  <2>1. Behind(snapshot[v])
    BY <1>2, <1>6 DEF InOrder
  <2>2. QED
    BY <1>2, <2>1 DEF Behind
<1>7. FirstStart'
  BY <1>2 DEF InOrder, FirstStart
<1>8. BehindAsked'
  BY <1>2 DEF InOrder, BehindAsked
<1>9. QED
  BY <1>2, <1>4, <1>5, <1>6, <1>7, <1>8 DEF InOrder

LEMMA InOrderStep ==
  ASSUME IInv, InOrder, [Next]_vars, "migration" \notin Faults
  PROVE  InOrder'
<1>1. TypeOK /\ Locked /\ Budget /\ made \in Nat
  BY NumberTypes DEF IInv
<1>1a. \A w \in Workers : job[w].hash \in Hashes
  BY <1>1, NumberTypes
<1>2. CASE Crash
  <2>1. /\ \A h \in Hashes : file'[h].gen = file[h].gen
        /\ \A w \in Workers : pc'[w] = "idle"
        /\ entries' = NoIndex
        /\ up' = FALSE /\ UNCHANGED <<legacy, index, made>>
    BY <1>1, <1>2, CrashEffect
  <2>2. \A h \in Hashes : entries'[h].tag = 0
    BY <2>1 DEF NoIndex, NoEntry
  <2>3. QED
    BY <1>1, <2>1, <2>2, InOrderKept
<1>3. CASE Tick
  BY <1>1, <1>1a, <1>3, TickEffect, InOrderKept DEF GrowsOlder
<1>4. ASSUME NEW h \in Hashes, Purge(h) PROVE InOrder'
  BY <1>1, <1>1a, <1>4, PurgeEffect, InOrderKept DEF NoFile
<1>5. ASSUME NEW w \in Workers, NEW h \in Hashes, LoadLookup(w, h) PROVE InOrder'
  <2>1. /\ pc[w] = "idle" /\ pc'[w] # "write"
        /\ job'[w].hash = h /\ job'[w].tag \in {0, entries[h].tag}
        /\ \A g \in Hashes : entries'[g].tag = entries[g].tag
        /\ \A v \in Workers \ {w} : pc'[v] = pc[v] /\ job'[v] = job[v]
        /\ UNCHANGED <<file, legacy, index, up, made, snapshot>>
    BY <1>1, <1>5, LookupEffect
  <2>2. QED
    BY <1>1, <1>1a, <2>1, InOrderKept
<1>6. ASSUME NEW w \in Workers, NEW h \in Hashes, Downloaded(w, h) PROVE InOrder'
  BY <1>1, <1>1a, <1>6, DownloadedEffect, InOrderKept
<1>7. ASSUME NEW w \in Workers, Refresh(w) PROVE InOrder'
  <2>1. /\ pc[w] # "idle" /\ pc'[w] # "write" /\ job'[w].tag = 0
        /\ pc'[w] # "idle" => job'[w].hash = job[w].hash
        /\ \A g \in Hashes : \/ entries'[g].tag = entries[g].tag
                             \/ g = job[w].hash /\ entries'[g].tag = job[w].tag
        /\ \A v \in Workers \ {w} : pc'[v] = pc[v] /\ job'[v] = job[v]
        /\ UNCHANGED <<file, legacy, index, up, made, snapshot>>
    BY <1>1, <1>7, RefreshEffect DEF Bumps
  <2>2. QED
    BY <1>1, <1>1a, <2>1, InOrderKept
<1>8. ASSUME NEW w \in Workers, FlushBegin(w) PROVE InOrder'
  BY <1>1, <1>1a, <1>8, FlushBeginEffect, InOrderKept
<1>9. ASSUME NEW w \in Workers, LoadOpen(w) PROVE InOrder'
  <2>1. /\ pc[w] = "open" /\ pc'[w] # "write"
        /\ pc'[w] # "idle" => job'[w] = job[w]
        /\ \A v \in Workers \ {w} : pc'[v] = pc[v] /\ job'[v] = job[v]
        /\ UNCHANGED <<file, legacy, index, up, entries, made, snapshot>>
    BY <1>1, <1>9, OpenEffect
  <2>2. QED
    BY <1>1, <1>1a, <2>1, InOrderKept
<1>10. ASSUME NEW w \in Workers, LoadDrop(w) PROVE InOrder'
  BY <1>1, <1>1a, <1>10, DropEffect, InOrderKept DEF NoEntry
<1>11. ASSUME NEW w \in Workers,
              \/ SyncTemp(w) \/ PromoteFails(w) \/ PromoteUnlock(w)
              \/ NotRefreshed(w)
       PROVE  InOrder'
  <2>1. /\ pc'[w] # "write" /\ pc[w] # "idle"
        /\ pc'[w] # "idle" => /\ job'[w].hash = job[w].hash
                              /\ job'[w].tag = job[w].tag
        /\ \A v \in Workers \ {w} : pc'[v] = pc[v] /\ job'[v] = job[v]
        /\ UNCHANGED <<file, legacy, index, up, entries, made, snapshot>>
    BY <1>1, <1>11, SyncEffect, FailsEffect, UnlockEffect, NotRefreshedEffect
  <2>2. QED
    BY <1>1, <1>1a, <2>1, InOrderKept
<1>12. ASSUME NEW w \in Workers, PromoteRename(w) PROVE InOrder'
  <2>1. /\ made' = made + 1 /\ pc'[w] = "entry" /\ pc[w] # "idle"
        /\ job'[w].hash = job[w].hash /\ job'[w].tag = job[w].tag
        /\ file'[job[w].hash].gen = made + 1
        /\ \A g \in Hashes \ {job[w].hash} : file'[g] = file[g]
        /\ \A v \in Workers \ {w} : pc'[v] = pc[v] /\ job'[v] = job[v]
        /\ UNCHANGED <<legacy, index, up, entries, snapshot>>
    BY <1>1, <1>12, RenameEffect
  <2>2. \A h \in Hashes : file'[h].gen \in {0, file[h].gen} \/ file'[h].gen = made'
    BY <2>1
  <2>3. made' \in Nat /\ made <= made'
    BY <1>1, <2>1
  <2>4. QED
    BY <1>1, <1>1a, <2>1, <2>2, <2>3, InOrderKept
<1>13. CASE UNCHANGED vars
  BY <1>1, <1>1a, <1>13, InOrderKept DEF vars
<1>14. QED
  BY <1>2, <1>3, <1>4, <1>5, <1>6, <1>7, <1>8, <1>9, <1>10, <1>11, <1>12, <1>13,
     InOrderRestart, InOrderEnd, InOrderEntry DEF Next, Work

\* As long as no legacy file is left behind by a failed migration, the index
\* never holds validators newer than the content they stand for: the rename
\* comes before the index update, and is synced before it (Promote).
THEOREM TagsNeverAhead ==
  ASSUME "migration" \notin Faults
  PROVE  Spec => []TagNeverAhead
<1>1. Init => InOrder
  <2> SUFFICES ASSUME Init PROVE InOrder
    OBVIOUS
  <2>1. \A h \in Hashes : entries[h].tag = 0 /\ index[h].tag = 0 /\ file[h].gen = 0
    BY DEF Init, NoIndex, NoEntry, NoFile
  <2>2. \A w \in Workers : pc[w] = "idle"
    BY DEF Init
  <2>3. up = FALSE /\ made = LegacyMax
    BY DEF Init
  <2>4. QED
    BY <2>1, <2>2, <2>3, Bounds DEF InOrder, Behind, BehindAsked, FirstStart
<1>2. IInv /\ InOrder /\ [Next]_vars => InOrder'
  BY InOrderStep
<1>3. InOrder => TagNeverAhead
  BY DEF InOrder, Behind, TagNeverAhead
<1>4. QED
  BY <1>1, <1>2, <1>3, Invariance, PTL DEF Spec
=============================================================================
