--------------------------- MODULE Upgrade_proofs ---------------------------
(***************************************************************************)
(* Proofs about Upgrade: the executable survives every update, and an      *)
(* upgrade that is interrupted converges, for any versions, any failures   *)
(* and any number of ends of the process.                                  *)
(***************************************************************************)
EXTENDS Upgrade, FiniteSetTheorems, SequenceTheorems, WellFoundedInduction, TLAPS

\* The versions are versions, and the updater runs in a running process only.
Updating ==
  /\ program \in Nat
  /\ exec \in Nat \union {NoVersion}
  /\ process # "running" => phase = "off"
  /\ phase \notin {"off", "waiting"} => Release > program

\* Where the whole executable is while it is being replaced.
Moving == phase \in {"moved", "failed"} => program \in backups
Installed ==
  phase \in {"installed", "hiding"} =>
    IF stranded THEN Release \in backups ELSE exec = Release

\* What the updater is about to announce, or has announced.
Announcing ==
  (phase = "leaving" /\ replaced) \/ phase = "done" =>
    IF stranded THEN Release \in backups ELSE exec = Release

IInv == Updating /\ ExecutableRecoverable /\ Moving /\ Installed /\ Announcing

USE DEF IInv, Updating, ExecutableRecoverable, Moving, Installed, Announcing

LEMMA InitIInv == UpgradeInit => IInv
  BY VersionAssumption, ReleaseAssumption DEF UpgradeInit, Init, InitUpdate

-----------------------------------------------------------------------------
\* A launch takes its version from the executable, while no updater runs.
LEMMA LaunchKeeps == IInv /\ Launch => IInv'
  BY DEF Launch, LoadConfig, CreateConfig, Installation, updateVars

\* Migrations, saves and settings neither touch the files of the program nor
\* end the process.
LEMMA StartupKeeps == IInv /\ Startup => IInv'
<1> SUFFICES ASSUME IInv, Startup PROVE IInv'
  OBVIOUS
<1> USE DEF Installation, updateVars
<1>1. CASE ConfigCreated
  BY <1>1 DEF Startup, ConfigCreated
<1>2. CASE BeginMigrations
  BY <1>2 DEF Startup, BeginMigrations, filesVars
<1>3. CASE MigrationsUnknown
  BY <1>3 DEF Startup, MigrationsUnknown
<1>4. CASE MigrateConfig \/ MigrationRefused
  BY <1>4 DEF Startup, MigrateConfig, MigrationRefused
<1>5. CASE MigrateAutostart \/ AutostartFails
  BY <1>5 DEF Startup, MigrateAutostart, AutostartFails
<1>6. CASE BeginStamp \/ Stamp \/ StampFails
  BY <1>6 DEF Startup, BeginStamp, Stamp, StampFails
<1> QED
  BY <1>1, <1>2, <1>3, <1>4, <1>5, <1>6 DEF Startup

LEMMA SaveKeeps == IInv /\ Save => IInv'
  BY DEF Save, TruncateFile, WriteFile, SaveFails, Installation, updateVars

LEMMA UserKeeps == IInv /\ User => IInv'
<1> SUFFICES ASSUME IInv, User PROVE IInv'
  OBVIOUS
<1>1. UNCHANGED <<process, program, updateVars>>
  BY DEF User, SetUpdatePolicy, SetRules, SetLocalResourcesEnabled, Change, Installation
<1> QED
  BY <1>1 DEF updateVars

-----------------------------------------------------------------------------
\* The updater: before the renames, the renames, and what follows them.
LEMMA UpdaterKeeps == IInv /\ Updater => IInv'
<1> SUFFICES ASSUME IInv, Updater PROVE IInv'
  OBVIOUS
<1>1. process = "running" /\ UNCHANGED <<process, program>>
  BY DEF Updater, configVars, processVars
<1> USE <1>1, ReleaseAssumption
<1>2. CASE StartUpdater \/ Download(config.policy, program)
  BY <1>2 DEF StartUpdater, Download
<1>3. CASE StageArchive \/ StagingFails \/ Unarchive
  BY <1>3 DEF StageArchive, StagingFails, Unarchive
<1>4. CASE UnarchiveFails \/ BackupFails
  BY <1>4 DEF UnarchiveFails, BackupFails, Leave
<1>5. CASE MoveToBackup(program)
  BY <1>5 DEF MoveToBackup
<1>6. CASE MoveIntoPlace
  BY <1>6 DEF MoveIntoPlace
<1>7. CASE MoveFails
  BY <1>7 DEF MoveFails
<1>8. CASE Rollback(program) \/ RollbackFails
  BY <1>8 DEF Rollback, RollbackFails, Leave
<1>9. CASE DropBackup(program)
  <2>1. program # Release
    BY <1>9 DEF DropBackup
  <2> QED
    BY <1>9, <2>1 DEF DropBackup, Leave
<1>10. CASE RemoveBackupFails \/ HideFails
  BY <1>10 DEF RemoveBackupFails, HideFails, Leave
<1>11. CASE Finish
  BY <1>11 DEF Finish
<1> QED
  BY <1>2, <1>3, <1>4, <1>5, <1>6, <1>7, <1>8, <1>9, <1>10, <1>11 DEF Updater, Update

\* The end of the process ends the updater wherever it stands.
LEMMA EndKeeps == IInv /\ End => IInv'
  BY DEF End, EndProcess, EndUpdater

LEMMA Inductive == IInv /\ [Next]_vars => IInv'
<1> SUFFICES ASSUME IInv, [Next]_vars PROVE IInv'
  OBVIOUS
<1>1. CASE UNCHANGED vars
  BY <1>1 DEF vars, configVars, processVars, updateVars
<1> QED
  BY <1>1, LaunchKeeps, StartupKeeps, SaveKeeps, UserKeeps, UpdaterKeeps, EndKeeps
  DEF Next

LEMMA Invariance == Spec => []IInv
  BY InitIInv, Inductive, PTL DEF Spec

-----------------------------------------------------------------------------
\* Whichever renames of installExecutable fail and wherever the process ends, a
\* whole executable is left, at its path or as a backup.
THEOREM ExecutableSurvives == Spec => []ExecutableRecoverable
<1>1. IInv => ExecutableRecoverable
  OBVIOUS
<1> QED
  BY <1>1, Invariance, PTL

\* RunScheduledUpdateChecks tells the window of an update only when the new
\* program lies where the updater takes the running program's file to be: at the
\* path that a restart launches or, after a rollback that failed, at a backup's.
THEOREM AnnouncedIsInstalled == Spec => []AnnouncedMeansInstalled
<1>1. IInv => AnnouncedMeansInstalled
  BY DEF AnnouncedMeansInstalled
<1> QED
  BY <1>1, Invariance, PTL
HIDE DEF IInv, Updating, ExecutableRecoverable, Moving, Installed, Announcing

-----------------------------------------------------------------------------
(* Migrations: what is used of sets of numbers and of lists. *)

LEMMA LeastNumber ==
  ASSUME NEW S \in SUBSET Nat, S # {}
  PROVE  \E m \in S : \A x \in S : m <= x
<1> DEFINE R == {ss \in Nat \X Nat : ss[1] < ss[2]}
<1>1. IsWellFoundedOn(R, Nat)
  BY NatLessThanWellFounded DEF OpToRel
<1>2. PICK m \in S : \A y \in S : ~ (<<y, m>> \in R)
  <2> HIDE DEF R
  <2>1. QED
    BY <1>1, WFMin
<1>3. \A y \in S : ~ (y < m)
  BY <1>2
<1>4. QED
  BY <1>3

LEMMA MinFacts ==
  ASSUME NEW S \in SUBSET Nat, S # {}
  PROVE  Min(S) \in S /\ \A x \in S : Min(S) <= x
  BY LeastNumber, Zenon DEF Min

\* Every rank up to their number is that of one of them.
LEMMA RankExists ==
  ASSUME NEW n \in Nat, NEW K \in SUBSET (1 .. n), NEW i \in 1 .. Cardinality(K)
  PROVE  \E k \in K : Cardinality({j \in K : j <= k}) = i
<1> DEFINE Upto(k) == {j \in K : j <= k}
           Reaching == {k \in 0 .. n : Cardinality(Upto(k)) >= i}
<1>1. IsFiniteSet(K) /\ \A k : IsFiniteSet(Upto(k)) /\ Cardinality(Upto(k)) \in Nat
  <2>1. IsFiniteSet(1 .. n)
    BY FS_Interval
  <2>2. IsFiniteSet(K)
    BY <2>1, FS_Subset
  <2>3. ASSUME NEW k PROVE IsFiniteSet(Upto(k)) /\ Cardinality(Upto(k)) \in Nat
    <3>1. Upto(k) \in SUBSET K
      OBVIOUS
    <3>2. QED
      BY <2>2, <3>1, FS_Subset, FS_CardinalityType
  <2>4. QED
    BY <2>2, <2>3
<1>2. \A k : \A j : j \in Upto(k) <=> j \in K /\ j <= k
  OBVIOUS
<1>3. \A j \in K : j \in Nat /\ 1 <= j /\ j <= n
  OBVIOUS
<1> HIDE DEF Upto
<1>4. Upto(n) = K /\ Upto(0) = {}
  <2>1. \A j : j \in Upto(n) <=> j \in K
    BY <1>2, <1>3
  <2>2. ASSUME NEW j \in Upto(0) PROVE FALSE
    <3>1. j \in K /\ j <= 0
      BY <1>2
    <3>2. QED
      BY <1>3, <3>1
  <2>3. QED
    BY <2>1, <2>2
<1>5. ASSUME NEW k \in 1 .. n
      PROVE  /\ k \in K => Cardinality(Upto(k)) = Cardinality(Upto(k - 1)) + 1
             /\ k \notin K => Cardinality(Upto(k)) = Cardinality(Upto(k - 1))
  <2>1. \A j \in K : j <= k <=> j <= k - 1 \/ j = k
    BY <1>3
  <2>2. k \notin Upto(k - 1)
    BY <1>2
  <2>3. ASSUME k \in K PROVE Cardinality(Upto(k)) = Cardinality(Upto(k - 1)) + 1
    <3>1. \A j : j \in Upto(k) <=> j \in Upto(k - 1) \union {k}
      BY <1>2, <2>1, <2>3
    <3>2. Upto(k) = Upto(k - 1) \union {k}
      BY <3>1
    <3>3. QED
      BY <1>1, <2>2, <3>2, FS_AddElement
  <2>4. ASSUME k \notin K PROVE Cardinality(Upto(k)) = Cardinality(Upto(k - 1))
    <3>1. \A j : j \in Upto(k) <=> j \in Upto(k - 1)
      BY <1>2, <2>1, <2>4
    <3>2. Upto(k) = Upto(k - 1)
      BY <3>1
    <3>3. QED
      BY <3>2
  <2>5. QED
    BY <2>3, <2>4
<1>6. n \in Reaching /\ 0 \notin Reaching
  <2>1. Cardinality(Upto(n)) >= i
    BY <1>1, <1>4, FS_CardinalityType
  <2>2. Cardinality(Upto(0)) = 0
    BY <1>4, FS_EmptySet
  <2>3. QED
    BY <2>1, <2>2
<1>7. PICK k \in Reaching : \A x \in Reaching : k <= x
  <2>1. Reaching \in SUBSET Nat /\ Reaching # {}
    BY <1>6
  <2> HIDE DEF Reaching
  <2>2. QED
    BY <2>1, LeastNumber
<1>8. k \in 1 .. n /\ k - 1 \in 0 .. n
  BY <1>6, <1>7
<1>9. k - 1 \notin Reaching
  BY <1>7, <1>8
<1>10. Cardinality(Upto(k)) >= i /\ ~ (Cardinality(Upto(k - 1)) >= i)
  BY <1>7, <1>8, <1>9
<1>11. Cardinality(Upto(k)) \in Nat /\ Cardinality(Upto(k - 1)) \in Nat /\ i \in Nat
  BY <1>1, FS_CardinalityType
<1>12. k \in K /\ Cardinality(Upto(k)) = i
  BY <1>5, <1>8, <1>10, <1>11
<1>13. QED
  BY <1>12 DEF Upto

\* What is kept was there, and may be kept.
LEMMA KeptFacts ==
  ASSUME NEW T, NEW s \in Seq(T), NEW K \in SUBSET DOMAIN s
  PROVE  /\ Kept(s, K) \in Seq(T)
         /\ \A i \in DOMAIN Kept(s, K) : \E k \in K : Kept(s, K)[i] = s[k]
<1> DEFINE Rank(k) == Cardinality({j \in K : j <= k})
           At(i) == CHOOSE k \in K : Rank(k) = i
<1>1. Len(s) \in Nat /\ K \in SUBSET (1 .. Len(s)) /\ Cardinality(K) \in Nat
  <2>1. IsFiniteSet(1 .. Len(s)) /\ K \in SUBSET (1 .. Len(s))
    BY FS_Interval
  <2>2. QED
    BY <2>1, FS_Subset, FS_CardinalityType
<1>2. \A i \in 1 .. Cardinality(K) : At(i) \in K
  <2>1. \A i \in 1 .. Cardinality(K) : \E k \in K : Rank(k) = i
    BY <1>1, RankExists
  <2> HIDE DEF Rank
  <2>2. QED
    BY <2>1
<1>3. Kept(s, K) = [i \in 1 .. Cardinality(K) |-> s[At(i)]]
  BY DEF Kept
<1> HIDE DEF At
<1>4. QED
  BY <1>1, <1>2, <1>3

\* Where nothing goes, nothing changes.
LEMMA KeptAll ==
  ASSUME NEW T, NEW s \in Seq(T)
  PROVE  Kept(s, DOMAIN s) = s
<1> DEFINE n == Len(s)
<1>1. n \in Nat /\ DOMAIN s = 1 .. n /\ s = [i \in 1 .. n |-> s[i]]
  OBVIOUS
<1>2. Cardinality(1 .. n) = n
  BY <1>1, FS_Interval
<1>3. \A k \in 1 .. n : Cardinality({j \in 1 .. n : j <= k}) = k
  <2>1. ASSUME NEW k \in 1 .. n PROVE Cardinality({j \in 1 .. n : j <= k}) = k
    <3>1. {j \in 1 .. n : j <= k} = 1 .. k
      BY <1>1
    <3>2. k \in Int /\ 1 \in Int /\ k >= 1
      BY <1>1
    <3>3. Cardinality(1 .. k) = k
      BY <3>2, FS_Interval
    <3>4. QED
      BY <3>1, <3>3
  <2>2. QED
    BY <2>1
<1>4. ASSUME NEW i \in 1 .. n
      PROVE  (CHOOSE k \in 1 .. n : Cardinality({j \in 1 .. n : j <= k}) = i) = i
  BY <1>3
<1>5. QED
  BY <1>1, <1>2, <1>4 DEF Kept
-----------------------------------------------------------------------------
(* The operations of after v0.19.0 on the configuration. *)

ListTypes ==
  [name : {"ads", "adguard", "shortener", "stale", "all", "main", "shorts"},
   host : {"raw", "zen", "irbis", "source", "build"}, on : BOOLEAN]

ConfigOps == {12, 13, 14, 17, 18}

\* The operation has nothing left to do.
Settled(k, d) ==
  /\ k = 12 => \A i \in DOMAIN d.lists : d.lists[i].host # "zen"
  /\ k = 13 => \A i \in DOMAIN d.lists : d.lists[i].name # "stale"
  /\ k = 14 => d.local = "on"
  /\ k = 17 => HasKey(d)
  /\ k = 18 => Sources(d.lists) = {}

\* A repetition changes nothing, and what those before it did is left.
Repeatable(k, d, e) ==
  /\ e \in Configs /\ Settled(k, e)
  /\ d.local # "absent" => e.local # "absent"
  /\ Settled(k, d) => e = d
  /\ \A m \in ConfigOps : m < k /\ Settled(m, d) => Settled(m, e)

LEMMA OpsAre ==
  /\ Len(Ops) = 18 /\ \A j \in 1 .. 18 : Ops[j].of \in Nat /\ Ops[j].of <= 2700
  /\ \A j \in 1 .. 11 : Ops[j].of <= 1900
  /\ Ops[12].do = "rehost" /\ Ops[13].do = "dropStale" /\ Ops[14].do = "localOn"
  /\ Ops[14].of = 2600
  /\ Ops[15].do = "moveEntry" /\ Ops[16].do = "dropLegacy"
  /\ Ops[17].do = "keyStorage" /\ Ops[18].do = "adGuardBuild"
<1>1. Len(Ops) = 18
  BY DEF Ops
<1>2. \A j \in 1 .. 18 : Ops[j].of \in Nat /\ Ops[j].of <= 2700
  BY DEF Ops
<1>3. \A j \in 1 .. 11 : Ops[j].of <= 1900
  BY DEF Ops
<1>4. Ops[12].do = "rehost" /\ Ops[13].do = "dropStale" /\ Ops[14].do = "localOn" /\ Ops[14].of = 2600
  BY DEF Ops
<1>5. /\ Ops[15].do = "moveEntry" /\ Ops[16].do = "dropLegacy"
      /\ Ops[17].do = "keyStorage" /\ Ops[18].do = "adGuardBuild"
  BY DEF Ops
<1>6. QED
  BY <1>1, <1>2, <1>3, <1>4, <1>5

LEMMA ConfigFacts ==
  ASSUME NEW d \in Configs
  PROVE  /\ d.lists \in Seq(ListTypes)
         /\ \A ls \in Seq(ListTypes) : LET e == [d EXCEPT !.lists = ls] IN
              e \in Configs /\ e.lists = ls /\ e.local = d.local /\ e.key = d.key
         /\ d = [d EXCEPT !.lists = d.lists]
  BY DEF Configs, ListTypes

\* v0.21.0
LEMMA RehostRepeats ==
  ASSUME NEW d \in Configs
  PROVE  Repeatable(12, d, Rehosted(d))
<1> DEFINE Rehost(l) == IF l.host = "zen" THEN Moved(l, "irbis") ELSE l
           ls == [i \in DOMAIN d.lists |-> Rehost(d.lists[i])]
           e == [d EXCEPT !.lists = ls]
<1>1. Rehosted(d) = e
  BY DEF Rehosted
<1>2. \A l \in ListTypes : Rehost(l) \in ListTypes /\ Rehost(l).host # "zen"
  BY DEF ListTypes, Moved
<1>3. \A l \in ListTypes : l.host # "zen" => Rehost(l) = l
  OBVIOUS
<1> HIDE DEF Rehost
<1>4. d.lists \in Seq(ListTypes) /\ d = [d EXCEPT !.lists = d.lists]
  BY ConfigFacts
<1>5. /\ ls \in Seq(ListTypes) /\ DOMAIN ls = DOMAIN d.lists
      /\ \A i \in DOMAIN ls : ls[i].host # "zen"
  BY <1>2, <1>4
<1>6. (\A i \in DOMAIN d.lists : d.lists[i].host # "zen") => ls = d.lists
  BY <1>3, <1>4
<1> HIDE DEF ls
<1>7. e \in Configs /\ e.lists = ls /\ e.local = d.local
  BY <1>5, ConfigFacts
<1>8. Settled(12, e) /\ (Settled(12, d) => e = d)
  BY <1>4, <1>5, <1>6, <1>7 DEF Settled
<1>9. \A m \in ConfigOps : ~ (m < 12)
  BY DEF ConfigOps
<1>10. QED
  BY <1>1, <1>7, <1>8, <1>9 DEF Repeatable

\* v0.22.0
LEMMA DropStaleRepeats ==
  ASSUME NEW d \in Configs
  PROVE  Repeatable(13, d, WithoutStale(d))
<1> DEFINE K == {i \in DOMAIN d.lists : d.lists[i].name # "stale"}
           ls == Kept(d.lists, K)
           e == [d EXCEPT !.lists = ls]
<1>1. WithoutStale(d) = e
  BY DEF WithoutStale
<1>2. d.lists \in Seq(ListTypes) /\ d = [d EXCEPT !.lists = d.lists]
  BY ConfigFacts
<1>3. ls \in Seq(ListTypes) /\ \A i \in DOMAIN ls : \E k \in K : ls[i] = d.lists[k]
  <2>1. K \in SUBSET DOMAIN d.lists
    OBVIOUS
  <2> HIDE DEF K
  <2>2. QED
    BY <1>2, <2>1, KeptFacts
<1>4. (\A i \in DOMAIN d.lists : d.lists[i].name # "stale") => ls = d.lists
  <2>1. (\A i \in DOMAIN d.lists : d.lists[i].name # "stale") => K = DOMAIN d.lists
    OBVIOUS
  <2> HIDE DEF K
  <2>2. QED
    BY <1>2, <2>1, KeptAll
<1> HIDE DEF ls
<1>5. e \in Configs /\ e.lists = ls /\ e.local = d.local
  BY <1>3, ConfigFacts
<1>6. Settled(13, e) /\ (Settled(13, d) => e = d)
  BY <1>2, <1>3, <1>4, <1>5 DEF Settled
<1>7. \A m \in ConfigOps : m < 13 => m = 12
  BY DEF ConfigOps
<1>8. Settled(12, d) => Settled(12, e)
  BY <1>3, <1>5 DEF Settled
<1>9. QED
  BY <1>1, <1>5, <1>6, <1>7, <1>8 DEF Repeatable

\* v0.26.0
LEMMA LocalOnRepeats ==
  ASSUME NEW d \in Configs
  PROVE  Repeatable(14, d, LocalOn(d))
<1> DEFINE e == LocalOn(d)
<1>1. e \in Configs /\ e.lists = d.lists /\ e.local = "on" /\ (d.local = "on" => e = d)
  BY DEF Configs, LocalOn
<1> HIDE DEF e
<1>2. \A m \in ConfigOps : m < 14 => m = 12 \/ m = 13
  BY DEF ConfigOps
<1>3. (Settled(12, d) => Settled(12, e)) /\ (Settled(13, d) => Settled(13, e))
  BY <1>1 DEF Settled
<1>4. Settled(14, e) /\ (Settled(14, d) => e = d)
  BY <1>1 DEF Settled
<1>5. Repeatable(14, d, e)
  BY <1>1, <1>2, <1>3, <1>4 DEF Repeatable
<1>6. QED
  BY <1>5 DEF e

\* v0.26.1
LEMMA KeyStorageRepeats ==
  ASSUME NEW d \in Configs
  PROVE  Repeatable(17, d, OnDisk(d))
<1> DEFINE e == OnDisk(d)
<1>1. e \in Configs /\ e.lists = d.lists /\ e.local = d.local /\ HasKey(e) /\ (HasKey(d) => e = d)
  <2>1. "disk" # Unset
    BY DEF Unset
  <2>2. QED
    BY <2>1 DEF Configs, OnDisk, HasKey
<1> HIDE DEF e
<1>2. \A m \in ConfigOps : m < 17 => m = 12 \/ m = 13 \/ m = 14
  BY DEF ConfigOps
<1>3. /\ Settled(12, d) => Settled(12, e)
      /\ Settled(13, d) => Settled(13, e)
      /\ Settled(14, d) => Settled(14, e)
  BY <1>1 DEF Settled
<1>4. Settled(17, e) /\ (Settled(17, d) => e = d)
  BY <1>1 DEF Settled
<1>5. Repeatable(17, d, e)
  BY <1>1, <1>2, <1>3, <1>4 DEF Repeatable
<1>6. QED
  BY <1>5 DEF e

\* v0.27.0
LEMMA AdGuardBuildRepeats ==
  ASSUME NEW d \in Configs
  PROVE  Repeatable(18, d, AdGuardBuild(d))
<1> DEFINE first == Min(Sources(d.lists))
           stays == Has(d.lists, "adguard", "build") \/ Sources(d.lists) = {}
           moved == IF stays THEN d.lists ELSE [d.lists EXCEPT ![first] = Moved(d.lists[first], "build")]
           K == DOMAIN moved \ Sources(moved)
           ls == Kept(moved, K)
           e == [d EXCEPT !.lists = ls]
<1>1. AdGuardBuild(d) = e
  BY DEF AdGuardBuild
<1>2. d.lists \in Seq(ListTypes) /\ d = [d EXCEPT !.lists = d.lists]
  BY ConfigFacts
<1> HIDE DEF first
<1>3. \A i \in DOMAIN d.lists : d.lists[i] \in ListTypes /\ Moved(d.lists[i], "build") \in ListTypes
  <2>1. \A i \in DOMAIN d.lists : d.lists[i] \in ListTypes
    BY <1>2
  <2>2. \A l \in ListTypes : Moved(l, "build") \in ListTypes
    BY DEF ListTypes, Moved
  <2>3. QED
    BY <2>1, <2>2
<1>4. \A l \in ListTypes : Moved(l, "build").name = l.name /\ Moved(l, "build").host = "build"
  BY DEF ListTypes, Moved
<1>5. DOMAIN moved = DOMAIN d.lists /\ \A i \in DOMAIN moved :
        moved[i] = d.lists[i] \/ moved[i] = Moved(d.lists[i], "build")
  BY <1>2
<1>6. moved \in Seq(ListTypes)
  <2>1. CASE stays
    BY <1>2, <2>1
  <2>2. CASE ~stays
    <3>1. Sources(d.lists) # {} /\ Sources(d.lists) \in SUBSET Nat
      BY <1>2, <2>2 DEF Sources
    <3>2. first \in DOMAIN d.lists
      BY <3>1, MinFacts DEF first, Sources
    <3>3. QED
      BY <1>2, <1>3, <2>2, <3>2
  <2>3. QED
    BY <2>1, <2>2
<1>7. Sources(d.lists) = {} => moved = d.lists
  OBVIOUS
<1> HIDE DEF moved
<1>8. ls \in Seq(ListTypes) /\ \A i \in DOMAIN ls : \E k \in K : ls[i] = moved[k]
  <2>1. K \in SUBSET DOMAIN moved
    OBVIOUS
  <2> HIDE DEF K
  <2>2. QED
    BY <1>6, <2>1, KeptFacts
<1>9. Sources(d.lists) = {} => ls = d.lists
  <2>1. ASSUME Sources(d.lists) = {} PROVE moved = d.lists /\ K = DOMAIN d.lists
    BY <1>7, <2>1
  <2> HIDE DEF K
  <2>2. QED
    BY <1>2, <2>1, KeptAll
<1>10. \A k \in K : ~ (moved[k].name = "adguard" /\ moved[k].host = "source")
  BY DEF Sources
<1> HIDE DEF ls
<1>11. e \in Configs /\ e.lists = ls /\ e.local = d.local /\ (HasKey(e) <=> HasKey(d))
  BY <1>8, ConfigFacts DEF HasKey
<1>12. Settled(18, e) /\ (Settled(18, d) => e = d)
  <2>1. Sources(ls) = {}
    BY <1>8, <1>10 DEF Sources
  <2>2. QED
    BY <1>2, <1>9, <1>11, <2>1 DEF Settled
<1>13. K \subseteq DOMAIN d.lists
  BY <1>5
<1>14. ASSUME NEW i \in DOMAIN ls
       PROVE \E k \in DOMAIN d.lists : ls[i].name = d.lists[k].name /\ ls[i].host \in {d.lists[k].host, "build"}
  BY <1>3, <1>4, <1>5, <1>8, <1>13
<1>15. \A m \in ConfigOps : m < 18 => m = 12 \/ m = 13 \/ m = 14 \/ m = 17
  BY DEF ConfigOps
<1>16. \A m \in ConfigOps : m < 18 /\ Settled(m, d) => Settled(m, e)
  <2>1. (Settled(12, d) => Settled(12, e)) /\ (Settled(13, d) => Settled(13, e))
    <3>1. (\A i \in DOMAIN d.lists : d.lists[i].host # "zen") => \A i \in DOMAIN ls : ls[i].host # "zen"
      BY <1>14
    <3>2. (\A i \in DOMAIN d.lists : d.lists[i].name # "stale") => \A i \in DOMAIN ls : ls[i].name # "stale"
      BY <1>14
    <3>3. QED
      BY <1>11, <3>1, <3>2 DEF Settled
  <2>2. (Settled(14, d) => Settled(14, e)) /\ (Settled(17, d) => Settled(17, e))
    BY <1>11 DEF Settled
  <2>3. QED
    BY <1>15, <2>1, <2>2
<1>17. QED
  BY <1>1, <1>11, <1>12, <1>16 DEF Repeatable

\* The arm of an operation is its effect.
LEMMA EffectIs ==
  ASSUME NEW d
  PROVE  /\ Effect("rehost", d) = Rehosted(d)
         /\ Effect("dropStale", d) = WithoutStale(d)
         /\ Effect("localOn", d) = LocalOn(d)
         /\ Effect("keyStorage", d) = OnDisk(d)
         /\ Effect("adGuardBuild", d) = AdGuardBuild(d)
<1>1. \A x \in Late : Effect(x, d) = LateEffect(x, d)
  BY DEF Effect
<1>2. LateEffect("rehost", d) = Rehosted(d)
  BY DEF LateEffect
<1>3. LateEffect("dropStale", d) = WithoutStale(d)
  BY DEF LateEffect
<1>4. LateEffect("localOn", d) = LocalOn(d)
  BY DEF LateEffect
<1>5. LateEffect("keyStorage", d) = OnDisk(d)
  BY DEF LateEffect
<1>6. LateEffect("adGuardBuild", d) = AdGuardBuild(d)
  BY DEF LateEffect
<1>7. QED
  BY <1>1, <1>2, <1>3, <1>4, <1>5, <1>6 DEF Late

\* None of them is refused, and each can be repeated.
LEMMA OpRepeats ==
  ASSUME NEW k \in ConfigOps, NEW d \in Configs
  PROVE  /\ Repeatable(k, d, Effect(Ops[k].do, d))
         /\ ~Refused(Ops[k].do, d) /\ Ops[k].do \notin AutostartOps
<1>1. k = 12 \/ k = 13 \/ k = 14 \/ k = 17 \/ k = 18
  BY DEF ConfigOps
<1>2. Ops[k].do \notin Adds /\ Ops[k].do \notin AutostartOps
  BY <1>1, OpsAre DEF Adds, AutostartOps
<1>3. CASE k = 12
  <2>1. Effect(Ops[k].do, d) = Rehosted(d)
    BY <1>3, OpsAre, EffectIs
  <2>2. QED
    BY <1>2, <1>3, <2>1, RehostRepeats DEF Refused
<1>4. CASE k = 13
  <2>1. Effect(Ops[k].do, d) = WithoutStale(d)
    BY <1>4, OpsAre, EffectIs
  <2>2. QED
    BY <1>2, <1>4, <2>1, DropStaleRepeats DEF Refused
<1>5. CASE k = 14
  <2>1. Effect(Ops[k].do, d) = LocalOn(d)
    BY <1>5, OpsAre, EffectIs
  <2>2. QED
    BY <1>2, <1>5, <2>1, LocalOnRepeats DEF Refused
<1>6. CASE k = 17
  <2>1. Effect(Ops[k].do, d) = OnDisk(d)
    BY <1>6, OpsAre, EffectIs
  <2>2. QED
    BY <1>2, <1>6, <2>1, KeyStorageRepeats DEF Refused
<1>7. CASE k = 18
  <2>1. Effect(Ops[k].do, d) = AdGuardBuild(d)
    BY <1>7, OpsAre, EffectIs
  <2>2. QED
    BY <1>2, <1>7, <2>1, AdGuardBuildRepeats DEF Refused
<1>8. QED
  BY <1>1, <1>3, <1>4, <1>5, <1>6, <1>7
-----------------------------------------------------------------------------
(* What the migrations still have to do, for a stamp s: *)

Due(s, k) == s < Ops[k].of
Step(s, k, d) == IF Due(s, k) THEN Effect(Ops[k].do, d) ELSE d
From(s, i, k, d) == IF k >= i THEN Step(s, k, d) ELSE d

\* what the operations from i on make of d,
Rest(s, i, d) ==
  From(s, i, 18, From(s, i, 17, From(s, i, 14, From(s, i, 13, From(s, i, 12, d)))))

\* and that those before i have nothing left to do on it.
Before(s, i, d) == \A k \in ConfigOps : k < i /\ Due(s, k) => Settled(k, d)

Out(o) == Outcome(o.config, o.stamp)

\* With the operations from i on, d becomes the outcome, as it would with all.
Left(o, i, d) ==
  /\ d \in Configs /\ d.local # "absent"
  /\ Rest(o.stamp, i, d) = Out(o)
  /\ Before(o.stamp, i, d)

\* The migrations of after v0.19.0 only, with no failing write and no user.
Uneventful == origin.stamp \in Nat /\ origin.stamp >= 1900 /\ edited = {} /\ missed = 0

\* config.json can be migrated from the start, and the switch of v0.26.0 is
\* absent from it only before the migration to that.
FileLeft ==
  configFile # Torn =>
    /\ configFile \in Configs
    /\ Left(origin, 1, Loaded(configFile))
    /\ configFile.local = "absent" =>
         /\ origin.stamp < 2600 /\ stampFile = origin.stamp
         /\ process \in {"down", "starting", "migrating"}
         /\ process = "migrating" => op <= 14

\* A new stamp is only left beside the outcome.
StampLeft ==
  \/ stampFile \in {origin.stamp, Torn}
  \/ /\ stampFile \in Nat /\ stampFile >= 2700
     /\ configFile = Out(origin) /\ Left(origin, 19, Out(origin))

\* Where the process stands.
Position ==
  /\ process \in {"down", "starting", "migrating", "stamping", "running"}
  /\ firstLaunch = FALSE
  /\ saving # "no" => process = "migrating"
  /\ process = "starting" \/ (process = "migrating" /\ saving = "no") =>
       configFile # Torn /\ config = Loaded(configFile)
  /\ process = "migrating" =>
       /\ op \in 12 .. 19
       /\ op <= 18 => stampFile = origin.stamp /\ from = origin.stamp /\ Due(from, op)
       /\ saving = "no" => Left(origin, op, config)
       /\ saving # "no" => op \in ConfigOps /\ Left(origin, op + 1, config)
  /\ process = "stamping" =>
       configFile = Out(origin) /\ config = Out(origin) /\ Left(origin, 19, Out(origin))
  /\ process = "running" /\ stampFile # Torn =>
       configFile = Out(origin) /\ config = Out(origin)

Programs ==
  /\ program \in Nat /\ program >= 2700 /\ missed \in Nat
  /\ exec # NoVersion => exec \in Nat /\ exec >= 2700

Converging == Programs /\ (Uneventful => FileLeft /\ StampLeft /\ Position)

LEMMA OutcomeIs == ASSUME NEW s, NEW c PROVE Outcome(c, s) = Rest(s, 1, Loaded(c))
<1>1. \A d : From(s, 1, 12, d) = Step(s, 12, d)
  BY DEF From
<1>2. \A d : From(s, 1, 13, d) = Step(s, 13, d)
  BY DEF From
<1>3. \A d : From(s, 1, 14, d) = Step(s, 14, d)
  BY DEF From
<1>4. \A d : From(s, 1, 17, d) = Step(s, 17, d)
  BY DEF From
<1>5. \A d : From(s, 1, 18, d) = Step(s, 18, d)
  BY DEF From
<1>6. Rest(s, 1, Loaded(c)) =
        Step(s, 18, Step(s, 17, Step(s, 14, Step(s, 13, Step(s, 12, Loaded(c))))))
  BY <1>1, <1>2, <1>3, <1>4, <1>5 DEF Rest
<1>7. Outcome(c, s) =
        Step(s, 18, Step(s, 17, Step(s, 14, Step(s, 13, Step(s, 12, Loaded(c))))))
  BY DEF Outcome, Step, Due
<1>8. QED
  BY <1>6, <1>7

\* Nothing is left to do at the end.
LEMMA RestEnds == ASSUME NEW s, NEW d PROVE Rest(s, 19, d) = d
  BY DEF Rest, From

\* What is done may be done again.
LEMMA RestAgain ==
  ASSUME NEW s, NEW d \in Configs, NEW i \in 1 .. 19, Before(s, i, d)
  PROVE  Rest(s, 1, d) = Rest(s, i, d)
<1>1. ASSUME NEW k \in ConfigOps, k < i PROVE Step(s, k, d) = d
  BY <1>1, OpRepeats DEF Before, Step, Repeatable
<1>2. \A k \in ConfigOps : k \in Nat /\ k >= 1
  BY DEF ConfigOps
<1>3. ASSUME NEW k \in ConfigOps PROVE From(s, 1, k, d) = From(s, i, k, d)
  BY <1>1, <1>2 DEF From
<1>4. ASSUME NEW k \in ConfigOps, k >= i PROVE \A e : From(s, 1, k, e) = From(s, i, k, e)
  BY <1>2, <1>4 DEF From
<1>5. ASSUME NEW k \in ConfigOps, ~ (k >= i) PROVE From(s, 1, k, d) = d
  BY <1>1, <1>2, <1>5 DEF From
<1>6. /\ ~ (18 >= i) => ~ (17 >= i)
      /\ ~ (17 >= i) => ~ (14 >= i)
      /\ ~ (14 >= i) => ~ (13 >= i)
      /\ ~ (13 >= i) => ~ (12 >= i)
  OBVIOUS
<1>7. From(s, 1, 12, d) = From(s, i, 12, d) /\ (~ (12 >= i) => From(s, 1, 12, d) = d)
  BY <1>3, <1>5 DEF ConfigOps
<1> DEFINE c == From(s, i, 12, d)
           e == From(s, i, 13, c)
           f == From(s, i, 14, e)
           g == From(s, i, 17, f)
<1>8. From(s, 1, 13, c) = e /\ (~ (13 >= i) => e = d)
  BY <1>3, <1>4, <1>5, <1>6, <1>7 DEF ConfigOps
<1> HIDE DEF e
<1>9. From(s, 1, 14, e) = f /\ (~ (14 >= i) => f = d)
  BY <1>3, <1>4, <1>5, <1>6, <1>8 DEF ConfigOps
<1> HIDE DEF f
<1>10. From(s, 1, 17, f) = g /\ (~ (17 >= i) => g = d)
  BY <1>3, <1>4, <1>5, <1>6, <1>9 DEF ConfigOps
<1> HIDE DEF g
<1>11. From(s, 1, 18, g) = From(s, i, 18, g)
  BY <1>3, <1>4, <1>5, <1>6, <1>10 DEF ConfigOps
<1>12. QED
  BY <1>7, <1>8, <1>9, <1>10, <1>11 DEF Rest, e, f, g

\* One operation is done.
LEMMA RestStep ==
  ASSUME NEW s, NEW d, NEW i \in ConfigOps, Due(s, i)
  PROVE  Rest(s, i, d) = Rest(s, i + 1, Effect(Ops[i].do, d))
<1>1. \A k \in ConfigOps : k \in Nat
  BY DEF ConfigOps
<1>2. ASSUME NEW k \in ConfigOps, k > i PROVE \A e : From(s, i, k, e) = From(s, i + 1, k, e)
  BY <1>1, <1>2 DEF From
<1>3. ASSUME NEW k \in ConfigOps, k < i PROVE \A e : From(s, i, k, e) = e /\ From(s, i + 1, k, e) = e
  BY <1>1, <1>3 DEF From
<1>4. \A e : From(s, i, i, e) = Effect(Ops[i].do, e) /\ From(s, i + 1, i, e) = e
  BY <1>1 DEF From, Step
<1>5. i = 12 \/ i = 13 \/ i = 14 \/ i = 17 \/ i = 18
  BY DEF ConfigOps
<1>6. CASE i = 12
  BY <1>2, <1>4, <1>6 DEF Rest, ConfigOps
<1>7. CASE i = 13
  BY <1>2, <1>3, <1>4, <1>7 DEF Rest, ConfigOps
<1>8. CASE i = 14
  BY <1>2, <1>3, <1>4, <1>8 DEF Rest, ConfigOps
<1>9. CASE i = 17
  BY <1>2, <1>3, <1>4, <1>9 DEF Rest, ConfigOps
<1>10. CASE i = 18
  BY <1>3, <1>4, <1>10 DEF Rest, ConfigOps
<1>11. QED
  BY <1>5, <1>6, <1>7, <1>8, <1>9, <1>10

\* What is not due is passed over.
LEMMA RestSkip ==
  ASSUME NEW s, NEW d, NEW i \in Nat, NEW j \in Nat, i <= j,
         \A k \in ConfigOps : i <= k /\ k < j => ~Due(s, k)
  PROVE  /\ Rest(s, i, d) = Rest(s, j, d)
         /\ Before(s, i, d) => Before(s, j, d)
<1>1. \A k \in ConfigOps : k \in Nat
  BY DEF ConfigOps
<1>2. ASSUME NEW k \in ConfigOps PROVE \A e : From(s, i, k, e) = From(s, j, k, e)
  BY <1>1 DEF From, Step
<1>3. Rest(s, i, d) = Rest(s, j, d)
  BY <1>2 DEF Rest, ConfigOps
<1>4. Before(s, i, d) => Before(s, j, d)
  BY <1>1 DEF Before
<1>5. QED
  BY <1>3, <1>4

\* Pending: the next operation that is due.
LEMMA PendingFacts ==
  ASSUME NEW s, NEW i \in Nat, i >= 1
  PROVE  /\ Pending(s, i) \in Nat /\ Pending(s, i) <= 19
         /\ i <= 19 => i <= Pending(s, i)
         /\ Pending(s, i) <= 18 => Due(s, Pending(s, i))
         /\ \A k \in Nat : i <= k /\ k < Pending(s, i) => k > 18 \/ ~Due(s, k)
<1> DEFINE due == {j \in i .. Len(Ops) : s < Ops[j].of}
<1>1. Len(Ops) = 18
  BY OpsAre
<1>2. \A j : j \in due <=> j \in Nat /\ i <= j /\ j <= 18 /\ Due(s, j)
  BY <1>1 DEF Due
<1>3. Pending(s, i) = IF due = {} THEN 19 ELSE Min(due)
  BY <1>1 DEF Pending
<1>4. due \in SUBSET Nat
  BY <1>2
<1> HIDE DEF due
<1>5. CASE due = {}
  BY <1>2, <1>3, <1>5
<1>6. CASE due # {}
  <2>1. Min(due) \in due /\ \A x \in due : Min(due) <= x
    BY <1>4, <1>6, MinFacts
  <2> DEFINE m == Min(due)
  <2> HIDE DEF m
  <2>2. m \in due /\ (\A x \in due : m <= x) /\ Pending(s, i) = m
    BY <1>3, <1>6, <2>1 DEF m
  <2>3. m \in Nat /\ i <= m /\ m <= 18 /\ Due(s, m)
    BY <1>2, <2>2
  <2>4. \A k \in Nat : i <= k /\ k < m => k > 18 \/ ~Due(s, k)
    BY <1>2, <2>2, <2>3
  <2>5. QED
    BY <2>2, <2>3, <2>4
<1>7. QED
  BY <1>5, <1>6
-----------------------------------------------------------------------------
\* A configuration on its way to the outcome: it stays on it,
LEMMA LeftAgain ==
  ASSUME NEW o, NEW i \in 1 .. 19, NEW d, Left(o, i, d)
  PROVE  Left(o, 1, d)
<1>1. Rest(o.stamp, 1, d) = Rest(o.stamp, i, d)
  BY RestAgain DEF Left
<1>2. Before(o.stamp, 1, d)
  BY DEF Before, ConfigOps
<1>3. QED
  BY <1>1, <1>2 DEF Left

\* gets there,
LEMMA LeftEnds ==
  ASSUME NEW o, NEW d, Left(o, 19, d)
  PROVE  d = Out(o)
  BY RestEnds DEF Left

\* by the operations that are due
LEMMA LeftStep ==
  ASSUME NEW o, NEW i \in ConfigOps, NEW d, Left(o, i, d), Due(o.stamp, i)
  PROVE  Left(o, i + 1, Effect(Ops[i].do, d))
<1> DEFINE e == Effect(Ops[i].do, d)
<1>1. d \in Configs /\ d.local # "absent" /\ Before(o.stamp, i, d)
  BY DEF Left
<1>2. Repeatable(i, d, e)
  BY <1>1, OpRepeats
<1>3. Rest(o.stamp, i + 1, e) = Out(o)
  BY RestStep DEF Left
<1> HIDE DEF e
<1>4. \A k \in ConfigOps : k < i + 1 => k < i \/ k = i
  BY DEF ConfigOps
<1>5. Before(o.stamp, i + 1, e)
  BY <1>1, <1>2, <1>4 DEF Before, Repeatable
<1>6. Left(o, i + 1, e)
  BY <1>1, <1>2, <1>3, <1>5 DEF Left, Repeatable
<1>7. QED
  BY <1>6 DEF e

\* and past those that are not.
LEMMA LeftPending ==
  ASSUME NEW o, NEW i \in 1 .. 19, NEW d, Left(o, i, d)
  PROVE  Left(o, Pending(o.stamp, i), d)
<1> DEFINE j == Pending(o.stamp, i)
<1>1. j \in Nat /\ i <= j /\ \A k \in Nat : i <= k /\ k < j => k > 18 \/ ~Due(o.stamp, k)
  BY PendingFacts
<1> HIDE DEF j
<1>2. \A k \in ConfigOps : i <= k /\ k < j => ~Due(o.stamp, k)
  BY <1>1 DEF ConfigOps
<1>3. Rest(o.stamp, i, d) = Rest(o.stamp, j, d) /\ Before(o.stamp, j, d)
  BY <1>1, <1>2, RestSkip DEF Left
<1>4. Left(o, j, d)
  BY <1>3 DEF Left
<1>5. QED
  BY <1>4 DEF j

LEMMA LeftAutostart ==
  ASSUME NEW o, NEW i \in {15, 16}, NEW d, Left(o, i, d)
  PROVE  Left(o, i + 1, d)
<1>1. i \in Nat /\ i + 1 \in Nat /\ i <= i + 1
  OBVIOUS
<1>2. \A k \in ConfigOps : ~ (i <= k /\ k < i + 1)
  BY DEF ConfigOps
<1>3. Rest(o.stamp, i, d) = Rest(o.stamp, i + 1, d) /\ Before(o.stamp, i + 1, d)
  BY <1>1, <1>2, RestSkip DEF Left
<1>4. QED
  BY <1>3 DEF Left

\* Loading it keeps it there.
LEMMA LoadedFacts ==
  ASSUME NEW d \in Configs
  PROVE  /\ Loaded(d) \in Configs /\ Loaded(d).local # "absent"
         /\ d.local # "absent" => Loaded(d) = d
  BY DEF Configs, Loaded, LocalOn

\* The migrations that are due after v0.19.0 start at the operation 12.
LEMMA FirstPending ==
  ASSUME NEW s \in Nat, s >= 1900, NEW i \in 1 .. 19
  PROVE  /\ Pending(s, i) \in 12 .. 19
         /\ Pending(s, i) <= 18 => Due(s, Pending(s, i))
         /\ s >= 2700 => Pending(s, i) = 19
         /\ s < 2600 /\ i <= 14 => Pending(s, i) <= 14
<1>1. \A j \in 1 .. 11 : ~Due(s, j)
  BY OpsAre DEF Due
<1>2. s >= 2700 => \A j \in 1 .. 18 : ~Due(s, j)
  BY OpsAre DEF Due
<1>3. s < 2600 => Due(s, 14)
  BY OpsAre DEF Due
<1> DEFINE j == Pending(s, i)
<1>4. /\ j \in Nat /\ j <= 19 /\ i <= j
      /\ j <= 18 => Due(s, j)
      /\ \A k \in Nat : i <= k /\ k < j => k > 18 \/ ~Due(s, k)
  BY PendingFacts
<1> HIDE DEF j
<1>5. j \in 12 .. 19
  BY <1>1, <1>4
<1>6. s >= 2700 => j = 19
  BY <1>2, <1>4
<1>7. s < 2600 /\ i <= 14 => j <= 14
  BY <1>3, <1>4
<1>8. QED
  BY <1>4, <1>5, <1>6, <1>7 DEF j
-----------------------------------------------------------------------------
LEMMA ListedFacts ==
  ASSUME NEW h \in {"raw", "zen", "irbis", "source", "build"}, NEW b \in BOOLEAN
  PROVE  /\ Listed("ads", h, b) \in ListTypes /\ Listed("adguard", h, b) \in ListTypes
         /\ Listed("stale", h, b) \in ListTypes /\ Listed("shortener", h, b) \in ListTypes
         /\ Listed("all", h, b) \in ListTypes /\ Listed("main", h, b) \in ListTypes
         /\ Listed("shorts", h, b) \in ListTypes
  BY DEF Listed, ListTypes

LEMMA NoPolicy == Unset \in Policies
  BY DEF Policies

\* An installation has a configuration, whose switch of v0.26.0 is absent when it
\* is older.
LEMMA InstalledFacts ==
  ASSUME NEW s \in Nat, NEW p \in Policies, NEW a \in BOOLEAN
  PROVE  /\ InstalledConfig(s, p, a) \in Configs
         /\ InstalledConfig(s, p, a).local = "absent" => s < 2600
<1> DEFINE Hosts == {"raw", "zen", "irbis", "source", "build"}
           host == IF s >= 2100 THEN "irbis" ELSE "zen"
           adsHost == IF s >= 1900 THEN host ELSE "raw"
           ads == Listed("ads", adsHost, a)
           source == Listed("adguard", "source", TRUE)
           stale == Listed("stale", "raw", FALSE)
           shortener == Listed("shortener", "raw", TRUE)
           all == Listed("all", host, FALSE)
           main == Listed("main", host, TRUE)
           shorts == Listed("shorts", host, FALSE)
           lists == (IF s >= 1000 THEN <<ads>> ELSE <<>>) \o <<source>>
                      \o (IF s < 2200 THEN <<stale>> ELSE <<>>)
                      \o (IF s >= 300 THEN <<shortener>> ELSE <<>>)
                      \o (IF s >= 1800 THEN <<all, main>> ELSE <<>>)
                      \o (IF s >= 1900 THEN <<shorts>> ELSE <<>>)
           mine == "old"
           policy == IF s >= 900 THEN p ELSE Unset
           rules == IF s >= 1600 THEN "mine" ELSE "none"
           local == IF s >= 2600 THEN "off" ELSE "absent"
           key == IF s >= 2601 THEN "hardware" ELSE Unset
           c == [lists |-> lists, policy |-> policy, rules |-> rules, myRules |-> mine,
                 local |-> local, key |-> key]
<1>1. InstalledConfig(s, p, a) = c
  BY DEF InstalledConfig
<1>2. host \in Hosts /\ adsHost \in Hosts
  OBVIOUS
<1> HIDE DEF host, adsHost
<1>3. /\ ads \in ListTypes /\ source \in ListTypes /\ stale \in ListTypes /\ shortener \in ListTypes
      /\ all \in ListTypes /\ main \in ListTypes /\ shorts \in ListTypes
  <2>1. ads \in ListTypes /\ all \in ListTypes /\ main \in ListTypes /\ shorts \in ListTypes
    BY <1>2, ListedFacts
  <2>2. source \in ListTypes /\ stale \in ListTypes /\ shortener \in ListTypes
    BY ListedFacts
  <2>3. QED
    BY <2>1, <2>2
<1> HIDE DEF ads, source, stale, shortener, all, main, shorts
<1>4. lists \in Seq(ListTypes)
  <2> DEFINE t == IF s >= 1000 THEN <<ads>> ELSE <<>>
             u == <<source>>
             v == IF s < 2200 THEN <<stale>> ELSE <<>>
             w == IF s >= 300 THEN <<shortener>> ELSE <<>>
             x == IF s >= 1800 THEN <<all, main>> ELSE <<>>
             y == IF s >= 1900 THEN <<shorts>> ELSE <<>>
  <2>1. t \in Seq(ListTypes)
    BY <1>3
  <2>2. u \in Seq(ListTypes)
    BY <1>3
  <2>3. v \in Seq(ListTypes)
    BY <1>3
  <2>4. w \in Seq(ListTypes)
    BY <1>3
  <2>5. x \in Seq(ListTypes)
    BY <1>3
  <2>6. y \in Seq(ListTypes)
    BY <1>3
  <2> HIDE DEF t, u, v, w, x, y
  <2>7. t \o u \o v \o w \o x \o y \in Seq(ListTypes)
    BY <2>1, <2>2, <2>3, <2>4, <2>5, <2>6
  <2>8. QED
    BY <2>7 DEF t, u, v, w, x, y
<1>5. policy \in Policies
  BY NoPolicy
<1>6. rules \in {"none", "mine", "old", "edited"} /\ local \in {"absent", "on", "off"}
      /\ key \in {Unset, "disk", "hardware"} /\ mine \in {"none", "old"} /\ (local = "absent" => s < 2600)
  OBVIOUS
<1> HIDE DEF lists, policy, rules, mine, local, key
<1>7. c \in Configs
  BY <1>4, <1>5, <1>6 DEF Configs, ListTypes
<1>8. c.local = local
  OBVIOUS
<1>9. c.local = "absent" => s < 2600
  BY <1>6, <1>8
<1> HIDE DEF c
<1>10. QED
  BY <1>1, <1>7, <1>9

\* Every program that is launched knows the migrations.
LEMMA ProgramsInit == UpgradeInit => Programs
  BY VersionAssumption DEF UpgradeInit, Init, InitUpdate, Programs

LEMMA ProgramsKept == IInv /\ Programs /\ [Next]_vars => Programs'
<1> SUFFICES ASSUME IInv, Programs, [Next]_vars PROVE Programs'
  OBVIOUS
<1> USE DEF Programs
<1>1. ASSUME Launch PROVE Programs'
  BY <1>1 DEF Launch, LoadConfig, CreateConfig, Installation, updateVars, historyVars
<1>2. ASSUME Startup PROVE Programs'
  <2> USE DEF Installation, updateVars, historyVars
  <2>1. CASE ConfigCreated \/ BeginMigrations \/ MigrationsUnknown
    BY <1>2, <2>1 DEF Startup, ConfigCreated, BeginMigrations, MigrationsUnknown
  <2>2. CASE MigrateConfig \/ MigrationRefused
    BY <1>2, <2>2 DEF Startup, MigrateConfig, MigrationRefused
  <2>3. CASE MigrateAutostart
    BY <1>2, <2>3 DEF Startup, MigrateAutostart
  <2>4. CASE AutostartFails \/ StampFails
    BY <1>2, <2>4 DEF Startup, AutostartFails, StampFails, Miss
  <2>5. CASE BeginStamp \/ Stamp
    BY <1>2, <2>5 DEF Startup, BeginStamp, Stamp
  <2> QED
    BY <1>2, <2>1, <2>2, <2>4, <2>5, <2>3 DEF Startup
<1>3. ASSUME Save PROVE Programs'
  BY <1>3 DEF Save, TruncateFile, WriteFile, SaveFails, Miss, Installation, updateVars, historyVars
<1>4. ASSUME User PROVE Programs'
  BY <1>4 DEF User, SetUpdatePolicy, SetRules, SetLocalResourcesEnabled, Change, Installation, updateVars
<1>5. ASSUME Updater PROVE Programs'
  <2>1. UNCHANGED <<program, missed>> /\ (StartUpdater \/ Update(config.policy, program))
    BY <1>5 DEF Updater, configVars, processVars, historyVars
  <2>2. exec' = exec \/ exec' = NoVersion \/ exec' = program \/ (exec' = Release /\ phase = "moved")
    <3>1. CASE StartUpdater
      BY <3>1 DEF StartUpdater
    <3>2. CASE Download(config.policy, program)
      BY <3>2 DEF Download
    <3>3. CASE StageArchive
      BY <3>3 DEF StageArchive
    <3>4. CASE StagingFails
      BY <3>4 DEF StagingFails
    <3>5. CASE Unarchive
      BY <3>5 DEF Unarchive
    <3>6. CASE UnarchiveFails
      BY <3>6 DEF UnarchiveFails
    <3>7. CASE MoveToBackup(program)
      BY <3>7 DEF MoveToBackup
    <3>8. CASE BackupFails
      BY <3>8 DEF BackupFails
    <3>9. CASE MoveIntoPlace
      BY <3>9 DEF MoveIntoPlace
    <3>10. CASE MoveFails
      BY <3>10 DEF MoveFails
    <3>11. CASE Rollback(program)
      BY <3>11 DEF Rollback
    <3>12. CASE RollbackFails
      BY <3>12 DEF RollbackFails
    <3>13. CASE DropBackup(program)
      BY <3>13 DEF DropBackup
    <3>14. CASE RemoveBackupFails
      BY <3>14 DEF RemoveBackupFails
    <3>15. CASE HideFails
      BY <3>15 DEF HideFails
    <3>16. CASE Finish
      BY <3>16 DEF Finish
    <3> QED
      BY <2>1, <3>1, <3>2, <3>3, <3>4, <3>5, <3>6, <3>7, <3>8, <3>9, <3>10, <3>11,
         <3>12, <3>13, <3>14, <3>15, <3>16 DEF Update
  <2>3. Release \in Nat /\ (phase = "moved" => Release > program)
    BY ReleaseAssumption DEF IInv, Updating
  <2> QED
    BY <2>1, <2>2, <2>3
<1>6. ASSUME End PROVE Programs'
  BY <1>6 DEF End, EndProcess, EndUpdater, historyVars
<1>7. ASSUME UNCHANGED vars PROVE Programs'
  BY <1>7 DEF vars, configVars, processVars, historyVars, updateVars
<1> QED
  BY <1>1, <1>2, <1>3, <1>4, <1>5, <1>6, <1>7 DEF Next

LEMMA ConvergingInit == UpgradeInit => Converging
<1> SUFFICES ASSUME UpgradeInit, Uneventful PROVE FileLeft /\ StampLeft /\ Position
  BY ProgramsInit DEF Converging
<1>1. stampFile = origin.stamp /\ configFile = origin.config /\ process = "down"
      /\ saving = "no" /\ firstLaunch = FALSE
  BY DEF UpgradeInit, Init
<1>2. origin.stamp \in Nat /\ origin.stamp >= 1900
  BY DEF Uneventful
<1>3. stampFile # Absent
  BY <1>1, <1>2, FilesAssumption
<1>4. PICK s \in Stamps, p \in Policies, a \in BOOLEAN :
        configFile = InstalledConfig(s, p, a) /\ stampFile = Stamped(s)
  <2>1. PICK s \in Stamps, refused \in BOOLEAN, a \in BOOLEAN :
          /\ configFile = InstalledConfig(s, IF refused THEN "disabled"
                                             ELSE IF s < 1300 THEN "prompt"
                                             ELSE "automatic", a)
          /\ stampFile = Stamped(s)
    <3>1. Init
      BY DEF UpgradeInit
    <3>2. ~ (configFile = Absent /\ stampFile = Absent /\ legacy = FALSE)
      BY <1>3
    <3>3. QED
      BY <3>1, <3>2 DEF Init
  <2> DEFINE p == IF refused THEN "disabled" ELSE IF s < 1300 THEN "prompt" ELSE "automatic"
  <2>2. p \in Policies
    BY DEF Policies
  <2>3. configFile = InstalledConfig(s, p, a)
    BY <2>1
  <2> HIDE DEF p
  <2>4. QED
    BY <2>1, <2>2, <2>3
<1>5. s = origin.stamp /\ s \in Nat
  BY <1>1, <1>3, <1>4, StampsAssumption DEF Stamped
<1>6. configFile \in Configs /\ (configFile.local = "absent" => origin.stamp < 2600)
  BY <1>2, <1>4, <1>5, InstalledFacts
<1>7. Rest(origin.stamp, 1, Loaded(configFile)) = Out(origin)
  BY <1>1, OutcomeIs DEF Out
<1>8. Before(origin.stamp, 1, Loaded(configFile))
  BY DEF Before, ConfigOps
<1>9. Left(origin, 1, Loaded(configFile))
  BY <1>6, <1>7, <1>8, LoadedFacts DEF Left
<1>10. FileLeft
  BY <1>1, <1>6, <1>9 DEF FileLeft
<1>11. QED
  BY <1>1, <1>10 DEF StampLeft, Position
-----------------------------------------------------------------------------
Good == FileLeft /\ StampLeft /\ Position

\* What the first start found stays what it was, and neither a change of the user
\* nor a failure is forgotten.
LEMMA HistoryKept ==
  ASSUME Programs, [Next]_vars
  PROVE  origin' = origin /\ (Uneventful' => Uneventful)
<1> USE DEF Uneventful
<1>1. ASSUME Launch \/ End \/ Updater \/ UNCHANGED vars
      PROVE UNCHANGED <<origin, edited, missed>>
  BY <1>1 DEF Launch, LoadConfig, CreateConfig, End, EndProcess, Updater, vars, configVars, historyVars
<1>2. ASSUME Startup PROVE UNCHANGED <<origin, edited>> /\ (missed' = missed \/ missed' = missed + 1)
  <2> USE DEF historyVars
  <2>1. CASE ConfigCreated \/ BeginMigrations \/ MigrationsUnknown
    BY <1>2, <2>1 DEF Startup, ConfigCreated, BeginMigrations, MigrationsUnknown
  <2>2. CASE MigrateConfig \/ MigrationRefused
    BY <1>2, <2>2 DEF Startup, MigrateConfig, MigrationRefused
  <2>3. CASE MigrateAutostart
    BY <1>2, <2>3 DEF Startup, MigrateAutostart
  <2>4. CASE AutostartFails \/ StampFails
    BY <1>2, <2>4 DEF Startup, AutostartFails, StampFails, Miss
  <2>5. CASE BeginStamp \/ Stamp
    BY <1>2, <2>5 DEF Startup, BeginStamp, Stamp
  <2> QED
    BY <1>2, <2>1, <2>2, <2>3, <2>4, <2>5 DEF Startup
<1>3. ASSUME Save PROVE UNCHANGED <<origin, edited>> /\ (missed' = missed \/ missed' = missed + 1)
  BY <1>3 DEF Save, TruncateFile, WriteFile, SaveFails, Miss, historyVars
<1>4. ASSUME User PROVE origin' = origin /\ edited' # {}
  BY <1>4 DEF User, SetUpdatePolicy, SetRules, SetLocalResourcesEnabled, Change
<1>5. missed \in Nat
  BY DEF Programs
<1>6. QED
  BY <1>1, <1>2, <1>3, <1>4, <1>5 DEF Next

\* A start loads what the last process left.
LEMMA GoodLaunch == Uneventful /\ Good /\ Launch => Good'
<1> SUFFICES ASSUME Uneventful, Good, Launch PROVE Good'
  OBVIOUS
<1>1. configFile # Absent
  BY FilesAssumption DEF Good, FileLeft
<1>2. LoadConfig(exec)
  BY <1>1 DEF Launch, CreateConfig
<1>3. /\ process = "down" /\ process' = "starting" /\ firstLaunch' = FALSE
      /\ configFile # Torn /\ config' = Loaded(configFile)
      /\ UNCHANGED <<configFile, stampFile, saving, origin>>
  BY <1>2 DEF LoadConfig, filesVars, historyVars
<1>4. FileLeft'
  BY <1>3 DEF Good, FileLeft
<1>5. StampLeft'
  BY <1>3 DEF Good, StampLeft
<1>6. Position'
  BY <1>3 DEF Good, Position
<1>7. QED
  BY <1>4, <1>5, <1>6 DEF Good

LEMMA GoodEnd == Uneventful /\ Good /\ End => Good'
<1> SUFFICES ASSUME Good, End PROVE Good'
  OBVIOUS
<1>1. /\ process' = "down" /\ saving' = "no" /\ firstLaunch' = FALSE
      /\ UNCHANGED <<configFile, stampFile, origin>>
  BY DEF End, EndProcess, filesVars, historyVars
<1>2. FileLeft'
  BY <1>1 DEF Good, FileLeft
<1>3. StampLeft'
  BY <1>1 DEF Good, StampLeft
<1>4. Position'
  BY <1>1 DEF Position
<1>5. QED
  BY <1>2, <1>3, <1>4 DEF Good

\* The migrations begin where the last stamp left them.
LEMMA GoodBegin == Uneventful /\ Good /\ BeginMigrations => Good'
<1> SUFFICES ASSUME Uneventful, Good, BeginMigrations PROVE Good'
  OBVIOUS
<1>1. /\ process = "starting" /\ process' = "migrating"
      /\ op' = Pending(from', 1)
      /\ UNCHANGED <<configFile, stampFile, config, firstLaunch, saving, origin>>
  BY DEF BeginMigrations, filesVars, historyVars
<1>2. /\ firstLaunch = FALSE /\ saving = "no"
      /\ configFile # Torn /\ config = Loaded(configFile)
  BY <1>1 DEF Good, Position
<1>3. configFile \in Configs /\ Left(origin, 1, config)
  BY <1>2 DEF Good, FileLeft
<1>4. origin.stamp \in Nat /\ origin.stamp >= 1900
  BY DEF Uneventful
<1>5. stampFile # Torn /\ stampFile \in Nat
  BY <1>2, <1>4 DEF Good, StampLeft, BeginMigrations
<1>6. from' = stampFile
  BY <1>2, <1>5, FilesAssumption DEF BeginMigrations
<1>7. stampFile >= 1900
  BY <1>4, <1>5 DEF Good, StampLeft
<1>8. /\ op' \in 12 .. 19
      /\ op' <= 18 => Due(stampFile, op')
      /\ stampFile >= 2700 => op' = 19
      /\ stampFile < 2600 => op' <= 14
  BY <1>1, <1>5, <1>6, <1>7, FirstPending
<1>9. op' <= 18 => stampFile = origin.stamp
  BY <1>5, <1>8 DEF Good, StampLeft
<1>10. Left(origin, op', config)
  <2>1. CASE stampFile = origin.stamp
    BY <1>1, <1>3, <1>6, <2>1, LeftPending
  <2>2. CASE stampFile # origin.stamp
    <3>1. stampFile >= 2700 /\ configFile = Out(origin) /\ Left(origin, 19, Out(origin))
      BY <1>5, <2>2 DEF Good, StampLeft
    <3>2. Loaded(configFile) = configFile
      BY <1>3, <3>1, LoadedFacts DEF Left
    <3>3. QED
      BY <1>2, <1>8, <3>1, <3>2
  <2>3. QED
    BY <2>1, <2>2
<1>11. FileLeft'
  BY <1>1, <1>8 DEF Good, FileLeft
<1>12. StampLeft'
  BY <1>1 DEF Good, StampLeft
<1>13. Position'
  BY <1>1, <1>2, <1>6, <1>8, <1>9, <1>10 DEF Position
<1>14. QED
  BY <1>11, <1>12, <1>13 DEF Good

LEMMA GoodUnknown == Uneventful /\ Good /\ MigrationsUnknown => Good'
<1> SUFFICES ASSUME Uneventful, Good, MigrationsUnknown PROVE Good'
  OBVIOUS
<1>1. /\ process = "starting" /\ process' = "running" /\ stampFile = Torn
      /\ UNCHANGED <<configFile, stampFile, config, firstLaunch, saving, origin>>
  BY DEF MigrationsUnknown, filesVars, historyVars
<1>2. origin.stamp \in Nat
  BY DEF Uneventful
<1>3. stampFile # origin.stamp
  BY <1>1, <1>2, FilesAssumption
<1>4. FileLeft'
  BY <1>1, <1>3 DEF Good, FileLeft
<1>5. StampLeft'
  BY <1>1 DEF Good, StampLeft
<1>6. Position'
  BY <1>1 DEF Good, Position
<1>7. QED
  BY <1>4, <1>5, <1>6 DEF Good

\* The operation that is due, in a process that migrates.
LEMMA AtOperation ==
  ASSUME Uneventful, Good, Migrating
  PROVE  /\ process = "migrating" /\ saving = "no" /\ op \in 12 .. 18 /\ firstLaunch = FALSE
         /\ stampFile = origin.stamp /\ from = origin.stamp /\ from \in Nat /\ from >= 1900
         /\ Due(from, op) /\ Left(origin, op, config)
         /\ configFile # Torn /\ config = Loaded(configFile)
<1>1. process = "migrating" /\ saving = "no" /\ op <= 18
  BY OpsAre DEF Migrating
<1>2. QED
  BY <1>1 DEF Good, Position, Uneventful

\* An operation on the configuration, before it is saved.
LEMMA GoodMigrate == Uneventful /\ Good /\ MigrateConfig => Good'
<1> SUFFICES ASSUME Uneventful, Good, MigrateConfig PROVE Good'
  OBVIOUS
<1>1. /\ process = "migrating" /\ saving = "no" /\ op \in 12 .. 18 /\ firstLaunch = FALSE
      /\ stampFile = origin.stamp /\ from = origin.stamp
      /\ Due(from, op) /\ Left(origin, op, config)
  BY AtOperation DEF MigrateConfig
<1>2. op \in ConfigOps
  <2>1. op # 15 /\ op # 16
    BY OpsAre DEF MigrateConfig, AutostartOps
  <2>2. QED
    BY <1>1, <2>1 DEF ConfigOps
<1>3. /\ config' = Effect(Ops[op].do, config) /\ saving' = "truncate"
      /\ UNCHANGED <<configFile, stampFile, process, firstLaunch, from, op, origin>>
  BY DEF MigrateConfig, filesVars, historyVars
<1>4. Left(origin, op + 1, config')
  BY <1>1, <1>2, <1>3, LeftStep
<1>5. FileLeft'
  BY <1>3 DEF Good, FileLeft
<1>6. StampLeft'
  BY <1>3 DEF Good, StampLeft
<1>7. Position'
  BY <1>1, <1>2, <1>3, <1>4 DEF Position
<1>8. QED
  BY <1>5, <1>6, <1>7 DEF Good

LEMMA GoodRefused == Uneventful /\ Good /\ MigrationRefused => Good'
<1> SUFFICES ASSUME Uneventful, Good, MigrationRefused PROVE FALSE
  OBVIOUS
<1>1. op \in 12 .. 18 /\ Left(origin, op, config)
  BY AtOperation DEF MigrationRefused
<1>2. Refused(Ops[op].do, config)
  BY DEF MigrationRefused
<1>3. CASE op \in ConfigOps
  BY <1>1, <1>2, <1>3, OpRepeats DEF Left
<1>4. CASE op = 15 \/ op = 16
  BY <1>2, <1>4, OpsAre DEF Refused, Adds
<1>5. QED
  BY <1>1, <1>3, <1>4 DEF ConfigOps

\* Autostart: the configuration stays.
LEMMA GoodAutostart == Uneventful /\ Good /\ MigrateAutostart => Good'
<1> SUFFICES ASSUME Uneventful, Good, MigrateAutostart PROVE Good'
  OBVIOUS
<1>1. /\ process = "migrating" /\ saving = "no" /\ op \in 12 .. 18 /\ firstLaunch = FALSE
      /\ stampFile = origin.stamp /\ from = origin.stamp /\ from \in Nat /\ from >= 1900
      /\ Left(origin, op, config)
      /\ configFile # Torn /\ config = Loaded(configFile)
  BY AtOperation DEF MigrateAutostart
<1>2. Ops[op].do \in AutostartOps
  BY DEF MigrateAutostart
<1>3. op \notin ConfigOps
  BY <1>1, <1>2, OpRepeats DEF Left
<1>4. op = 15 \/ op = 16
  BY <1>1, <1>3 DEF ConfigOps
<1>5. /\ op' = Pending(from, op + 1)
      /\ UNCHANGED <<configFile, stampFile, process, config, firstLaunch, from, saving, origin>>
  <2>1. Ops[op].do # "disable"
    BY <1>4, OpsAre
  <2>2. QED
    BY <2>1 DEF MigrateAutostart, historyVars
<1>6. /\ op' \in 12 .. 19
      /\ op' <= 18 => Due(from, op')
  BY <1>1, <1>4, <1>5, FirstPending
<1>7. Left(origin, op', config)
  <2>1. Left(origin, op + 1, config)
    BY <1>1, <1>4, LeftAutostart
  <2>2. QED
    BY <1>1, <1>4, <1>5, <2>1, LeftPending
<1>8. configFile.local # "absent"
  BY <1>1, <1>4 DEF Good, FileLeft
<1>9. FileLeft'
  BY <1>5, <1>8 DEF Good, FileLeft
<1>10. StampLeft'
  BY <1>5 DEF Good, StampLeft
<1>11. Position'
  BY <1>1, <1>5, <1>6, <1>7 DEF Position
<1>12. QED
  BY <1>9, <1>10, <1>11 DEF Good

\* The end of the migrations.
LEMMA GoodStamping == Uneventful /\ Programs /\ Good /\ (BeginStamp \/ Stamp) => Good'
<1> SUFFICES ASSUME Uneventful, Programs, Good, BeginStamp \/ Stamp PROVE Good'
  OBVIOUS
<1>1. CASE BeginStamp
  <2>1. /\ process = "migrating" /\ saving = "no" /\ op = 19
        /\ process' = "stamping" /\ stampFile' = Torn
        /\ UNCHANGED <<configFile, config, firstLaunch, saving, origin>>
    BY <1>1, OpsAre DEF BeginStamp, historyVars
  <2>2. /\ configFile # Torn /\ config = Loaded(configFile) /\ Left(origin, 19, config)
        /\ firstLaunch = FALSE
    BY <2>1 DEF Good, Position
  <2>3. configFile.local # "absent" /\ configFile \in Configs
    BY <2>1, <2>2 DEF Good, FileLeft
  <2>4. configFile = Out(origin) /\ config = Out(origin)
    BY <2>2, <2>3, LeftEnds, LoadedFacts
  <2>5. FileLeft'
    BY <2>1, <2>3 DEF Good, FileLeft
  <2>6. StampLeft'
    BY <2>1 DEF StampLeft
  <2>7. Position'
    BY <2>1, <2>2, <2>4 DEF Position
  <2>8. QED
    BY <2>5, <2>6, <2>7 DEF Good
<1>2. CASE Stamp
  <2>1. /\ process = "stamping" /\ process' = "running" /\ stampFile' = program
        /\ UNCHANGED <<configFile, config, firstLaunch, saving, origin>>
    BY <1>2 DEF Stamp, historyVars
  <2>2. /\ configFile = Out(origin) /\ config = Out(origin) /\ Left(origin, 19, Out(origin))
        /\ firstLaunch = FALSE /\ saving = "no"
    BY <2>1 DEF Good, Position
  <2>3. configFile.local # "absent"
    BY <2>2 DEF Left
  <2>4. FileLeft'
    BY <2>1, <2>3 DEF Good, FileLeft
  <2>5. StampLeft'
    BY <2>1, <2>2 DEF StampLeft, Programs
  <2>6. Position'
    BY <2>1, <2>2 DEF Position
  <2>7. QED
    BY <2>4, <2>5, <2>6 DEF Good
<1>3. QED
  BY <1>1, <1>2

\* The save of an operation: torn in between, and on its way when it is written.
LEMMA GoodTruncate == Uneventful /\ Good /\ TruncateFile => Good'
<1> SUFFICES ASSUME Uneventful, Good, TruncateFile PROVE Good'
  OBVIOUS
<1>1. /\ saving = "truncate" /\ saving' = "write" /\ configFile' = Torn
      /\ UNCHANGED <<stampFile, process, config, firstLaunch, from, op, origin>>
  BY DEF TruncateFile, historyVars
<1>2. /\ process = "migrating" /\ op \in ConfigOps /\ Left(origin, op + 1, config)
      /\ firstLaunch = FALSE
  BY <1>1 DEF Good, Position
<1>3. op \in 12 .. 18
  BY <1>2 DEF ConfigOps
<1>4. stampFile = origin.stamp /\ from = origin.stamp /\ Due(from, op)
  BY <1>2, <1>3 DEF Good, Position
<1>5. FileLeft'
  BY <1>1 DEF FileLeft
<1>6. StampLeft'
  BY <1>1, <1>4 DEF StampLeft
<1>7. Position'
  BY <1>1, <1>2, <1>3, <1>4 DEF Position
<1>8. QED
  BY <1>5, <1>6, <1>7 DEF Good

LEMMA GoodWrite == Uneventful /\ Good /\ WriteFile => Good'
<1> SUFFICES ASSUME Uneventful, Good, WriteFile PROVE Good'
  OBVIOUS
<1>1. saving = "write" /\ saving' = "no" /\ configFile' = config
      /\ UNCHANGED <<stampFile, process, config, firstLaunch, from, origin>>
  BY DEF WriteFile, historyVars
<1>2. /\ process = "migrating" /\ op \in ConfigOps /\ Left(origin, op + 1, config)
      /\ firstLaunch = FALSE
  BY <1>1 DEF Good, Position
<1>3. op \in 12 .. 18
  BY <1>2 DEF ConfigOps
<1>4. stampFile = origin.stamp /\ from = origin.stamp /\ from \in Nat /\ from >= 1900
  BY <1>2, <1>3 DEF Good, Position, Uneventful
<1>5. op' = Pending(from, op + 1)
  BY <1>2 DEF WriteFile
<1>6. op' \in 12 .. 19 /\ (op' <= 18 => Due(from, op'))
  BY <1>3, <1>4, <1>5, FirstPending
<1>7. Left(origin, op', config)
  BY <1>2, <1>3, <1>4, <1>5, LeftPending
<1>8. config \in Configs /\ config.local # "absent" /\ config # Torn
  BY <1>2, FilesAssumption DEF Left
<1>9. Loaded(config) = config
  BY <1>8, LoadedFacts
<1>10. Left(origin, 1, config)
  BY <1>2, <1>3, LeftAgain
<1>11. FileLeft'
  BY <1>1, <1>8, <1>9, <1>10 DEF FileLeft
<1>12. StampLeft'
  BY <1>1, <1>4 DEF StampLeft
<1>13. Position'
  BY <1>1, <1>2, <1>4, <1>6, <1>7, <1>8, <1>9 DEF Position
<1>14. QED
  BY <1>11, <1>12, <1>13 DEF Good
LEMMA ConvergingKept == IInv /\ Converging /\ [Next]_vars => Converging'
<1> SUFFICES ASSUME IInv, Converging, [Next]_vars PROVE Converging'
  OBVIOUS
<1>1. Programs /\ Programs'
  BY ProgramsKept DEF Converging
<1>2. ASSUME Uneventful' PROVE Good'
  <2>1. origin' = origin /\ Uneventful /\ Good
    BY <1>1, <1>2, HistoryKept DEF Converging, Good
  <2>2. missed \in Nat
    BY <1>1 DEF Programs
  <2>3. edited = {} /\ missed = 0 /\ edited' = {} /\ missed' = 0
    BY <1>2, <2>1 DEF Uneventful
  <2>4. CASE Launch
    BY <2>1, <2>4, GoodLaunch
  <2>5. CASE Startup
    <3>1. ~ConfigCreated
      BY <2>1 DEF ConfigCreated, Good, Position
    <3>2. ~AutostartFails /\ ~StampFails
      BY <2>3 DEF AutostartFails, StampFails, Miss
    <3>3. QED
      BY <1>1, <2>1, <2>5, <3>1, <3>2, GoodBegin, GoodUnknown, GoodMigrate, GoodRefused, GoodAutostart,
        GoodStamping DEF Startup
  <2>6. CASE Save
    <3>1. ~SaveFails
      BY <2>3 DEF SaveFails, Miss
    <3>2. QED
      BY <2>1, <2>6, <3>1, GoodTruncate, GoodWrite DEF Save
  <2>7. CASE User
    <3>1. edited' # {}
      BY <2>7 DEF User, SetUpdatePolicy, SetRules, SetLocalResourcesEnabled, Change
    <3>2. QED
      BY <2>3, <3>1
  <2>8. CASE Updater \/ UNCHANGED vars
    <3>1. UNCHANGED <<configFile, stampFile, process, config, firstLaunch, from, op, saving, origin>>
      BY <2>8 DEF Updater, vars, configVars, filesVars, processVars, historyVars
    <3>2. FileLeft' /\ StampLeft'
      BY <2>1, <3>1 DEF Good, FileLeft, StampLeft
    <3>3. Position'
      BY <2>1, <3>1 DEF Good, Position
    <3>4. QED
      BY <3>2, <3>3 DEF Good
  <2>9. CASE End
    BY <2>1, <2>9, GoodEnd
  <2>10. QED
    BY <2>4, <2>5, <2>6, <2>7, <2>8, <2>9 DEF Next
<1>3. QED
  BY <1>1, <1>2 DEF Converging, Good

-----------------------------------------------------------------------------
\* An upgrade from v0.19.0 or later that is interrupted at any step, however
\* often, and completed by a later start of any program from v0.27.0 on ends in
\* the configuration that one uninterrupted run of the migrations produces, and
\* leaves it in config.json.
THEOREM UpgradeConverges == Spec => []InterruptedUpgradeConverges
<1>1. UpgradeInit => IInv /\ Converging
  BY InitIInv, ConvergingInit
<1>2. IInv /\ Converging /\ [Next]_vars => (IInv /\ Converging)'
  BY Inductive, ConvergingKept
<1>3. Converging => InterruptedUpgradeConverges
  BY DEF Converging, Uneventful, Position, InterruptedUpgradeConverges, Out
<1>4. QED
  BY <1>1, <1>2, <1>3, PTL DEF Spec
=============================================================================
