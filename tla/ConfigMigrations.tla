-------------------------- MODULE ConfigMigrations --------------------------
(***************************************************************************)
(* internal/config: loading config.json, the version-to-version migrations *)
(* of a start (RunMigrations, called by commonStartup before the window is *)
(* usable) and the setters of the settings screen, with process ends and   *)
(* failing writes between any two file operations.                         *)
(*                                                                         *)
(* os.WriteFile truncates the file and then writes it: a file is Torn in   *)
(* between, and stays so when the process ends there or the write fails.   *)
(* Versions are numbers, minor * 100 + patch (v0.26.1 is 2601).  Of the    *)
(* settings, those are kept that a migration rewrites: the lists some      *)
(* migration adds, moves or removes (Zen - Privacy is treated exactly like *)
(* Zen - Ads and left out), the update policy, the user's rules, the local *)
(* resources switch and the key storage.  The migrations v0.7.0, v0.11.0,  *)
(* v0.11.3 and v0.17.0 touch nothing of these and v0.12.0 is for macOS;    *)
(* autostart is the Linux one.  v0.21.0 also resets the routing, which is  *)
(* left out.                                                               *)
(***************************************************************************)
EXTENDS Integers, Sequences, SequencesExt, FiniteSetsExt

CONSTANTS
  Version,     \* version of the installed program
  Absent,      \* a file that does not exist
  Torn,        \* a file that was truncated and not written
  Stamps,      \* versions an earlier program may have left in last_migration
  Faults,      \* writes that may fail: "save", "stamp", "autostart"
  MaxMissed    \* bound: writes that fail

ASSUME VersionAssumption == Version \in Nat /\ Version >= 2700
ASSUME StampsAssumption == Stamps \subseteq Nat /\ \A s \in Stamps : s < Version
ASSUME FaultsAssumption ==
  Faults \subseteq {"save", "stamp", "autostart"} /\ MaxMissed \in Nat

VARIABLES
  configFile,  \* config.json: a configuration, Absent or Torn
  stampFile,   \* last_migration: a version, Absent or Torn
  entry,       \* the autostart entry exists
  legacy,      \* the autostart entry of before v0.25.0 exists
  process,     \* "down", "creating", "starting", "migrating", "stamping", "running"
  program,     \* version of the running program
  config,      \* the configuration in memory
  firstLaunch, \* Config.firstLaunch
  from,        \* lastMigrationV
  op,          \* index of the next operation of the migrations
  saving,      \* saveLocked: "no", or the step it is about to take
  origin,      \* history: what the first start found
  edited,      \* history: settings the user has changed
  missed       \* history: writes that have failed

filesVars == <<configFile, stampFile, entry, legacy>>
processVars == <<process, program, config, firstLaunch, from, op, saving>>
historyVars == <<origin, edited, missed>>
configVars == <<filesVars, processVars, historyVars>>

-----------------------------------------------------------------------------
\* A URL is the list's name and the host that serves it: "raw" (GitHub),
\* "zen" and "irbis" (jsDelivr, two organisations), for AdGuard's list its
\* "source" or its "build".
Listed(name, host, on) == [name |-> name, host |-> host, on |-> on]

\* An option the file does not name.
Unset == ""

Policies == {Unset, "automatic", "prompt", "disabled"}
Settings == {"policy", "rules", "local"}

DefaultConfig ==
  [lists   |-> <<Listed("ads", "irbis", TRUE), Listed("adguard", "build", TRUE),
                 Listed("shortener", "raw", TRUE), Listed("all", "irbis", FALSE),
                 Listed("main", "irbis", FALSE), Listed("shorts", "irbis", FALSE)>>,
   policy  |-> "disabled", rules |-> "none", myRules |-> "none",
   local   |-> "on", key |-> "disk"]

\* What a program of version s has left, with the choices of its user.
InstalledConfig(s, policy, adsOn) ==
  LET host == IF s >= 2100 THEN "irbis" ELSE "zen" IN
  [lists   |->
     (IF s >= 1000 THEN <<Listed("ads", IF s >= 1900 THEN host ELSE "raw", adsOn)>>
      ELSE <<>>)
     \o <<Listed("adguard", "source", TRUE)>>
     \o (IF s < 2200 THEN <<Listed("stale", "raw", FALSE)>> ELSE <<>>)
     \o (IF s >= 300 THEN <<Listed("shortener", "raw", TRUE)>> ELSE <<>>)
     \o (IF s >= 1800
         THEN <<Listed("all", host, FALSE), Listed("main", host, TRUE)>> ELSE <<>>)
     \o (IF s >= 1900 THEN <<Listed("shorts", host, FALSE)>> ELSE <<>>),
   policy  |-> IF s >= 900 THEN policy ELSE Unset,
   rules   |-> IF s >= 1600 THEN "mine" ELSE "none",
   myRules |-> "old",
   local   |-> IF s >= 2600 THEN "off" ELSE "absent",
   key     |-> IF s >= 2601 THEN "hardware" ELSE Unset]

\* Before v0.3.0 there was no last_migration.
Stamped(s) == IF s < 300 THEN Absent ELSE s

Init ==
  /\ \/ configFile = Absent /\ stampFile = Absent /\ legacy = FALSE
     \/ \E s \in Stamps, refused \in BOOLEAN, adsOn \in BOOLEAN :
          /\ adsOn \/ s \in 1000 .. 1899
          /\ configFile = InstalledConfig(s, IF refused THEN "disabled"
                                             ELSE IF s < 1300 THEN "prompt"
                                             ELSE "automatic", adsOn)
          /\ stampFile = Stamped(s)
          /\ legacy \in BOOLEAN /\ (legacy => s < 2500)
  /\ entry = FALSE
  /\ process = "down"
  /\ program = Version
  /\ config = DefaultConfig
  /\ firstLaunch = FALSE
  /\ from = 0
  /\ op = 1
  /\ saving = "no"
  /\ origin = [stamp |-> stampFile, config |-> configFile, legacy |-> legacy]
  /\ edited = {}
  /\ missed = 0

-----------------------------------------------------------------------------
(* The effects of the migrations *)

Has(lists, name, host) ==
  \E i \in DOMAIN lists : lists[i].name = name /\ lists[i].host = host

Moved(l, host) == [l EXCEPT !.host = host]

\* The elements of s at the indices in K, in their order.
Kept(s, K) ==
  [i \in 1 .. Cardinality(K) |-> s[CHOOSE k \in K : Cardinality({j \in K : j <= k}) = i]]

\* AddFilterList
Add(c, l) == [c EXCEPT !.lists = Append(@, l)]
AddFails(c, l) == Has(c.lists, l.name, l.host)

\* The last variant of a list decides whether the one list is enabled.
EnabledOf(c, name, hosts, default) ==
  LET variants == {i \in DOMAIN c.lists : c.lists[i].name = name /\ c.lists[i].host \in hosts} IN
  IF variants = {} THEN default ELSE c.lists[Max(variants)].on

\* v0.19.0: every variant of Zen - Ads becomes one list at the top, and
\* YouTube Shorts follows the YouTube list.
ZenLists(c) ==
  LET OldAds(l) == l.name = "ads" /\ l.host \in {"raw", "zen"}
      OldShorts(l) == l.name = "shorts" /\ l.host = "zen"
      IsMain(l) == l.name = "main" /\ l.host = "zen"
      shorts == Listed("shorts", "zen", EnabledOf(c, "shorts", {"zen"}, FALSE))
      others == {i \in DOMAIN c.lists : ~OldAds(c.lists[i]) /\ ~OldShorts(c.lists[i])}
      lists == <<Listed("ads", "zen", EnabledOf(c, "ads", {"raw", "zen"}, TRUE))>>
                 \o Kept(c.lists, others)
      main == {i \in DOMAIN lists : IsMain(lists[i])} IN
  [c EXCEPT !.lists = IF main = {} THEN Append(lists, shorts)
                      ELSE InsertAt(lists, Min(main) + 1, shorts)]

\* v0.21.0
Rehosted(c) ==
  LET Rehost(l) == IF l.host = "zen" THEN Moved(l, "irbis") ELSE l IN
  [c EXCEPT !.lists = [i \in DOMAIN c.lists |-> Rehost(c.lists[i])]]

\* v0.22.0
WithoutStale(c) ==
  [c EXCEPT !.lists = Kept(c.lists, {i \in DOMAIN c.lists : c.lists[i].name # "stale"})]

Sources(lists) == {i \in DOMAIN lists : lists[i].name = "adguard" /\ lists[i].host = "source"}

\* v0.27.0: the first list moved, unless the build is listed as well.
AdGuardBuild(c) ==
  LET sources == Sources(c.lists)
      first == Min(sources)
      lists == IF Has(c.lists, "adguard", "build") \/ sources = {} THEN c.lists
               ELSE [c.lists EXCEPT ![first] = Moved(c.lists[first], "build")] IN
  [c EXCEPT !.lists = Kept(lists, DOMAIN lists \ Sources(lists))]

AdGuardOn(c) ==
  LET sources == Sources(c.lists) IN
  IF sources = {} THEN c ELSE [c EXCEPT !.lists[Min(sources)].on = TRUE]

\* v0.9.0, v0.13.0, v0.16.0, v0.26.0 and v0.26.1
Prompting(c) == [c EXCEPT !.policy = "prompt"]
Automatic(c) == IF c.policy = "prompt" THEN [c EXCEPT !.policy = "automatic"] ELSE c
WithMyRules(c) == [c EXCEPT !.rules = c.myRules]
LocalOn(c) == [c EXCEPT !.local = "on"]
HasKey(c) == c.key # Unset
OnDisk(c) == IF HasKey(c) THEN c ELSE [c EXCEPT !.key = "disk"]

\* The operations of the migrations, in the order of the slice.
Ops ==
  <<[of |-> 300,  do |-> "addShortener"],  [of |-> 600,  do |-> "adGuardOn"],
    [of |-> 900,  do |-> "prompt"],        [of |-> 900,  do |-> "disable"],
    [of |-> 900,  do |-> "enable"],        [of |-> 1000, do |-> "addAds"],
    [of |-> 1300, do |-> "automatic"],     [of |-> 1600, do |-> "rules"],
    [of |-> 1800, do |-> "addAll"],        [of |-> 1800, do |-> "addMain"],
    [of |-> 1900, do |-> "zenLists"],      [of |-> 2100, do |-> "rehost"],
    [of |-> 2200, do |-> "dropStale"],     [of |-> 2600, do |-> "localOn"],
    [of |-> 2500, do |-> "moveEntry"],     [of |-> 2500, do |-> "dropLegacy"],
    [of |-> 2601, do |-> "keyStorage"],    [of |-> 2700, do |-> "adGuardBuild"]>>

AutostartOps == {"disable", "enable", "moveEntry", "dropLegacy"}

NewList(do) ==
  CASE do = "addShortener" -> Listed("shortener", "raw", TRUE)
    [] do = "addAds"       -> Listed("ads", "raw", TRUE)
    [] do = "addAll"       -> Listed("all", "zen", FALSE)
    [] do = "addMain"      -> Listed("main", "zen", FALSE)

Adds == {"addShortener", "addAds", "addAll", "addMain"}
Refused(do, c) == do \in Adds /\ AddFails(c, NewList(do))

\* of the migrations up to v0.19.0, and of those after it
EarlyEffect(do, c) ==
  CASE do \in Adds           -> Add(c, NewList(do))
    [] do = "adGuardOn"      -> AdGuardOn(c)
    [] do = "prompt"         -> Prompting(c)
    [] do = "automatic"      -> Automatic(c)
    [] do = "rules"          -> WithMyRules(c)
    [] do = "zenLists"       -> ZenLists(c)

LateEffect(do, c) ==
  CASE do = "rehost"         -> Rehosted(c)
    [] do = "dropStale"      -> WithoutStale(c)
    [] do = "localOn"        -> LocalOn(c)
    [] do = "keyStorage"     -> OnDisk(c)
    [] do = "adGuardBuild"   -> AdGuardBuild(c)

Late == {"rehost", "dropStale", "localOn", "keyStorage", "adGuardBuild"}
Effect(do, c) == IF do \in Late THEN LateEffect(do, c) ELSE EarlyEffect(do, c)

\* The first operation from i on whose migration is newer than last.
Pending(last, i) ==
  LET due == {j \in i .. Len(Ops) : last < Ops[j].of} IN
  IF due = {} THEN Len(Ops) + 1 ELSE Min(due)

\* The first operation of a later migration: an error ends its migration.
AfterMigration(last, i) ==
  LET due == {j \in i .. Len(Ops) : last < Ops[j].of /\ Ops[j].of # Ops[i].of} IN
  IF due = {} THEN Len(Ops) + 1 ELSE Min(due)

-----------------------------------------------------------------------------
(* New *)

Loaded(c) == IF c.local = "absent" THEN LocalOn(c) ELSE c

\* installed: the version of the program that is launched.
LoadConfig(installed) ==
  /\ process = "down"
  /\ configFile \notin {Absent, Torn}
  /\ config' = Loaded(configFile)
  /\ firstLaunch' = FALSE
  /\ program' = installed
  /\ process' = "starting"
  /\ UNCHANGED <<filesVars, from, op, saving, historyVars>>

CreateConfig(installed) ==
  /\ process = "down"
  /\ configFile = Absent
  /\ configFile' = Torn
  /\ program' = installed
  /\ process' = "creating"
  /\ UNCHANGED <<stampFile, entry, legacy, config, firstLaunch, from, op, saving,
                 historyVars>>

ConfigCreated ==
  /\ process = "creating"
  /\ configFile' = DefaultConfig
  /\ config' = DefaultConfig
  /\ firstLaunch' = TRUE
  /\ process' = "starting"
  /\ UNCHANGED <<stampFile, entry, legacy, program, from, op, saving, historyVars>>

-----------------------------------------------------------------------------
(* RunMigrations *)

\* Faulty: the version is recorded before the migrations ran.
BeginMigrationsRecording ==
  /\ process = "starting"
  /\ firstLaunch \/ stampFile # Torn
  /\ from' = IF firstLaunch THEN program
             ELSE IF stampFile = Absent THEN 0 ELSE stampFile
  /\ op' = Pending(from', 1)
  /\ stampFile' = program
  /\ process' = "migrating"
  /\ UNCHANGED <<configFile, entry, legacy, program, config, firstLaunch, saving,
                 historyVars>>

BeginMigrations ==
  /\ process = "starting"
  /\ firstLaunch \/ stampFile # Torn
  /\ from' = IF firstLaunch THEN program
             ELSE IF stampFile = Absent THEN 0 ELSE stampFile
  /\ op' = Pending(from', 1)
  /\ process' = "migrating"
  /\ UNCHANGED <<filesVars, program, config, firstLaunch, saving, historyVars>>

\* An unreadable version: no migration runs and none is recorded.
MigrationsUnknown ==
  /\ process = "starting"
  /\ ~firstLaunch /\ stampFile = Torn
  /\ process' = "running"
  /\ op' = Len(Ops) + 1
  /\ UNCHANGED <<filesVars, program, config, firstLaunch, from, saving, historyVars>>

Miss == missed < MaxMissed /\ missed' = missed + 1

Migrating == process = "migrating" /\ saving = "no" /\ op <= Len(Ops)

\* update: the callback changes the configuration, then saveLocked runs.
MigrateConfig ==
  /\ Migrating
  /\ Ops[op].do \notin AutostartOps
  /\ ~Refused(Ops[op].do, config)
  /\ config' = Effect(Ops[op].do, config)
  /\ saving' = "truncate"
  /\ UNCHANGED <<filesVars, process, program, firstLaunch, from, op, historyVars>>

\* AddFilterList refuses a URL it has; the error ends the migration, unsaved.
MigrationRefused ==
  /\ Migrating
  /\ Refused(Ops[op].do, config)
  /\ op' = AfterMigration(from, op)
  /\ UNCHANGED <<filesVars, process, program, config, firstLaunch, from, saving,
                 historyVars>>

MigrateAutostart ==
  /\ Migrating
  /\ LET do == Ops[op].do IN
     /\ do \in AutostartOps
     \* v0.9.0 does neither when no entry exists, v0.25.0 when no legacy one
     /\ entry' = CASE do = "disable"   -> FALSE
                   [] do = "enable"    -> TRUE
                   [] do = "moveEntry" -> entry \/ legacy
                   [] OTHER            -> entry
     /\ legacy' = (legacy /\ do # "dropLegacy")
     /\ op' = IF do = "disable" /\ ~entry THEN AfterMigration(from, op)
              ELSE Pending(from, op + 1)
  /\ UNCHANGED <<configFile, stampFile, process, program, config, firstLaunch, from,
                 saving, historyVars>>

\* v0.9.0 gives up at the first error; v0.25.0 removes the legacy entry anyway.
AutostartFails ==
  /\ "autostart" \in Faults
  /\ Migrating
  /\ Ops[op].do \in AutostartOps
  /\ CASE Ops[op].do = "disable"   -> entry
       [] Ops[op].do = "moveEntry" -> legacy /\ ~entry
       [] OTHER                    -> legacy \/ Ops[op].do = "enable"
  /\ op' = IF Ops[op].do = "moveEntry" THEN Pending(from, op + 1)
           ELSE AfterMigration(from, op)
  /\ Miss
  /\ UNCHANGED <<filesVars, process, program, config, firstLaunch, from, saving,
                 origin, edited>>

BeginStamp ==
  /\ process = "migrating" /\ saving = "no" /\ op = Len(Ops) + 1
  /\ stampFile' = Torn
  /\ process' = "stamping"
  /\ UNCHANGED <<configFile, entry, legacy, program, config, firstLaunch, from, op,
                 saving, historyVars>>

Stamp ==
  /\ process = "stamping"
  /\ stampFile' = program
  /\ process' = "running"
  /\ UNCHANGED <<configFile, entry, legacy, program, config, firstLaunch, from, op,
                 saving, historyVars>>

StampFails ==
  /\ "stamp" \in Faults
  /\ \/ process = "migrating" /\ saving = "no" /\ op = Len(Ops) + 1
     \/ process = "stamping"
  /\ process' = "running"
  /\ Miss
  /\ UNCHANGED <<filesVars, program, config, firstLaunch, from, op, saving, origin,
                 edited>>

-----------------------------------------------------------------------------
(* saveLocked, of a migration or of a setter *)

TruncateFile ==
  /\ saving = "truncate"
  /\ configFile' = Torn
  /\ saving' = "write"
  /\ UNCHANGED <<stampFile, entry, legacy, process, program, config, firstLaunch, from,
                 op, historyVars>>

WriteFile ==
  /\ saving = "write"
  /\ configFile' = config
  /\ saving' = "no"
  /\ op' = IF process = "migrating" THEN Pending(from, op + 1) ELSE op
  /\ UNCHANGED <<stampFile, entry, legacy, process, program, config, firstLaunch, from,
                 historyVars>>

\* The setting stays changed in memory.
SaveFails ==
  /\ "save" \in Faults
  /\ saving # "no"
  /\ saving' = "no"
  /\ op' = IF process = "migrating" THEN AfterMigration(from, op) ELSE op
  /\ Miss
  /\ UNCHANGED <<filesVars, process, program, config, firstLaunch, from, origin, edited>>

-----------------------------------------------------------------------------
(* The settings screen, and the end of the process *)

Change(setting, c) ==
  /\ process = "running" /\ saving = "no"
  /\ setting \notin edited       \* bound: each setting is changed once
  /\ c # config
  /\ config' = c
  /\ saving' = "truncate"
  /\ edited' = edited \union {setting}
  /\ UNCHANGED <<filesVars, process, program, firstLaunch, from, op, origin, missed>>

SetUpdatePolicy ==
  \E p \in {"automatic", "disabled"} : Change("policy", [config EXCEPT !.policy = p])
SetRules == Change("rules", [config EXCEPT !.rules = "edited"])
SetLocalResourcesEnabled ==
  \E b \in {"on", "off"} : Change("local", [config EXCEPT !.local = b])

\* The process ends, at any step: a crash, a quit, an error of a later part of
\* the startup (log.Fatalf) or, when starting, the end of a --uninstall-ca run.
EndProcess ==
  /\ process # "down"
  /\ process' = "down"
  /\ saving' = "no"
  /\ from' = 0
  /\ op' = 1
  /\ config' = DefaultConfig
  /\ firstLaunch' = FALSE
  /\ UNCHANGED <<filesVars, program, historyVars>>
=============================================================================
