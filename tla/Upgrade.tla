------------------------------- MODULE Upgrade -------------------------------
(***************************************************************************)
(* How an installation changes over its life: the process of               *)
(* ConfigMigrations is launched from the executable that SelfUpdate        *)
(* replaces, the updater is started after the migrations (commonStartup)   *)
(* and goes by the update policy of the configuration, and the end of the  *)
(* process ends both.                                                      *)
(***************************************************************************)
EXTENDS ConfigMigrations, SelfUpdate

CONSTANT MaxEnds    \* bound: ends of the process

ASSUME EndsAssumption == MaxEnds \in Nat

VARIABLE ends       \* ends of the process so far

vars == <<configVars, updateVars, ends>>

UpgradeInit ==
  /\ Init
  /\ InitUpdate(Version)
  /\ ends = 0

Installation == UNCHANGED <<updateVars, ends>>

\* A launch needs a file at the executable's path.
Launch ==
  /\ exec # NoVersion
  /\ LoadConfig(exec) \/ CreateConfig(exec)
  /\ Installation

Startup ==
  /\ \/ ConfigCreated
     \/ BeginMigrations
     \/ MigrationsUnknown
     \/ MigrateConfig
     \/ MigrationRefused
     \/ MigrateAutostart
     \/ AutostartFails
     \/ BeginStamp
     \/ Stamp
     \/ StampFails
  /\ Installation

Save ==
  /\ TruncateFile \/ WriteFile \/ SaveFails
  /\ Installation

User ==
  /\ SetUpdatePolicy \/ SetRules \/ SetLocalResourcesEnabled
  /\ Installation

Updater ==
  /\ process = "running"
  /\ StartUpdater \/ Update(config.policy, program)
  /\ UNCHANGED <<configVars, ends>>

End ==
  /\ ends < MaxEnds
  /\ EndProcess
  /\ EndUpdater
  /\ ends' = ends + 1

Next == Launch \/ Startup \/ Save \/ User \/ Updater \/ End

Spec == UpgradeInit /\ [][Next]_vars

-----------------------------------------------------------------------------
Configs ==
  [lists   : Seq([name : {"ads", "adguard", "shortener", "stale", "all", "main", "shorts"},
                  host : {"raw", "zen", "irbis", "source", "build"}, on : BOOLEAN]),
   policy  : Policies, rules : {"none", "mine", "old", "edited"},
   myRules : {"none", "old"}, local : {"absent", "on", "off"},
   key     : {Unset, "disk", "hardware"}]

ASSUME FilesAssumption ==
  Absent # Torn /\ \A f \in {Absent, Torn} : f \notin Nat /\ f \notin Configs

\* The type invariant.
TypeOK ==
  /\ configFile \in {Absent, Torn} \/ configFile \in Configs
  /\ stampFile \in {Absent, Torn} \/ stampFile \in Nat
  /\ entry \in BOOLEAN /\ legacy \in BOOLEAN
  /\ process \in {"down", "creating", "starting", "migrating", "stamping", "running"}
  /\ program \in Nat /\ from \in Nat /\ op \in 1 .. Len(Ops) + 1
  /\ config \in Configs
  /\ firstLaunch \in BOOLEAN /\ missed \in 0 .. MaxMissed
  /\ saving \in {"no", "truncate", "write"}
  /\ edited \subseteq Settings
  /\ exec \in {NoVersion, Version, Release} /\ backups \subseteq {Version, Release}
  /\ staging \in 0 .. MaxStaging /\ phase \in Phases
  /\ replaced \in BOOLEAN /\ stranded \in BOOLEAN

\* The configuration that uninterrupted migrations make of c, after v0.19.0 or
\* later: none of the operations on the configuration is refused.
Outcome(c, last) ==
  LET Done(i, d) == IF last < Ops[i].of THEN Effect(Ops[i].do, d) ELSE d IN
  Done(18, Done(17, Done(14, Done(13, Done(12, Loaded(c))))))

\* An upgrade interrupted at any step, however often, and completed by a later
\* start ends in the configuration that one uninterrupted run produces: the
\* migrations from v0.21.0 on can be repeated.  (Those before cannot, see
\* FreshInstallKeepsBuild and the README.)
InterruptedUpgradeConverges ==
  /\ process = "running" /\ saving = "no"
  /\ origin.stamp \in Nat /\ origin.stamp >= 1900
  /\ edited = {} /\ missed = 0
  /\ stampFile # Torn
  => config = Outcome(origin.config, origin.stamp) /\ configFile = config

\* Whichever renames fail and wherever the process ends, a whole executable is
\* left, at its path or as a backup.
ExecutableRecoverable == exec # NoVersion \/ backups # {}

\* The window is told of an update only when the new program lies whole where
\* the updater takes the running program's file to be: at the path a restart
\* launches, except after a rollback that failed.  Then the running program's
\* file is its backup, os.Executable follows it there on Linux, and a later tick
\* installs and announces the release at the backup's path, with nothing at the
\* path that RunPendingRestart launches.
AnnouncedMeansInstalled ==
  phase = "done" => IF stranded THEN Release \in backups ELSE exec = Release

\* README.md says of this fork: "Fresh installs from this fork default to
\* disabled", so that "upstream releases can't overwrite this build": unless
\* the user sets the policy, the installed program stays.
FreshInstallKeepsBuild ==
  origin.config = Absent /\ "policy" \notin edited => exec = Version
=============================================================================
