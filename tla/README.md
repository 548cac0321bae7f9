# A verification of Zen's core in TLA+

Zen is a desktop application that filters web traffic through a local proxy. It
downloads filter lists, compiles them into rules, starts an HTTP proxy that
applies the rules and intercepts TLS with its own certificate authority, serves
local copies of CDN resources, and points the operating system at the proxy by a
PAC file. The backend is Go (`src/internal`), the window is TypeScript
(`src/frontend`) on top of Wails, and what is injected into pages is TypeScript too
(`src/jslibs`). This directory holds TLA+ specifications of its
stateful parts, TLC configurations that check them on small instances, and proofs
for TLAPS.

## Running it

    tlc -workers 2 -config FilterListStore_flights.cfg MCFilterListStore.tla
    tlapm FilterListStore_proofs.tla

and likewise for every other `<Module>_proofs.tla`; `DiskCache_proofs`,
`Upgrade_proofs` and `Window_proofs` take a few minutes each.

A configuration `<Module>_<run>.cfg` belongs to `MC<Module>.tla`, which only gives
the constants small values. `PROJECT.json` lists the runs with their properties,
the source lines of every definition, the hazards and the theorems. Operators
whose comment starts with *Faulty* are plausible bugs: no action uses them;
substituted for the definition that follows them they must break a property, which
shows that the property depends on that code.

## Inventory

For each component: its state, its operations, what it interacts with, what is hard
about it, and what makes it correct. The last column of the table at the end of
this section names the module.

**Filter list store** (`filterliststore`). State: the map `inflight` of URLs being
downloaded, the semaphore `sem` of fetch slots, and per call the stale entry it
holds open, the attempt number, the stream. Operations: `Get` in three modes,
`Read`/`Close` of the reader it returns. Goroutines of one build call it for dozens
of URLs at once, the same URL among them twice when two lists share an include.
Hard: leaders and waiters, cancellation in every phase, a slot handed back for a
sleep, revalidation of an entry that others may replace. Correct when a URL has one
download at a time, no slot or flight is lost, what is served is as recent as its
source claims, and every call ends.

**Disk cache** (`filterliststore/diskcache`). State: the in-memory index under
`entriesMu`, content files, the index file, `promoteMu`, `flushMu`. Operations:
`Load`, `Promote`, `Refresh`, `Flush`, and `loadFromDisk` at start (migration of
files of an older scheme, reconciliation, collection of abandoned entries). Hard:
file operations that are atomic one by one but not together, crashes between them,
purges by the OS. Correct when metadata and bytes belong together and a crash loses
nothing that was in use.

**App lifecycle** (`app`). State: `proxyOn`, `proxyMu`, the latch `stopPending`, the
published abort function of the build in flight, the servers. Operations:
`StartProxy` and `StopProxy`, called from the window, the tray, a launch timer, a
second instance and the quit handler; `RestartApplication`, `SetCAKeyStorage`,
`UninstallCA`. Hard: each phase of a start can fail after earlier ones took effect,
a stop can fail halfway, starts and stops overlap. Correct when nothing is left
running or configured by a failure, and when the window shows what is.

**Filter build** (`app/filter.go`). State: the pass, its fetch mode, the outcome of
every list, a deadline and an abort signal. Hard: a stream that breaks leaves half a
list behind, a deadline that cuts lists off before their cached copies are tried.
Correct when an accepted filter has no list whose stream broke, and every list that a
readable copy could have stood for.

**System proxy** (`sysproxy`). State: the PAC server, `systemProxySet`, the OS
settings. Operations: `Set`, `Clear`. Hard: settings that can be written and not
cleared. Pure part: the PAC file and the excluded hosts.

**Proxy** (`proxy`). State: hosts that turned out not to tolerate interception, open
tunnels. Operations: `Start`, `Stop`, and the request path (HTTP, CONNECT, TLS
interception, WebSocket, retries as a tunnel). Mostly protocol work.

**Filter** (`filter`). `AddURL` fetches a list and its includes, each on its own
goroutine; directives (`!#if`) switch parts off; requests and responses go through
network rules, cosmetic assets and scriptlets. Hard: the include graph (cycles,
depth, duplicates) explored concurrently.

**Rules** (`networkrules`, `ruletree`, `hostmatch`). Stores of rules, filled by
concurrent goroutines and then searched: a prefix tree of patterns with wildcards, lists
of rules without a pattern and of regular expressions, a trie of host names. Hard: a node
that is split under other patterns, exceptions that must match a request and cancel a
rule, slices that no lock guards. Correct when what happens to a request follows from the
rules alone.

**Local resources** (`localcdn`). State: the counters in memory and in the configuration,
the number of records since the last save. Operations: counting a request, saving every
few records and after a stop, a reset from the window. Hard: snapshots that are written
later than they were taken, requests that outlive the proxy. Correct when a stopped proxy has
saved what was counted before, and the window shows what is.

**Configuration** (`config`). One JSON file behind one lock, versioned migrations, setters
that change the memory and then write the file. Hard: failed and interrupted migrations,
writes in place.

**Certificates** (`certstore`, `certgen`, `hwkey`). A CA in two files, in the trust
store and perhaps in hardware; an LRU cache of leaf certificates and a rotating
issuer. Hard: partial failures of installation and removal.

**Self-update** (`selfupdate`). Download, verification, replacement of the executable
by two renames with rollback, and restart.

**Whitelist server** (`filter/whitelistserver`). Inserts an exception rule into the
live rules on a click in the block page. Correct when the rule blocks nothing any more.

**Extended CSS** (`jslibs/extended-css`). An engine per page: it compiles the page's rules
with selectors that no browser knows (`:contains`, `:upward`, ...) into steps, finds the
elements, and keeps its classes on them while the page changes, woken by an observer
through a throttle. Hard: it changes the document that it observes. Correct when a plan
finds what the selector means, and the classes become right after every change.

**Scriptlets** (`jslibs/scriptlets`). Small programs that replace a page's functions or
trap its properties, several of them on one page and each unaware of the others: requests
that are prevented or whose answers are pruned, reads and writes that abort a script,
constants that stand in for values. Hard: two of them on one object, objects used twice,
assignments below a trap. Correct when what a rule names is caught and nothing else
changes.

**The window** (`frontend`). The frame decides which page is mounted, and so who hears an
event. The controls of the settings each keep a copy of a setting, which they show before
or after it is saved; the page of the filter lists fetches after each write while its rows
keep switches of their own; two views show counters and load them after each event; the
introduction comes first. Hard: promises that return after the component has gone, or in
another order. Correct when, with nothing under way, what is shown is what is in force.

**Others**: routing policy, process lookup, tray, autostart, logger, small helpers,
the request log, translations and themes.

Each of `FilterListStore`, `DiskCache`, `AppLifecycle`, `BuildPasses`, `Upgrade`, `Window`,
`PageRequests` and `ExtendedCss` has its theorems in a module of the same name with `_proofs`.

| Component | Module | Extent |
|---|---|---|
| filter list store | `FilterListStore`, `ListService` | all of it |
| disk cache | `DiskCache` | all of it |
| app lifecycle, system proxy manager, server starts and stops, proxy button, introduction | `AppLifecycle` | `StartProxy`, `StopProxy` and what they call; the events and who hears them |
| filter build | `BuildPasses` | the ladder; `AddURL` as an outcome per stream, its includes as streams of their own |
| rule tree | `RuleTree` | `Insert`, `Get` |
| network rules, filter, whitelist server | `NetworkRules`, `Filtering` | parsing of lists at the same time, requests, exceptions, the allowlist |
| configuration, self-update, autostart | `ConfigMigrations`, `SelfUpdate`, `Upgrade` | start, migrations, saves; replacement of the executable |
| extended CSS | `PageElements`, `Selectors`, `ExtendedCss`, `InjectedPage` | plans, steps, the engine; not the text of declarations, not `:upward(selector)` |
| scriptlets | `JsonValues`, `JsonPrune`, `PageRequests`, `PropertyTraps`, `InjectedPage` | those on requests, JSON and properties |
| settings and rules pages | `SettingsControls`, `Window` | every control that writes a setting |
| filter lists page | `FilterListsPage`, `Window` | the custom lists |
| local resources | `Counters`, `Window` | the counters, their saves and views |
| the rest | | planned or left out, see below |

## Modules

### FilterListStore

One goroutine per caller. `pc[c]` is the place in `Get`, `fetch`, `fetchOnce` or the
drain of the returned reader; `call[c]` holds the arguments and the locals;
`inflight` and `sem` are the fields of the same name. A critical section of
`flightMu` or of the cache's `entriesMu` is one step, and so is one file operation,
because others run between them: `Lookup` and `Open` are the two halves of
`Cache.Load`, `CompleteBody` and `InstallEntry` the two halves of `Cache.Promote`.
`finish` is the operator `Finish`, `exitFlight` is `ExitFlight`, which closes the
channel: it moves exactly the waiters of that URL to `woken`.

The content of a list is the number of the version its origin served. Origins move
forward only (`Publish`), an assumption: the store cannot know the age of a body. A
validator (ETag and Last-Modified are one here) is the version it stands for, or 0
when the response had none; a 304 is possible exactly when the version still is the
current one, and may repeat the validator. Body bytes, retry delays, jitter and the
TTL of a list are abstracted: an entry expires whenever it likes (`Expire`), a
backoff ends whenever it likes, a body completes, breaks or is closed (`BreakBody`
covers a read error, a stall, a short or empty body, the size cap, and `Close`). A
context may end at any point of a call (`Cancel`). `DiskFaults` lets every disk
operation fail.

`ListService` is the abstract specification: a call begins, its context may end, it
returns. It says what an answer may be, with no word of flights or slots: content
the server vouched for is at least as recent as the call, a network answer is
vouched for, in `ModeDefault` a stale copy never answers a call whose context ended,
a failure carries no content. `KeepsPromises` is the refinement
`INSTANCE ListService WITH ...`: a call is busy while its `pc` is not idle, and every
internal step is a stutter.

### DiskCache

Workers are goroutines inside `Load`, `cacheDownload` + `Promote`, or `Refresh`.
`promoteMu` and `flushMu` are variables because file operations happen under them.
`file[h]` is the content file of a hash with its generation, whether its bytes are
on the medium, and whether they are whole; `legacy[h]` are files of the older naming
scheme; `index` is the index file. `Crash` may tear what is not synced and forgets
everything in memory, `Restart` is `New` + `loadFromDisk` as a whole: nothing else
runs while it does. `Purge` is the OS or the user removing a content file.
Generations number contents by the moment of their rename; an entry's tag is the
generation its metadata came with. `Refresh` begins with the `Load` of its caller and
sends, or does not, the validators that it saw there: the code writes those of the 304 over
the entry's without looking whether it still is the same entry, and the history variable
`overtaken` has the URLs where it was not. Time is counted in `lastAccessFlushInterval`s,
and `GcAge` stands for `gcMaxAge`, which the code only compares with: 2 intervals
are enough to have an age below, at and above every threshold. `Faults` names the
file operations that may fail.

### AppLifecycle

A call is a goroutine inside `StartProxy` or `StopProxy`; its phases are the phases of the
code between which another goroutine's step matters, or after which a later failure must undo
something. `up` is the set of servers that run, and `engine` the local resource engine.
`SetSystemProxy` is the whole of `Manager.Set` and `ClearSystemProxy` the whole of
`Manager.Clear`: both run under `proxyMu`, so no other step can fall between their parts.
`settings` is what the OS was told; `residue` stands for a `Set` that failed halfway and whose
undo failed too, which the code only logs: it may name Zen, and nothing removes it before the
next `Set` or `Clear` that succeeds. That `proxy` is not in `up` means that nothing listens;
connections that a `CONNECT` has hijacked outlive the listener and are not in the model. The
deferred functions run in their order: the event of the outcome, then the unlock (`Return`).
The window handles events in the order of their emission (Wails delivers them over one
channel), and `shown` is the last event handled; the mapping from event to button state is the
`switch` of `StartStopButton`. `screen` is what the window shows: only the home page and the
last screen of the introduction hold the button that listens, so that an event emitted at
another screen is lost (`missed`).

### BuildPasses

One call of `runBuildPasses` with all streams of a pass at once. A list stands for
one stream, a root list or an include. What a stream may come to in a mode is what
`Get` allows there: a fresh copy is served in every mode without asking the context,
a stale copy before the network in `ModePreferCache` and after it in `ModeDefault`,
nothing but copies in `ModeCacheOnly`. Streams of one pass are distinct URLs here; a
URL that two lists fetch at once is the subject of `FilterListStore`. What `AddURL` makes
of a stream follows its switch of errors: all of the rules; those before a line that is too
long or before the cap on the size, which is no reason for another pass (`cut`); those before
the stream broke (`truncated`); none, for an empty body (`empty`), for a copy that cannot be
read (`unread`), or since `Get` failed (`failed`). Copies are read into memory whole or not
at all, except fresh ones in the first two modes, which may break as a download does.

### ConfigMigrations, SelfUpdate, Upgrade

`ConfigMigrations` is a process from `config.New` to its end: it loads or creates
`config.json`, runs the migrations that are newer than `last_migration`, records the
version, and then saves what the user sets. `Ops` is the slice `migrations`, one
element per write or autostart operation; a migration that adds two lists is two
operations with the same version, so that an error of the first skips the second.
Every file write is two steps, truncation and write, since `os.WriteFile` is. Of the
configuration those settings are kept that a migration rewrites; a list is its name,
the host that serves it, and whether it is enabled. The order of lists matters
(v0.19.0 looks for a neighbour) and is kept. `origin`, `edited` and `missed` are
history: what the installation looked like, what the user has set, how many writes
failed.

`SelfUpdate` is the goroutine of the scheduled checks, from the decision to the announcement;
every file operation of `installExecutable` is a step with a failing variant, deferred
functions run in their order. `stranded` says that a rollback failed: on Linux `os.Executable`
follows the rename, so the next attempt moves the backup, installs the release there and
announces it. A backup's name holds its time; it is the version in it that counts here.

The migrations on the configuration are functions of it (`Effect`), all of them written with
sets, functions and sequences and without recursion, so that the proofs can use them.
`EarlyEffect` has those up to v0.19.0 and `LateEffect` those after: only the late ones may be
repeated, and on a configuration that a program since v0.19.0 has left none of them is
refused. `Outcome` is what one uninterrupted run of them makes of a configuration. The reset of the
routing that v0.21.0 does beside its work on the lists is left out: no other migration and no
property reads it.
`FilesAssumption` says that `Absent` and `Torn` are neither a version nor a configuration.

`Upgrade` composes the two: a process is launched from the executable that the updater
replaces, the updater is started after the migrations and reads the update policy that
migrations and the user write, and a process may end anywhere, which ends both.

### RuleTree, NetworkRules, Filtering

`RuleTree` is the prefix tree as a value: `Insert` and `Get` with the helpers they have in
the code, `TraversePrefix` included. `Means` is the reference definition, from the comments
on the tokens: how far an address may have been read after each token of a pattern.
Addresses are sequences of characters, over small alphabets; the character `*` does not
occur in them, because as a token it is the wildcard. `NetworkRules` has the stores, the
modifiers that decide whether a rule matches, the exceptions, and `ModifyReq`. Parsed rules
are records; the text of a rule is only parsed in the code, so that a rule stands for its
text too (`seenRules`, and `@@` before it). Left out: the order among rules without a
pattern, pings and WebSockets in the content type, regular expressions as texts (they are
the set of pages they match), what actions do to headers and bodies (an action is a name,
which decides that a rule does not block), and rules that do not parse. A line of a hosts file is
the rule `||host^$document` that the code makes of it.

`Filtering` is the state machine. A list is parsed by its goroutine; an insertion begins,
reading what it will extend, and ends, writing it back, and `insertMu` excludes two
insertions into one tree. When every list is parsed, tabs navigate; `HandleRequest` blocks,
redirects or passes; a block page offers to allow its rule, and a click inserts the
exception while others navigate. A search of a tree that is being changed may find any part
of what matches, so that the properties speak of requests decided in between. The user
follows one allow link at a time.

Three properties: `PatternsDecide` compares the tree with `Means` after each insertion,
`ListsDecide` compares the verdict on a request with what the rules of all lists and the
user's exceptions say of it one by one, `AllowedNeverBlocks` is the promise of the allow
link. `PatternsDecide` demands a match in full for patterns that end in a character; see
"Met while modelling" for the others.

These modules use recursive operators and are for TLC only.

### Selectors, ExtendedCss, JsonPrune, PageRequests, PropertyTraps, InjectedPage

What is injected into a page. The parts share no state; `InjectedPage` is a page with one
of them, so that one run shows all. All but `PageElements`, `PageRequests` and `ExtendedCss`
use recursive operators and are for TLC only.

`PageElements` has the documents (a tree with classes and words per element); `Subtree` is the
least set that is closed below, which a proof can use where a walk could not. `Selectors` has
the compiler from a list of selectors to steps, the steps, and `Agrees`, which compares what
the steps find with `Means`, what a selector means read from its last item and without steps.
Left out of the comparison are the selectors that are not `Canonical`: those with a run of
plain CSS right behind an extended pseudo-class or in several parts below one, where the
engine asks for descendants and finds more, or finds less. A selector is a sequence of items;
a class, a text or an attribute stands for the simple selectors of CSS. What the browser
evaluates itself (raw runs) is evaluated by the reference, cut to what the browser knows.
`ExtendedCss` is the engine. How a rule's text is parsed and what it finds are its constants
`Unparsable`, `ParsedList` and `Found`, since `Selectors` is recursive; the run gives them the
operators of `Selectors`, and `SelectorsAssumption` of `InjectedPage` compares them on its
rules and documents. The engine is only right if what a rule finds depends on the page alone
(`RulesSeeThePage`): not on the engine's own classes, and not on elements outside the
document. The run checks this of `SearchDocument` in every state of the engine, as the second
half of `SelectorsMean`. In the module, `Throttle` is the function of that name with its
timer, `pending` are records of the observer whose callback has not run, `applied` are the
engine's books. The page moves, rewrites and classes its elements between runs. An observer is
not told of text that changes in place, nor of what lies outside the document (`unseen`); a
page that sets `className` as a whole removes the engine's classes, which the engine does not
notice (`overwritten`).

`JsonValues` has the values of JSON, and `JsonPrune` the pruning of one by a path, with the
places that a path names as a reference. What a request needs to know of that is one operator,
so that `PageRequests` takes it as a constant, `Pruned`, with two assumptions: pruning twice
removes no more than pruning once, and leaves an empty object as it is. `InjectedPage` assumes
that `Pruned` is the `Prune` of `JsonPrune` on every body of its run, so that TLC checks the
assumptions of the one about the definition of the other. `PageRequests` is a page with the
scriptlets on requests in either order of installation: `XMLHttpRequest` objects of the page,
which may be opened again, and the substitutes of `json-prune-xhr-response`; `pinned` are
properties defined on an object, which never change again: to define others is an error, after
which no event follows (`NoEvent`). The history variables count, per object, its sends
(`asked`), the ends it heard (`heard`) and the sends of which it can hear none (`lost`).
Headers, the response types other than the default, and random texts are left out.

`PropertyTraps` is a heap of a few objects with accessors and proxies:
one or two scriptlets are installed on a page, then its scripts assign along the paths;
`plain` is the same page without scriptlets, against which `Undisturbed` compares every
read. Conditions on the stack or on the inline script are the set of scriptlets that they
hold for at that moment.

### SettingsControls, FilterListsPage, Counters, Window

The window over the backend it calls. A binding is a promise: a call is made, performed by
the backend, and returned; a handler goes on after its `await` with what it closed over.
The configuration's lock is taken in the order of the calls, except for autostart and the
key storage, which do more than take it. A failed save leaves the memory changed, as
`Config.update` does.

`SettingsControls` has one control per behaviour, of twelve: those of text with a debounce
of half a second, those that show a value when it is saved, the one that shows it before
(`AppRoutingSettings`) and the one behind a dialog. The user acts, leaves and returns, the
proxy starts and stops. What is typed is saved by `Saved`: the blanks around it are trimmed,
and `PortInput`, which does not look at what `NumericInput` gives it, saves what is no number
as 0. The backend may fail to read the autostart entry, and may have made it when `Enable`
fails. `muddled` marks what a control cannot know: a save that failed and is
in force, an edit before the setting was read, an answer that was overtaken; `unread` that
the first question of this mounting has failed.
`FilterListsPage` has the rows, the fetches, and the four writes. `confused` marks what it
lists in the comment on `ListsTellTruth`. The dialog of an import is taken to be modal: calls
made after it wait until it is closed. `Counters` has the engine's counters, the saves with their
snapshots, and the two views; requests over hijacked connections count on after the proxy has
stopped. `Window` is one of the three at a time: they use different
parts of the backend.

## Runs

| Run | Module | Bounds | Shows |
|---|---|---|---|
| `flights` | FilterListStore | 2 callers with 2 calls each, 1 URL, 1 slot, 2 attempts, 2 versions, modes default and preferCache, disk faults | type, flights, slots, waiters, validators, content order, refinement of `ListService`, every `Get` ends |
| `crashes` | DiskCache | 2 goroutines, 1 URL, 1 crash; promotions, collections, and reads and writes of the index may fail | metadata and content, order, index, reachability, restart, every operation ends |
| `calls` | AppLifecycle | 3 goroutines, 3 calls | nothing left behind but the residue of a failed undo, the window, every call returns |
| `restart` | AppLifecycle | 2 goroutines, 3 calls | finding 1 |
| `ladder` | BuildPasses | 3 lists | accepted filter, the ladder ends |
| `lives` | Upgrade | fresh, or upgraded from v0.0, v0.9, v0.18, v0.21 or v0.25; 2 ends of the process, 1 failed write, every rename may fail | interrupted upgrades, the executable, what is announced |
| `fresh` | Upgrade | fresh, 2 ends of the process | finding 2 |
| `rules` | Filtering | 2 lists; each 3 of 16 patterns, each 3 of 11 rules with modifiers, each of these in both lists; 2 tabs, 3 kinds of requests | patterns, verdicts, the allow link |
| `parse` | Filtering | 2 lists with one rule without a pattern each | finding 3 |
| `page` | InjectedPage | 1 request object, 3 requests; 6 pages with 1 or 2 of the trapping scriptlets, 2 assignments; every path of up to 3 segments on 312 values; 75 selectors on every tree of 3 elements; an engine with 4 rules and 2 changes | requests, traps, pruning, what selectors mean and see, the engine |
| `window` | Window | 5 acts on a control, 4 on one list, 5 events of the counters, a save every 2 records | what the window shows and what is saved |
| `libraries` | Window | 2 libraries, 5 acts | finding 4 |

Why the bounds are enough. Two callers with two calls each of one URL give a leader and a
waiter that leads next, and a flight after one that failed; callers of different URLs meet
only at the semaphore, and with one slot, the tightest, a retry competes for it already. Two
attempts give one backoff; a third repeats it. Two versions make "older" and "newer"
different. `preferCache` serves as `cacheOnly` does and fetches as `default` without a copy
does. The locks of the disk cache serialise two workers against each other; a third only
queues, and a second URL only adds an entry to the index. Three goroutines in `calls` give a
build in flight, a start queued behind it and a stop that overtakes it, or two overlapping
stops; three calls are a start, a stop that fails, and another of either. Three lists let one
be truncated, one fail and one be whole in the same pass. Two goroutines that parse and a
tree of three patterns give every order of insertion, a split, a split of what was split,
and a node below one that is passed through; three rules are a rule, its exception and one
that stays. No two rules of `rules` without a pattern, or of two regular expressions, lie in
one store: what then happens is finding 3. The five versions of `lives` lie before and after
each migration that cannot be repeated; two ends of the process interrupt an upgrade and its
repetition, or an upgrade and a later update.

In `page`, three requests are one that matches and two more of the same object or of
`fetch`; two scriptlets are one over the other in each kind; three elements below `<html>`
and two combinators are a parent with siblings on either side and every pair of ways to go.
Two changes are one before and one after a run, or two within the throttle's delay. In
`window`, five acts are a mount, an edit, an unmount, a mount and an edit, with the proxy
started in place of one of them; four clicks are a removal, an addition and a toggle with a
visit elsewhere.

`lives` and `fresh` switch the deadlock check off: with a torn `config.json`, or no
executable at its path, no process starts any more, and the system does stop. `page`,
`window` and `libraries` do too: when the page or the user has used its acts and nothing is
under way, nothing happens.

Fairness. A goroutine that can go on does (weak fairness of its steps): requests have timeouts,
bodies a stall watchdog, sleeps timers, the build a deadline, `Shutdown` ten seconds. Senders on
a full Go channel are queued in order and a Go mutex hands itself over to a waiter it starves,
which justifies strong fairness of acquiring a slot and of locking. In a page, timers fire,
requests end in an answer or an error, and microtasks run (`RequestsFairness`, `EngineFairness`:
weak fairness of the event loop as a whole, for the engine with the condition under which it is
enabled written out). In the window, timers fire, and a call of the backend returns
(`ControlsFairness`). No fairness is assumed of the environment: nothing has to be published,
expire, be cancelled or answered with success; the user and the page's scripts may stop at any
time.

What `crashes` leaves out. Migrations of legacy files do not fail in the run: with one that
does, `TagNeverAhead` does not hold: the legacy file stays, a newer response is promoted, its
content is purged by the OS, and at the next start the legacy file is migrated under the
newer response's validators. `RestartKeepsContent` counts the age of a content from the last
use whose access time a write of the index has recorded: what could not be written is lost
at a crash.

## Findings

1. *A start that starts nothing* (`restart`). `StopProxy` closes the proxy's listener
   and then returns early when `Shutdown` times out on a request in flight, with
   `proxyOn` still true. The window shows "off" after `stopError`, so it offers a
   start; `StartProxy` returns nil because `proxyOn` is true, logs "proxy started
   successfully", and emits no event.
2. *A fresh install that is migrated* (`fresh`). The README says fresh installs of this
   fork default to disabled updates. `config.json` is written before `last_migration`; a
   first process that ends in between makes the next one run every migration on the fresh
   configuration, and two of them enable updates.
3. *A rule that is lost* (`parse`). Lists are parsed at the same time into one store.
   The tree has a mutex; the slices of rules without a pattern and of regular expressions
   are extended by `s.generic = append(s.generic, v)` without one.
4. *One library that stands for the others* (`libraries`). `SetLocalResourcesLibraryEnabled`
   "enables or disables a single library". An empty list means all of them, and is what a
   configuration starts with: disabling one then changes nothing, enabling one disables all
   the others, and disabling the last enabled one enables all. The window changes only the
   switch that was clicked.

Met while modelling, and not a run of its own:

- The comment on `StopProxy` (app.go:329-330) says it aborts a start in flight. Between a
  start's check of `stopPending` and its `setBuildAbort` there is no build to abort and the
  latch was already read: the stop waits for the whole build and then tears everything down.
- A proxy that is started from the tray, by the launch timer (app.go:145-151) or by a second
  instance while the introduction shows one of its first screens emits events that nothing
  listens to. The window then shows off; pressing the button calls a start that returns at
  once, without an event.
- A migration that is repeated after an interruption overwrites what the user has set
  since the first time (migrations.go:509), and one that fails to write the new autostart
  entry has removed the old one (migrations.go:408).
- A `Refresh` that meets an entry which another download has replaced since its `Load` writes
  the validators of the 304 into it (cache.go:311-316). The store keeps this from happening to
  one URL by its flights, and so does a server that does not confirm what it has replaced.
- Failed lists are skipped because "refetching cannot help a list with no network and no
  cache" (app/filter.go:104). A list whose server answers with an empty body fails too, after
  `Get` has returned and given its copy up (filter/filter.go:280-285): the filter is accepted
  without it, at every start until the server recovers, though a failed request would have
  been answered with the copy.
- `Flush` is to be called "before shutting down the proxy so counters are not lost"
  (localcdn/engine.go:199). `StopProxy` calls it after `proxy.Stop` (app.go:371-375), which
  leaves hijacked connections alone (the comment at proxy.go:168), and every HTTPS connection
  is one: what they count afterwards is saved by the next engine, or lost.
- A list with a line that is too long, or above the cap on the size, is accepted with the
  rules before that place (filter/filter.go:270-290).
- A `Set` of the system proxy that fails, and whose undo fails too, leaves settings that may
  name Zen; it is logged, and since `systemProxySet` is false a stop does not try again
  (sysproxy/manager.go:82-92).
- After an update whose rollback failed, the program's path is empty. On Linux the next check
  installs the release at the path of the backup and announces it, and the restart that the
  window then offers launches `os.Args[0]`, where nothing lies (app.go:640-660).
- `AutostartSwitch` reads its setting without a `catch` (AutostartSwitch/index.tsx:15-20): if
  that fails, it is disabled until the page is left and entered again. An `Enable` that fails
  after it has created the entry leaves it, while the switch shows off
  (autostart_linux.go:76-89, autostart_darwin.go:99-112).
- A port field whose text is no number saves port 0 (PortInput.tsx:46-49); a text with blanks
  around it is saved without them, and shown with them until the next mount.
- An `XMLHttpRequest` that is used again after prevent-xhr or json-prune-xhr-response has
  answered for it may hear of no end: `Object.defineProperties` throws in a timer or a
  listener when the new answer differs from the one it holds (prevent-xhr.ts:111,
  json-prune-xhr-response.ts:152).
- `Config.update` does not restore the memory when the file cannot be written: a control
  that rolls back then shows what is not in force.
- `ResetLocalResourcesStats` zeroes the total since the installation in the configuration,
  although "ResetStats resets the since-reset counters" (manager.go:105) and `Stats.Reset`
  keeps it in memory: the total is lost at a restart unless something is counted and saved
  in between. A save whose snapshot precedes a reset undoes the reset until the next save.
- `RemoveFilterList` shifts in place the slice that `GetFilterLists` has handed out
  (config.go:303, 332).
- The field of the user's rules accepts text while the rules are still being read, which
  then replace it; what is typed within half a second of leaving a page is dropped; a
  pending save fires after the proxy was started.
- `UninstallCA` has no guard on a running proxy (app.go:406), `SetCAKeyStorage` has
  (app.go:430).
- An `XMLHttpRequest` that prevent-xhr has matched once is prevented for every later
  address too (prevent-xhr.ts:40), which a page that reuses objects meets.
- A required path of json-prune is described as one of those that must be present
  (jsonPrune.ts:9); one of them suffices.
- A second scriptlet on a path whose first object does not exist yet gives up without a
  word when the first scriptlet has trapped it, and one that is installed over a trap that
  aborts throws at its installation.
- A page that sets `className` loses the engine's class for good: the engine compares with
  its own books.
- The comment on `filterliststore.Get` says it errors "only when the network cannot
  deliver the list and no cached copy of it exists". A caller that looks into the cache
  before another's promotion, and enters a flight after the other has left it, fetches
  without a fallback and without looking again.
- The tree forbids `Insert` during `Get` (ruletree.go:15); the allowlist server inserts
  while the proxy searches.
- At the end of an address, a pattern that ends in special tokens may not match although
  the comments on the tokens say so: `a*|` and `a^|` do not match the address that `a`
  ends. Whether `a*^` matches `ab` depends on whether another pattern has split its node
  after `a*`.

Hazards without a property: the start after `BeforeClose`, the certificate store, the
include graph (all in the plan), and the torn `config.json`, which no later start
survives and nothing promises to.

## Proofs

Each theorem is about the specification that the runs check, and holds for every value of
the constants that the named assumptions of its module allow: sets whose members are counted
are finite, bounds are natural numbers, and `NoCaller`, `NoCall` and `NoWorker` are not members
of the sets they stand beside. `PageRequests_proofs` is about `RequestsSpec`, a page with the
scriptlets on requests alone, which is what a behaviour of `InjectedPage` is that has these;
`ExtendedCss_proofs` is about `EngineSpec`, a page with the engine alone, in the same way.

| Module | Theorem | States |
|---|---|---|
| `FilterListStore_proofs` | `TypeCorrect`, `FlightsOwned`, `SlotsAccounted`, `NobodyForgotten` | `TypeOK`, `FlightOwnership`, `SlotAccounting`, `NoLostWakeup` |
| | `ValidatorsHold`, `ContentForwardOnly` | `ValidatorsMatchContent`, `ContentNeverOlder` |
| | `GetHonest` | `KeepsPromises`: the store implements `ListService` |
| `DiskCache_proofs` | `TypeCorrect`, `PairsKept`, `ContentFound`, `IndexKeepsUp` | `TypeOK`, `MetadataMatchesContent`, `ContentReachable`, `IndexUpToDate` |
| | `RestartsKeepContent` | `RestartKeepsContent` |
| | `TagsNeverAhead` | `TagNeverAhead`, if migrations do not fail |
| `AppLifecycle_proofs` | `TypeCorrect`, `NothingLeftBehind`, `WindowTellsOutcome` | `TypeOK`, `OffMeansDown`, `WindowCatchesUp` |
| `BuildPasses_proofs` | `TypeCorrect`, `NoBrokenStreams`, `CopiesServed` | `TypeOK`, `AcceptedNotTruncated`, `CachedListsServed` |
| `Upgrade_proofs` | `ExecutableSurvives`, `AnnouncedIsInstalled` | `ExecutableRecoverable`, `AnnouncedMeansInstalled` |
| | `UpgradeConverges` | `InterruptedUpgradeConverges` |
| `Window_proofs` | `CountersAreShown`, `CountersAreSaved` | `CountersCatchUp`, `CountersSaved` |
| | `ListsAreTrue`, `ControlsAreTrue` | `ListsTellTruth`, `ControlsTellTruth` |
| `PageRequests_proofs` | `NothingPreventedIsSent`, `AnswersArePruned` | `PreventedNeverSent`, `PrunedContent` |
| `ExtendedCss_proofs` | `QuietIsRight` | `QuietMeansRight`, if `RulesSeeThePage` always holds |

In each module a lemma says that the inductive invariant `IInv` (`CountersInv`, `PageInv` and
`ControlsInv` in `Window_proofs`, `Converging` beside it in `Upgrade_proofs`) holds at first and
after every step, with a step per action, and the theorems follow from it. What each invariant
adds to the properties, and why:

**Flights and slots** (`FilterListStore_proofs`). `sem - 1` stays a natural number only
because the caller that gives a slot back is counted in `SlotAccounting`; that the count is
right after a caller moves needs the finiteness of the holders and the lemma `Move` on
cardinalities; that `exitFlight` removes one's own flight, and so keeps `NoLostWakeup` true
of the callers of other URLs, needs `FlightOwnership`; and that `attempt` stays within its
type needs `BackoffBounded`: a caller that sleeps has attempts left.

**Versions** (`FilterListStore_proofs`). For one URL, validator <= content on disk <= version of
the server holds at any time (`CacheCurrent`), and what a caller has read of them lags
behind (`CallCurrent`). The body that a leader streams is at least as new as the content on
disk, because nobody else can promote while it holds the flight: this is where freshness
needs `FlightOwnership`. The refinement has a lemma
per action of the store: a call that begins, a context that ends and an answer are the steps
of `ListService` of that name, every other step is a stutter.

**Bytes and metadata** (`DiskCache_proofs`). `Locked` says where the mutexes are held,
`Unique` that the identity a promotion is about to use is known to nobody, without which
`Load` could drop an entry that it has not looked up. `Budget` counts the downloads that
wait for a number, for the type of the counter alone. `Pairing` has the properties, and what a
worker that is about to drop an entry (`DropJustified`) or that asks a server (`Asked`) has
seen. `Saved` is the argument
about the index file: either a flush is still to come, or the snapshot under way is up to
date, or the file is, unless its last write failed; it needs `Locked`, since snapshots may not
overtake each other. `AgesKept` says that what is recorded is no older than the last use
that was recorded, from which `RestartsKeepContent` follows: every start that collects
a content has read an age from the index. `TagsNeverAhead` has an invariant of its own
(`Behind`, `FirstStart`), where the hypothesis is needed.

**Starts and stops** (`AppLifecycle_proofs`). `Machine` says for each phase which servers run
and what the OS was told; a phase is only ever in progress for the call that holds
`proxyMu`. `Tells` is about the window: with the mutex free, the last event that is still to
be handled tells the outcome, or a stop waits for the mutex that will emit one. Only the
stop that aborted a start may leave the window in the dark.

**The ladder** (`BuildPasses_proofs`). The last pass uses no network (`LastPassOffline`), and
there a list with a copy that can be read does not fail (`OfflineServesCopies`); in the others
`Get` fails on it only because the context has ended (`CutOffOnly`), which is when the ladder
goes on. A copy that cannot be read and an empty body are outcomes of their own, which the
properties name.

**The executable** (`Upgrade_proofs`). The invariant names where the whole executable is in
each phase of the replacement (`Moving`, `Installed`, `Announcing`) and adds `Updating`: the
updater only runs in a running process, and past the comparison of versions the release is
newer than the running program. Without that, dropping the backup of the program could drop
the only copy of the release. Migrations and saves touch none of this, which is a step of
the proof per action and not an assumption.

**Upgrades** (`Upgrade_proofs`). `Rest(s, i, d)` is what the late operations from index `i` on
make of a configuration `d` when the stamp is `s`. `Left(origin, i, d)` says that these lead from
`d` to the outcome, and that the due ones before `i` have nothing left to do on `d`
(`Settled`). `Converging` then says for each place of a process what is left to do: on the
file everything, because a start repeats all of it (`FileLeft`); in memory what comes from
`op` on (`Position`); and a new stamp is only ever left beside the outcome (`StampLeft`). A
step needs that the operation it performs is the one that `Rest` performs next; an interruption
needs `RestAgain`, that beginning again leads to the same, which holds because each late operation
does nothing on what it has settled, and does not unsettle what an earlier one has
(`OpRepeats`, by cases over the five of them). Two filter the lists, so that the lemmas on
`Kept` (what is in it, and that keeping everything changes nothing) carry much of the weight.
A torn `config.json` satisfies the invariant because no process starts from it, a torn stamp
because the property excludes it. The property is about installations of v0.19.0 or later whose
user has changed nothing and whose writes did not fail; `Uneventful` is exactly that.

**The window** (`Window_proofs`). One invariant per part, all of the form *what is shown is
right, or something under way will make it right*. For the counters (`Tracked`): an event or a
delay that is still to come starts a load, or the last load of those under way, when answered,
has brought the counters as they are; `LastSave` is the same of the save after a stop, whose
snapshot has at least what was counted by then. For the lists: `Ordered` (writes are done in
turn), `EarlierWrites` (this visit fetches after what an earlier one has still to write),
`Fetched` (nothing is being fetched and the page is right, or the newest fetch will be, or a
write that was done will start one), `Listed` and `RowsRight` (a row stands where its list
does, or has one switch under way that decides). For the controls: `Turns` is the lock of the
configuration, and `Truthful` has a disjunct per way in which a control can be on its way to
the truth: its first read (`Getting`), which may have failed for good (`Unanswered`), a
debounced save (`Saving`), nothing (`Steady`), a switch that waits for the answer
(`Switched`). `ControlsTellTruth` is what remains of the disjunction when nothing is under
way.

**Requests of a page** (`PageRequests_proofs`). `Marked` is the invariant that a reused object
is judged by: an object that may send to an address that is prevented has the mark of
prevent-xhr, whatever it was opened for before, and so has one from whose arguments json-prune
would open a substitute. `AllClean` says that every property ever defined on an object holds
what has nothing left to remove, because such a property does not change when the object is
used again.

**The engine of extended CSS** (`ExtendedCss_proofs`). Two invariants side by side. `Worn`:
the elements have, of the engine's classes, what the engine's books say; a run compares with
its books and not with the elements, so that this is what makes a comparison right. `Fresh`:
while the engine runs, its books say what the rules give, unless the observer has records, the
timer is set or the page has changed what no observer is told. A change that leaves no record
for another reason is one outside of the document: the lemmas on `Subtree` show that it leaves
the page's side (`PageSide`) as it was, and `RulesSeeThePage` that the rules then find the
same. The hypothesis is needed: a rule that asked for a property that the engine sets would
find its own effects.

Only model-checked:

- Liveness (`GetTerminates`, `OperationsFinish`, `CallsReturn`, `BuildReturns`,
  `EverySendAnswered`, `EngineSettles`, `ControlsSettle`): fairness and ENABLED are beyond the
  prover.
- `PatternsDecide`, `ListsDecide`, `AllowedNeverBlocks`, `SelectorsMean` (with
  `RulesSeeThePage`, the hypothesis of `QuietIsRight`), `PrunesWhatIsNamed`, `ChainTrapped`,
  `Undisturbed`: what is computed by recursion over trees, selectors, values and heaps is out
  of the prover's reach. So is `PrunedAssumption` for the pruning of json-prune, which TLC
  evaluates for the bodies of `page`.

## Plan

Proofs: every invariant and action property of the runs that the prover can reach has its
theorem. What is left to prove comes with the models below, beside the component that each
extends: with 1. in `AppLifecycle_proofs`, that a quit leaves nothing behind either.

Models, each composed with a run there is rather than run by itself:

1. `AppLifecycle`, extended by the quit (`BeforeClose`, restart) and by the certificate
   store: `CertStore` (Init, UninstallCA, DiscardKey, key storage) composed with starts
   and stops, because `SetCAKeyStorage` relies on `proxyMu` and `UninstallCA` does not.
2. `ListIncludes`: `AddURL` with its include graph, the visited set, the depth limit and
   the slots its goroutines hold; against the abstract "every reachable list once".
3. The remaining scriptlets, beside `PropertyTraps`: timers and listeners, `window.open`,
   storage; `:upward(selector)` in `Selectors`.
4. Pure algorithms against reference definitions over bounded inputs: `HostMatch`, what
   rules do to responses (`ModifyRes`), the `!#if` directives, the LRU cache and
   the issuer of `certgen`, `routing`, the PAC decision against `IsExcludedHost`.
5. `ProxyTunnels`: the CONNECT path with its fall back to tunnelling.

## Not modelled, and why

Text: parsing of rules and of scriptlet arguments, declarations of `:style()`, PAC and CSP
rendering, HTML rewriting (long code whose states are strings; unit tests serve it better).
Platform calls: trust stores, registry, key stores, process tables, tray. Presentation: the
request log, translations, themes, and buttons that call one binding and show its error.
Generated bindings (`wailsjs`), the script that uploads a release manifest. TLS and HTTP
themselves. Vendored JavaScript libraries and embedded resources.
