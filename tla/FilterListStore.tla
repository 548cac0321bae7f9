--------------------------- MODULE FilterListStore ---------------------------
(***************************************************************************)
(* internal/filterliststore: concurrent Get calls that read filter lists   *)
(* through a disk cache and the network.                                   *)
(*                                                                         *)
(* Every caller is one goroutine inside Get and, when Get handed it a      *)
(* network reader, inside the drain of that reader.  The content of a list *)
(* is a version number: the server of a URL only ever moves to the next    *)
(* one, and a validator (ETag, Last-Modified) is the version it stands     *)
(* for, 0 when the response carried none.                                  *)
(*                                                                         *)
(* The disk cache is reduced to what Get can observe of it: the metadata   *)
(* that Load copies under a lock and the content file that it opens after  *)
(* releasing it, Promote's rename and its later index update, and Refresh. *)
(* Persistence, crashes and collection are the subject of DiskCache.       *)
(***************************************************************************)
EXTENDS Integers, FiniteSets

CONSTANTS
  Urls,         \* the URLs of filter lists
  Callers,      \* the goroutines that call Get
  NoCaller,     \* "no flight" in the inflight map
  Modes,        \* the fetch modes the callers use
  Slots,        \* capacity of the semaphore, fetchConcurrency
  MaxAttempts,  \* len(retryDelays) + 1
  MaxVersion,   \* bound: versions a server publishes
  MaxGets,      \* bound: calls of Get per caller
  DiskFaults    \* whether reads and writes of the cache directory may fail

ASSUME UrlsAssumption == Urls # {}
ASSUME ModesAssumption == Modes \subseteq {"default", "preferCache", "cacheOnly"}
ASSUME SlotsAssumption == Slots \in Nat \ {0}
ASSUME AttemptsAssumption == MaxAttempts \in Nat \ {0}
ASSUME VersionAssumption == MaxVersion \in Nat \ {0}
ASSUME GetsAssumption == MaxGets \in Nat
ASSUME CallersAssumption == IsFiniteSet(Callers) /\ NoCaller \notin Callers
ASSUME DiskFaultsAssumption == DiskFaults \in BOOLEAN

VARIABLES
  server,     \* server[u]: version the origin of u serves
  entry,      \* entry[u]: the in-memory index entry of u
  file,       \* file[u]: version in u's content file, 0 when there is none
  inflight,   \* inflight[u]: the caller whose flight u is in, or NoCaller
  sem,        \* number of tokens in the semaphore channel
  pc,         \* where each caller stands
  call,       \* arguments and locals of each caller's Get, NoCall when idle
  answer,     \* outcome of the last Get and of the drain of its reader
  gets        \* calls of Get made so far

vars == <<server, entry, file, inflight, sem, pc, call, answer, gets>>

-----------------------------------------------------------------------------
Versions == 0 .. MaxVersion
FetchModes == {"default", "preferCache", "cacheOnly"}
Sources == {"none", "error", "broken", "network", "cache", "stale"}

Entries == [live : BOOLEAN, tag : Versions, fresh : BOOLEAN]
NoEntry == [live |-> FALSE, tag |-> 0, fresh |-> FALSE]

\* A body or a held file together with the validator it goes by.
Contents == [ver : Versions, tag : Versions]
NoContent == [ver |-> 0, tag |-> 0]

\* One Get: its arguments, whether its context has ended, the metadata Load
\* copied, the stale entry held open (NoContent is a nil staleEntry), the
\* number of the fetch attempt, the response being streamed, and, as history,
\* the version the server had when the call began.
Calls == [url : Urls, mode : FetchModes, ended : BOOLEAN, meta : Entries,
          stale : Contents, attempt : 1 .. MaxAttempts, got : Contents,
          low : Versions]
NewCall(u, m, v) ==
  [url |-> u, mode |-> m, ended |-> FALSE, meta |-> NoEntry,
   stale |-> NoContent, attempt |-> 1, got |-> NoContent, low |-> v]
NoCall == NewCall(CHOOSE u \in Urls : TRUE, "default", 0)

\* confirmed: the server vouched for the content during this very call.
Answers == [src : Sources, ver : Versions, confirmed : BOOLEAN]
Failure(src) == [src |-> src, ver |-> 0, confirmed |-> FALSE]
Served(src, v, confirmed) == [src |-> src, ver |-> v, confirmed |-> confirmed]

PCs == {"idle", "lookup", "open", "enter", "wait", "woken", "acquire",
        "request", "refreshed", "backoff", "failed", "fallback",
        "stream", "install", "installed"}

\* The states in which a caller owns its URL's flight, and a fetch slot.
Leading == {"acquire", "request", "refreshed", "backoff", "failed",
            "stream", "install", "installed"}
Holding == Leading \ {"acquire", "backoff"}

Init ==
  /\ server = [u \in Urls |-> 1]
  \* an earlier session may have left an entry, with or without validators
  /\ entry \in [Urls -> {NoEntry} \cup
                         [live : {TRUE}, tag : {0, 1}, fresh : BOOLEAN]]
  /\ file = [u \in Urls |-> IF entry[u].live THEN 1 ELSE 0]
  /\ inflight = [u \in Urls |-> NoCaller]
  /\ sem = 0
  /\ pc = [c \in Callers |-> "idle"]
  /\ call = [c \in Callers |-> NoCall]
  /\ answer = [c \in Callers |-> Failure("none")]
  /\ gets = [c \in Callers |-> 0]

-----------------------------------------------------------------------------
(* The environment: origins publish, entries expire, contexts end. *)

Publish(u) ==
  /\ server[u] < MaxVersion
  /\ server' = [server EXCEPT ![u] = @ + 1]
  /\ UNCHANGED <<entry, file, inflight, sem, pc, call, answer, gets>>

Expire(u) ==
  /\ entry[u].fresh
  /\ entry' = [entry EXCEPT ![u].fresh = FALSE]
  /\ UNCHANGED <<server, file, inflight, sem, pc, call, answer, gets>>

Cancel(c) ==
  /\ pc[c] # "idle"
  /\ ~call[c].ended
  /\ call' = [call EXCEPT ![c].ended = TRUE]
  /\ UNCHANGED <<server, entry, file, inflight, sem, pc, answer, gets>>

-----------------------------------------------------------------------------
(* Helpers shared by the steps of a caller. *)

GoTo(c, where) == pc' = [pc EXCEPT ![c] = where]

\* Faulty: the flight leaves the map and its channel is never closed.
ExitFlightUnclosed(c, next) ==
  /\ inflight' = [inflight EXCEPT ![call[c].url] = NoCaller]
  /\ GoTo(c, next)

\* exitFlight: the flight leaves the map and its channel is closed, which
\* releases exactly the callers that wait on it.
ExitFlight(c, next) ==
  /\ inflight' = [inflight EXCEPT ![call[c].url] = NoCaller]
  /\ pc' = [d \in Callers |->
              IF d = c THEN next
              ELSE IF pc[d] = "wait" /\ call[d].url = call[c].url THEN "woken"
              ELSE pc[d]]

\* Faulty: the flight ends and the slot stays taken.
FinishKeepingSlot(c, next) == ExitFlight(c, next) /\ UNCHANGED sem

\* the closure finish of fetch: give the slot back, then exit the flight.
Finish(c, next) == sem' = sem - 1 /\ ExitFlight(c, next)

\* The call is over, its locals and the stale entry it held are gone.
Answer(c, a) ==
  /\ answer' = [answer EXCEPT ![c] = a]
  /\ call' = [call EXCEPT ![c] = NoCall]

HoldsStale(c) == call[c].stale.ver # 0
Attempts(c) == IF HoldsStale(c) THEN 1 ELSE MaxAttempts
Conditional(c) == HoldsStale(c) /\ call[c].stale.tag # 0

-----------------------------------------------------------------------------
(* Get and loadCache. *)

Begin(c, u, m) ==
  /\ pc[c] = "idle"
  /\ gets[c] < MaxGets
  /\ gets' = [gets EXCEPT ![c] = @ + 1]
  /\ call' = [call EXCEPT ![c] = NewCall(u, m, server[u])]
  /\ answer' = [answer EXCEPT ![c] = Failure("none")]
  /\ GoTo(c, "lookup")
  /\ UNCHANGED <<server, entry, file, inflight, sem>>

\* No usable copy: an error in ModeCacheOnly, a fetch otherwise.
Miss(c) ==
  \/ /\ call[c].mode = "cacheOnly"
     /\ GoTo(c, "idle")
     /\ Answer(c, Failure("error"))
  \/ /\ call[c].mode # "cacheOnly"
     /\ GoTo(c, "enter")
     /\ call' = [call EXCEPT ![c].meta = NoEntry]
     /\ UNCHANGED answer

\* Load, up to the release of entriesMu.
Lookup(c) ==
  /\ pc[c] = "lookup"
  /\ LET e == entry[call[c].url] IN
       IF e.live
       THEN /\ call' = [call EXCEPT ![c].meta = e]
            /\ GoTo(c, "open")
            /\ UNCHANGED answer
       ELSE Miss(c)
  /\ UNCHANGED <<server, entry, file, inflight, sem, gets>>

\* Load, from the open of the content file, and the rest of loadCache.
Open(c) ==
  /\ pc[c] = "open"
  /\ LET fresh == call[c].meta.fresh
         ver   == file[call[c].url] IN
       \/ /\ fresh \/ call[c].mode # "default"
          /\ GoTo(c, "idle")
          /\ Answer(c, Served(IF fresh THEN "cache" ELSE "stale", ver, FALSE))
       \/ /\ ~fresh /\ call[c].mode = "default"
          /\ call' = [call EXCEPT ![c].stale = [ver |-> ver,
                                                tag |-> call[c].meta.tag],
                                  ![c].meta = NoEntry]
          /\ GoTo(c, "enter")
          /\ UNCHANGED answer
  /\ UNCHANGED <<server, entry, file, inflight, sem, gets>>

\* The content file cannot be opened or read.
OpenFails(c) ==
  /\ DiskFaults
  /\ pc[c] = "open"
  /\ Miss(c)
  /\ UNCHANGED <<server, entry, file, inflight, sem, gets>>

\* enterFlight: one caller leads, the others close their stale copy and wait.
Enter(c) ==
  /\ pc[c] = "enter"
  /\ \/ /\ inflight[call[c].url] = NoCaller
        /\ inflight' = [inflight EXCEPT ![call[c].url] = c]
        /\ GoTo(c, "acquire")
        /\ UNCHANGED call
     \/ /\ inflight[call[c].url] # NoCaller
        /\ call' = [call EXCEPT ![c].stale = NoContent]
        /\ GoTo(c, "wait")
        /\ UNCHANGED inflight
  /\ UNCHANGED <<server, entry, file, sem, answer, gets>>

\* Faulty: a caller that waited fetches without entering a flight again.
RetryWithoutFlight(c) ==
  /\ pc[c] = "woken"
  /\ GoTo(c, "acquire")
  /\ UNCHANGED <<server, entry, file, inflight, sem, call, answer, gets>>

\* The leader's flight was closed: look at the cache again.
Retry(c) ==
  /\ pc[c] = "woken"
  /\ GoTo(c, "lookup")
  /\ UNCHANGED <<server, entry, file, inflight, sem, call, answer, gets>>

WaitCancelled(c) ==
  /\ pc[c] \in {"wait", "woken"}
  /\ call[c].ended
  /\ GoTo(c, "idle")
  /\ Answer(c, Failure("error"))
  /\ UNCHANGED <<server, entry, file, inflight, sem, gets>>

-----------------------------------------------------------------------------
(* fetch and fetchOnce. *)

AcquireSlot(c) ==
  /\ pc[c] = "acquire"
  /\ sem < Slots
  /\ sem' = sem + 1
  /\ GoTo(c, "request")
  /\ UNCHANGED <<server, entry, file, inflight, call, answer, gets>>

\* Faulty: a slot is given back that was not acquired.
FetchCancelledByFinish(c) ==
  /\ pc[c] \in {"acquire", "backoff"}
  /\ call[c].ended
  /\ Finish(c, "idle")
  /\ Answer(c, Failure("error"))
  /\ UNCHANGED <<server, entry, file, gets>>

\* The context ended in the slot queue or in the backoff sleep: no slot is
\* held, so only the flight is exited.
FetchCancelled(c) ==
  /\ pc[c] \in {"acquire", "backoff"}
  /\ call[c].ended
  /\ ExitFlight(c, "idle")
  /\ Answer(c, Failure("error"))
  /\ UNCHANGED <<server, entry, file, sem, gets>>

\* A 304 to a request that carried validators refreshes whatever entry the
\* index holds by now (entries are only dropped in DiskCache); the response
\* may repeat the validator or omit it.
NotModified(c) ==
  /\ pc[c] = "request"
  /\ ~call[c].ended
  /\ Conditional(c)
  /\ LET u == call[c].url
         confirmed == call[c].stale.tag IN
       /\ confirmed = server[u]
       /\ \E tag \in {entry[u].tag, confirmed} :
            entry' = [entry EXCEPT ![u].fresh = TRUE, ![u].tag = tag]
  /\ GoTo(c, "refreshed")
  /\ UNCHANGED <<server, file, inflight, sem, call, answer, gets>>

ServeRevalidated(c) ==
  /\ pc[c] = "refreshed"
  /\ Finish(c, "idle")
  /\ Answer(c, Served("cache", call[c].stale.ver, TRUE))
  /\ UNCHANGED <<server, entry, file, gets>>

\* Faulty: slot and flight are given up when the headers have arrived.
RespondFinishing(c) ==
  /\ pc[c] = "request"
  /\ ~call[c].ended
  /\ LET v == server[call[c].url] IN
       \E tag \in {0, v} :
         call' = [call EXCEPT ![c].got = [ver |-> v, tag |-> tag],
                              ![c].stale = NoContent]
  /\ Finish(c, "stream")
  /\ UNCHANGED <<server, entry, file, answer, gets>>

\* A 200 with a list, with or without validators: the reader replaces the
\* fallback.
Respond(c) ==
  /\ pc[c] = "request"
  /\ ~call[c].ended
  /\ LET v == server[call[c].url] IN
       \E tag \in {0, v} :
         call' = [call EXCEPT ![c].got = [ver |-> v, tag |-> tag],
                              ![c].stale = NoContent]
  /\ GoTo(c, "stream")
  /\ UNCHANGED <<server, entry, file, inflight, sem, answer, gets>>

\* A network error or a 5xx with attempts left: the slot goes back for the sleep.
FailTransient(c) ==
  /\ pc[c] = "request"
  /\ ~call[c].ended
  /\ call[c].attempt < Attempts(c)
  /\ sem' = sem - 1
  /\ GoTo(c, "backoff")
  /\ UNCHANGED <<server, entry, file, inflight, call, answer, gets>>

\* The last attempt, a permanent failure (4xx, HTML, a redirect loop), or the
\* caller's own context.
FailFinal(c) ==
  /\ pc[c] = "request"
  /\ GoTo(c, "failed")
  /\ UNCHANGED <<server, entry, file, inflight, sem, call, answer, gets>>

BackoffOver(c) ==
  /\ pc[c] = "backoff"
  /\ call' = [call EXCEPT ![c].attempt = @ + 1]
  /\ GoTo(c, "acquire")
  /\ UNCHANGED <<server, entry, file, inflight, sem, answer, gets>>

GiveUp(c) ==
  /\ pc[c] = "failed"
  /\ \/ /\ ~HoldsStale(c)
        /\ Finish(c, "idle")
        /\ Answer(c, Failure("error"))
     \/ /\ HoldsStale(c)
        /\ Finish(c, "fallback")
        /\ UNCHANGED <<call, answer>>
  /\ UNCHANGED <<server, entry, file, gets>>

\* Faulty: the stale copy covers up that the caller's context has ended.
ServeStaleAlways(c) ==
  /\ pc[c] = "fallback"
  /\ GoTo(c, "idle")
  /\ Answer(c, Served("stale", call[c].stale.ver, FALSE))
  /\ UNCHANGED <<server, entry, file, inflight, sem, gets>>

\* The stale copy is served, unless the caller's own context has ended.
ServeStale(c) ==
  /\ pc[c] = "fallback"
  /\ GoTo(c, "idle")
  /\ \/ /\ ~call[c].ended
        /\ Answer(c, Served("stale", call[c].stale.ver, FALSE))
     \/ /\ call[c].ended \/ DiskFaults
        /\ Answer(c, Failure("error"))
  /\ UNCHANGED <<server, entry, file, inflight, sem, gets>>

-----------------------------------------------------------------------------
(* The drain of a network reader: fetchReader and cachingReader. *)

\* A verified EOF: Promote renames the temporary file over the content file.
CompleteBody(c) ==
  /\ pc[c] = "stream"
  /\ file' = [file EXCEPT ![call[c].url] = call[c].got.ver]
  /\ GoTo(c, "install")
  /\ UNCHANGED <<server, entry, inflight, sem, call, answer, gets>>

\* Faulty: a response without validators keeps those of the previous one.
InstallEntryKeepingTag(c) ==
  /\ pc[c] = "install"
  /\ entry' = [entry EXCEPT ![call[c].url] =
                 [live |-> TRUE, fresh |-> TRUE,
                  tag |-> IF call[c].got.tag = 0 THEN @.tag ELSE call[c].got.tag]]
  /\ GoTo(c, "installed")
  /\ UNCHANGED <<server, file, inflight, sem, call, answer, gets>>

\* ... and then records the metadata under entriesMu.
InstallEntry(c) ==
  /\ pc[c] = "install"
  /\ entry' = [entry EXCEPT ![call[c].url] =
                 [live |-> TRUE, tag |-> call[c].got.tag, fresh |-> TRUE]]
  /\ GoTo(c, "installed")
  /\ UNCHANGED <<server, file, inflight, sem, call, answer, gets>>

\* Caching is best-effort: the temporary file, its sync or the rename fails.
CachingFails(c) ==
  /\ DiskFaults
  /\ pc[c] = "stream"
  /\ GoTo(c, "installed")
  /\ UNCHANGED <<server, entry, file, inflight, sem, call, answer, gets>>

\* terminate on the EOF path, after the promotion.
EndOfBody(c) ==
  /\ pc[c] = "installed"
  /\ Finish(c, "idle")
  /\ Answer(c, Served("network", call[c].got.ver, TRUE))
  /\ UNCHANGED <<server, entry, file, gets>>

\* A read error, a stall, a short body, the context, or a Close before EOF.
BreakBody(c) ==
  /\ pc[c] = "stream"
  /\ Finish(c, "idle")
  /\ Answer(c, Failure("broken"))
  /\ UNCHANGED <<server, entry, file, gets>>

-----------------------------------------------------------------------------
Step(c) ==
  \/ Lookup(c) \/ Open(c) \/ OpenFails(c) \/ Enter(c) \/ Retry(c)
  \/ WaitCancelled(c)
  \/ AcquireSlot(c) \/ FetchCancelled(c)
  \/ NotModified(c) \/ ServeRevalidated(c) \/ Respond(c)
  \/ FailTransient(c) \/ FailFinal(c) \/ BackoffOver(c)
  \/ GiveUp(c) \/ ServeStale(c)
  \/ CompleteBody(c) \/ InstallEntry(c) \/ CachingFails(c) \/ EndOfBody(c)
  \/ BreakBody(c)

\* Every caller has made its last call: the bound MaxGets, not a deadlock.
AllDone ==
  /\ \A c \in Callers : pc[c] = "idle" /\ gets[c] = MaxGets
  /\ UNCHANGED vars

Next ==
  \/ \E u \in Urls : Publish(u) \/ Expire(u)
  \/ \E c \in Callers : Cancel(c) \/ Step(c)
  \/ \E c \in Callers, u \in Urls, m \in Modes : Begin(c, u, m)
  \/ AllDone

Spec == Init /\ [][Next]_vars

\* Every phase of a caller ends by itself: timeouts bound the request, the
\* watchdog bounds the body, timers end the sleep.  The runtime queues the
\* senders of a full channel in order, so a caller that keeps waiting for a
\* slot while slots keep coming free gets one.
Fairness ==
  /\ \A c \in Callers : WF_vars(Step(c))
  /\ \A c \in Callers : SF_vars(AcquireSlot(c))

FairSpec == Spec /\ Fairness
-----------------------------------------------------------------------------
(* Properties *)

\* Every variable stays within its type.
TypeOK ==
  /\ server \in [Urls -> 1 .. MaxVersion]
  /\ entry \in [Urls -> Entries]
  /\ file \in [Urls -> Versions]
  /\ inflight \in [Urls -> Callers \cup {NoCaller}]
  /\ sem \in 0 .. Slots
  /\ pc \in [Callers -> PCs]
  /\ call \in [Callers -> Calls]
  /\ answer \in [Callers -> Answers]
  /\ gets \in [Callers -> 0 .. MaxGets]

\* The flight of a URL in the inflight map belongs to exactly the caller that
\* is downloading it, so a URL has one leader at a time and exitFlight never
\* closes another caller's flight or a nil channel.
FlightOwnership ==
  /\ \A c \in Callers : pc[c] \in Leading => inflight[call[c].url] = c
  /\ \A u \in Urls : inflight[u] # NoCaller =>
       pc[inflight[u]] \in Leading /\ call[inflight[u]].url = u

\* The semaphore holds one token per caller that is past acquireSlot and has
\* not reached its terminal point or a backoff sleep: no path through fetch,
\* fetchOnce and the readers leaks a slot or gives one back twice.
SlotAccounting == sem = Cardinality({c \in Callers : pc[c] \in Holding})

\* A caller never waits on a flight nobody is going to close.
NoLostWakeup ==
  \A c \in Callers : pc[c] = "wait" => inflight[call[c].url] # NoCaller

\* Outside the window between Promote's rename and its index update, the
\* validator of an entry is the one of the bytes on disk, so that a 304 to it
\* confirms those bytes.
ValidatorsMatchContent ==
  \A u \in Urls :
    /\ entry[u].live => file[u] # 0
    /\ entry[u].live /\ entry[u].tag # 0 =>
         \/ entry[u].tag = file[u]
         \/ \E c \in Callers : pc[c] = "install" /\ call[c].url = u

\* Downloads of one URL are promoted in the order their responses were
\* produced: the cached content of a URL never goes back to an older version.
ContentNeverOlder == [][\A u \in Urls : file'[u] >= file[u]]_vars

\* Every Get returns and every reader comes to its end, whatever the network
\* does, when the calls are finitely many (comment on the loop of Get).
GetTerminates == \A c \in Callers : pc[c] = "lookup" ~> pc[c] = "idle"

\* Get keeps the promises of ListService.
ServiceCall(c) ==
  [busy |-> pc[c] # "idle", url |-> call[c].url, mode |-> call[c].mode,
   ended |-> call[c].ended, low |-> call[c].low]
Service == INSTANCE ListService WITH
  call <- [c \in Callers |-> ServiceCall(c)],
  NoCall <- [busy |-> FALSE, url |-> NoCall.url, mode |-> NoCall.mode,
             ended |-> FALSE, low |-> 0]
KeepsPromises == Service!Spec
=============================================================================
