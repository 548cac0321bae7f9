------------------------------ MODULE Counters ------------------------------
(***************************************************************************)
(* localcdn.Stats, what saves it, and the two views of the window that     *)
(* show it: InjectionCounter in the settings, LocalResourcesSummary above  *)
(* the request log.  A request counts first, then tells the window, which  *)
(* asks for the counters again.                                            *)
(***************************************************************************)
EXTENDS Naturals, SequencesExt, FiniteSets

CONSTANTS StatsSaveInterval,  \* records from one save to the next
          MaxEvents           \* bound: requests counted, and acts of the user

ASSUME CountersAssumption == StatsSaveInterval \in Nat \ {0} /\ MaxEvents \in Nat

VARIABLES
  view,      \* the component that shows them
  stats,     \* [install, served, hits]: Stats, in the memory
  saved,     \* the same in config.json: LocalResources.Stats
  engineOn,  \* the proxy runs with the engine of local resources
  records,   \* Engine.records of each engine so far, the latest last
  saves,     \* saves under way: None, then the snapshot to write
  resetting, \* Manager.ResetStats: "no", "zeroed", "emit", "answer" or "failed"
  unsent, news,  \* events that are about to be emitted, that are on their way
  mounted, seen, \* the view is on the page, and what it shows
  delay,     \* the timer of scheduleLoad
  loads,     \* its GetLocalResourcesStats: [done, value]
  events,    \* bounded by MaxEvents
  stale,     \* history: an answer came before that to an earlier question
  kept,      \* history: stats when the proxy stopped, less what a reset zeroed
  raced, forgot  \* history, see CountersSaved

counterVars == <<view, stats, saved, engineOn, records, saves, resetting, unsent, news,
                 mounted, seen, delay, loads, events, stale, kept, raced, forgot>>
windowOfCounters == <<mounted, seen, delay, loads, stale>>

Zero == [install |-> 0, served |-> 0, hits |-> 0]
None == [install |-> 0, served |-> 0, hits |-> MaxEvents + 1]   \* nothing shown, no snapshot yet

Happen == events < MaxEvents /\ events' = events + 1

-----------------------------------------------------------------------------
\* The engine.

\* A connection that a CONNECT has hijacked outlives the proxy and the engine
\* it was opened through: its requests go on to count, and to save.

\* record, and the save every statsSaveInterval records of the engine.
Record ==
  /\ Happen
  /\ \E e \in DOMAIN records :
       LET n == records[e] + 1 IN
       /\ records' = [records EXCEPT ![e] = n]
       /\ saves' = IF n % StatsSaveInterval = 0 THEN Append(saves, None) ELSE saves
  /\ stats' = [stats EXCEPT !.install = @ + 1, !.served = @ + 1]
  /\ unsent' = Append(unsent, "local")
  /\ UNCHANGED <<view, saved, engineOn, resetting, news, kept, raced, forgot, windowOfCounters>>

\* OnFilterBlock, OnFilterRedirect, OnFilterModify.
RecordFilterHit ==
  /\ records # <<>> /\ Happen
  /\ stats' = [stats EXCEPT !.hits = @ + 1]
  /\ unsent' = Append(unsent, "filter")
  /\ UNCHANGED <<view, saved, engineOn, records, saves, resetting, news, kept, raced, forgot,
                 windowOfCounters>>

EmitFilterAction ==
  /\ \E i \in DOMAIN unsent : unsent' = RemoveAt(unsent, i) /\ news' = Append(news, unsent[i])
  /\ UNCHANGED <<view, stats, saved, engineOn, records, saves, resetting, events, kept, raced, forgot,
                 windowOfCounters>>

\* saveStatsNow: the snapshot, then the lock of the configuration.
SaveStatsNow ==
  /\ \E i \in DOMAIN saves :
       \/ /\ saves[i] = None
          /\ saves' = [saves EXCEPT ![i] = stats] /\ forgot' = FALSE
          /\ UNCHANGED <<saved, raced>>
       \/ /\ saves[i] # None
          /\ saved' = saves[i] /\ saves' = RemoveAt(saves, i)
          /\ raced' = (raced \/ resetting = "zeroed") /\ UNCHANGED forgot
  /\ UNCHANGED <<view, stats, engineOn, records, resetting, unsent, news, events, kept,
                 windowOfCounters>>

StartEngine ==
  /\ ~engineOn /\ Happen /\ engineOn' = TRUE /\ records' = Append(records, 0)
  /\ UNCHANGED <<view, stats, saved, saves, resetting, unsent, news, kept, raced, forgot,
                 windowOfCounters>>

\* Faulty: the proxy stops without the last save.
NoFlush == UNCHANGED saves

\* Engine.Flush, in StopProxy.
Flush == saves' = Append(saves, None)

\* The listener is closed and the requests that Shutdown knows of are over;
\* those of hijacked connections, their events and saves are not waited for.
StopEngine ==
  /\ engineOn /\ Happen
  /\ engineOn' = FALSE /\ Flush
  /\ kept' = stats /\ raced' = \E i \in DOMAIN saves : saves[i] # None
  /\ UNCHANGED <<view, stats, saved, records, resetting, unsent, news, forgot, windowOfCounters>>

\* Manager.ResetStats: the counters, the configuration, the event, the answer.
\* The second zeroes the total since the installation too.
ResetStats ==
  /\ \/ /\ resetting = "no" /\ Happen
        /\ view = "InjectionCounter" /\ mounted /\ seen # None
        /\ stats' = [stats EXCEPT !.served = 0, !.hits = 0]
        /\ kept' = [kept EXCEPT !.served = 0, !.hits = 0]
        /\ resetting' = "zeroed" /\ UNCHANGED <<saved, news, raced, forgot>>
     \/ /\ resetting = "zeroed" /\ UNCHANGED <<stats, news, events, kept>>
        /\ saved' = Zero /\ resetting' \in {"emit", "failed"}
        /\ raced' = (raced \/ saves # <<>>) /\ forgot' = TRUE
     \/ /\ resetting = "emit" /\ resetting' = "answer"
        /\ news' = Append(news, "stats") /\ UNCHANGED <<stats, saved, events, kept, raced, forgot>>
  /\ UNCHANGED <<view, engineOn, records, saves, unsent, windowOfCounters>>

-----------------------------------------------------------------------------
\* The two views.

Load == loads' = Append(loads, [done |-> FALSE, value |-> Zero])

\* The effect of InjectionCounter.
CounterHears(event) ==
  /\ UNCHANGED delay
  /\ IF event = "filter" THEN UNCHANGED loads ELSE Load

\* Faulty: nothing is scheduled while a load is under way.
DeafScheduleLoad == delay' = (delay \/ loads = <<>>)

ScheduleLoad == delay' = TRUE

\* The effect of LocalResourcesSummary.
SummaryHears(event) ==
  IF event = "stats" THEN delay' = FALSE /\ Load ELSE ScheduleLoad /\ UNCHANGED loads

HearEvent ==
  /\ news # <<>> /\ news' = Tail(news)
  /\ IF ~mounted THEN UNCHANGED <<delay, loads>>
     ELSE \/ view = "InjectionCounter" /\ CounterHears(news[1])
          \/ view = "LocalResourcesSummary" /\ SummaryHears(news[1])
  /\ UNCHANGED <<view, stats, saved, engineOn, records, saves, resetting, unsent, mounted, seen, events,
                 stale, kept, raced, forgot>>

\* The end of reset: it loads once more, or it shows the error and returns.
ResetReturns ==
  /\ resetting \in {"answer", "failed"} /\ resetting' = "no"
  /\ IF resetting = "answer" /\ mounted THEN Load ELSE UNCHANGED loads
  /\ stale' = (stale \/ resetting = "failed")
  /\ UNCHANGED <<view, stats, saved, engineOn, records, saves, unsent, news, mounted, seen, delay, events,
                 kept, raced, forgot>>

DelayEnds ==
  /\ delay /\ delay' = FALSE /\ Load
  /\ UNCHANGED <<view, stats, saved, engineOn, records, saves, resetting, unsent, news, mounted, seen, events,
                 stale, kept, raced, forgot>>

Answered ==
  /\ \E i \in DOMAIN loads :
       \/ /\ ~loads[i].done
          /\ loads' = [loads EXCEPT ![i] = [done |-> TRUE, value |-> stats]]
          /\ UNCHANGED <<seen, stale>>
       \/ /\ loads[i].done
          /\ seen' = loads[i].value /\ loads' = RemoveAt(loads, i)
          /\ stale' = (stale \/ i > 1)
  /\ UNCHANGED <<view, stats, saved, engineOn, records, saves, resetting, unsent, news, mounted, delay, events,
                 kept, raced, forgot>>

\* The summary is on the page while the window thinks that the proxy runs.
MountView ==
  /\ ~mounted /\ Happen
  /\ mounted' = TRUE /\ Load /\ stale' = FALSE
  /\ UNCHANGED <<view, stats, saved, engineOn, records, saves, resetting, unsent, news, seen, delay, kept, raced,
                 forgot>>

\* What is loading is answered to nobody; the timer is cleared.
UnmountView ==
  /\ mounted /\ Happen
  /\ mounted' = FALSE /\ seen' = None /\ delay' = FALSE /\ loads' = <<>>
  /\ UNCHANGED <<view, stats, saved, engineOn, records, saves, resetting, unsent, news, stale, kept, raced, forgot>>

-----------------------------------------------------------------------------

NoStatsYet ==
  /\ stats = Zero /\ saved = Zero /\ engineOn = FALSE /\ records = <<>> /\ saves = <<>>
  /\ resetting = "no" /\ unsent = <<>> /\ news = <<>>
  /\ mounted = FALSE /\ seen = None /\ delay = FALSE /\ loads = <<>>
  /\ events = 0 /\ stale = FALSE /\ kept = Zero /\ raced = FALSE /\ forgot = FALSE

CountersInit == view \in {"InjectionCounter", "LocalResourcesSummary"} /\ NoStatsYet
NoCounters == view = "InjectionCounter" /\ NoStatsYet

CountersNext ==
  \/ Record \/ RecordFilterHit \/ EmitFilterAction \/ SaveStatsNow \/ StartEngine \/ StopEngine
  \/ ResetStats \/ HearEvent \/ ResetReturns \/ DelayEnds \/ Answered \/ MountView \/ UnmountView

-----------------------------------------------------------------------------
\* Properties.

\* When no event and no load is on its way, a view shows the counters as they
\* are, however bursts, resets and answers overlapped.  (Excepted: a load that
\* was answered after a later one, and a reset that failed half-way, of which
\* nobody is told.)
CountersCatchUp ==
  mounted /\ loads = <<>> /\ ~delay /\ news = <<>> /\ unsent = <<>> /\ resetting = "no" /\ ~stale =>
    /\ seen.served = stats.served
    /\ view = "LocalResourcesSummary" => seen.hits = stats.hits

\* What was counted before the proxy stopped is saved, and nothing that was not
\* counted: of the counters that a reset zeroes always, of the total since the
\* installation unless a reset came last.  What hijacked connections count
\* after the stop need not be saved, though the comment on Flush says "counters
\* are not lost".
\* (Excepted: a save that meets a reset, or whose snapshot is older than the
\* stop; the one undoes the other until the next save.)
CountersSaved ==
  ~engineOn /\ saves = <<>> /\ resetting = "no" /\ ~raced =>
    /\ kept.served <= saved.served /\ saved.served <= stats.served
    /\ kept.hits <= saved.hits /\ saved.hits <= stats.hits
    /\ ~forgot => kept.install <= saved.install /\ saved.install <= stats.install

=============================================================================
