----------------------------- MODULE AppLifecycle -----------------------------
(***************************************************************************)
(* internal/app, StartProxy and StopProxy, with the system proxy manager   *)
(* (internal/sysproxy), the servers they bring up and down, and the window *)
(* that shows the state of the proxy (StartStopButton).                    *)
(*                                                                         *)
(* A call is one goroutine inside StartProxy or StopProxy: the window, the *)
(* tray, the launch timer and a second instance all start them, in any     *)
(* number and order.  The filter build is one phase that ends with a       *)
(* filter, an error or an abort; its passes are the subject of BuildPasses.*)
(***************************************************************************)
EXTENDS Naturals, Sequences

CONSTANTS
  Calls,      \* the goroutines that run StartProxy and StopProxy
  NoCall,     \* nobody: an unlocked proxyMu, a nil buildAbort
  MaxCalls    \* bound: calls of StartProxy and StopProxy altogether

ASSUME CallsAssumption == NoCall \notin Calls
ASSUME MaxCallsAssumption == MaxCalls \in Nat

VARIABLES
  pc,           \* where each call stands
  result,       \* how the last call of each goroutine returned
  made,         \* calls made so far
  proxyMu,      \* the call that holds proxyMu
  stopPending,  \* the latch StopProxy sets before it queues on proxyMu
  buildAbort,   \* the call whose build buildAbort would cancel
  aborted,      \* whether that build has been cancelled
  proxyOn,      \* App.proxyOn
  up,           \* the servers that run: "proxy", "whitelist", "pac", "engine"
  systemProxySet, \* Manager.systemProxySet
  settings,     \* the proxy settings of the operating system
  supportedDE,  \* whether the desktop's settings can be written
  events,       \* events emitted and not yet handled by the window
  shown,        \* the last event the window handled
  screen,       \* "opening", "home", "intro" or "last": what the window shows
  missed        \* history: the last event was emitted to nobody

vars == <<pc, result, made, proxyMu, stopPending, buildAbort, aborted, proxyOn,
          up, systemProxySet, settings, supportedDE, events, shown, screen, missed>>
window == <<shown, screen, missed>>

\* The parts only StartProxy's and StopProxy's later phases touch.
machine == <<proxyOn, up, systemProxySet, settings, supportedDE>>
-----------------------------------------------------------------------------
PCs == {"idle", "startLock", "startCheck", "prepare", "building", "built",
        "whitelist", "proxy", "route", "unroute", "turnOn",
        "stopMark", "stopAbort", "stopLock", "stopBegin", "clear", "halt",
        "windDown"}
Locked == PCs \ {"idle", "startLock", "stopMark", "stopAbort", "stopLock"}
Servers == {"proxy", "whitelist", "pac", "engine"}
EventKinds == {"starting", "started", "startError",
               "stopping", "stopped", "stopError"}
Results == {"none", "ok", "aborted", "error"}

\* "pac": the settings name Zen's PAC file.  "residue": a failed Set wrote
\* some of them and the attempt to undo that failed too.
Settings == {"clear", "pac", "residue"}

Init ==
  /\ pc = [c \in Calls |-> "idle"]
  /\ result = [c \in Calls |-> "none"]
  /\ made = 0
  /\ proxyMu = NoCall
  /\ stopPending = FALSE
  /\ buildAbort = NoCall
  /\ aborted = FALSE
  /\ proxyOn = FALSE
  /\ up = {}
  /\ systemProxySet = FALSE
  /\ settings = "clear"
  /\ supportedDE \in BOOLEAN
  /\ events = <<>>
  /\ shown = "stopped"   \* the window opens in the state off
  /\ screen = "opening" /\ missed = FALSE

GoTo(c, where) == pc' = [pc EXCEPT ![c] = where]
Emit(kind) == events' = Append(events, kind)

\* Faulty: an aborted start returns with proxyMu locked.
ReturnLocked(c, r) ==
  /\ GoTo(c, "idle")
  /\ result' = [result EXCEPT ![c] = r]
  /\ proxyMu' = IF r = "aborted" THEN proxyMu ELSE NoCall

\* The deferred functions of a call: the outcome's event, then the unlock.
Return(c, r) ==
  /\ GoTo(c, "idle")
  /\ result' = [result EXCEPT ![c] = r]
  /\ proxyMu' = NoCall
FailStart(c) == Return(c, "error") /\ Emit("startError")

\* Faulty: a failed stop does not tell the window.
FailStopSilent(c) == Return(c, "error") /\ UNCHANGED events

FailStop(c) == Return(c, "error") /\ Emit("stopError")

ForgetAbort == buildAbort' = NoCall

\* Faulty: the whitelist server of a failed start keeps running.
UndoneButWhitelist == up \ {"engine"}

\* What the deferred undo of a failed start takes down.
Undone == up \ {"whitelist", "engine"}
-----------------------------------------------------------------------------
(* StartProxy. *)

CallStart(c) ==
  /\ pc[c] = "idle" /\ made < MaxCalls
  /\ made' = made + 1
  /\ GoTo(c, "startLock")
  /\ result' = [result EXCEPT ![c] = "none"]
  /\ UNCHANGED <<proxyMu, stopPending, buildAbort, aborted, machine,
                 events, window>>

LockStart(c) ==
  /\ pc[c] = "startLock" /\ proxyMu = NoCall
  /\ proxyMu' = c
  /\ GoTo(c, "startCheck")
  /\ UNCHANGED <<result, made, stopPending, buildAbort, aborted, machine,
                 events, window>>

CheckStart(c) ==
  /\ pc[c] = "startCheck"
  /\ \/ /\ proxyOn
        /\ Return(c, "ok")
        /\ UNCHANGED events
     \/ /\ ~proxyOn /\ stopPending
        /\ Return(c, "aborted")
        /\ UNCHANGED events
     \/ /\ ~proxyOn /\ ~stopPending
        /\ Emit("starting")
        /\ GoTo(c, "prepare")
        /\ UNCHANGED <<result, proxyMu>>
  /\ UNCHANGED <<made, stopPending, buildAbort, aborted, machine, window>>

\* buildFilter makes its context abortable.
OpenBuild(c) ==
  /\ pc[c] = "prepare"
  /\ buildAbort' = c
  /\ aborted' = FALSE
  /\ GoTo(c, "building")
  /\ UNCHANGED <<result, made, proxyMu, stopPending, machine, events, window>>

\* runBuildPasses returns: an abort wins over an error and over a filter.
EndBuild(c) ==
  /\ pc[c] = "building"
  /\ \/ /\ aborted
        /\ Return(c, "aborted")
        /\ ForgetAbort
        /\ UNCHANGED events
     \/ /\ ~aborted
        /\ FailStart(c)
        /\ ForgetAbort
     \/ /\ ~aborted
        /\ GoTo(c, "built")
        /\ UNCHANGED <<result, proxyMu, buildAbort, events>>
  /\ UNCHANGED <<made, stopPending, aborted, machine, window>>

\* buildFilter returns the filter; an abort that came after the last check
\* is lost.  The local resource engine is created, or fails to be.
CloseBuild(c) ==
  /\ pc[c] = "built"
  /\ ForgetAbort
  /\ \/ /\ up' = up \cup {"engine"}
        /\ GoTo(c, "whitelist")
        /\ UNCHANGED <<result, proxyMu, events>>
     \/ /\ FailStart(c)
        /\ UNCHANGED up
  /\ UNCHANGED <<made, stopPending, aborted, proxyOn, systemProxySet,
                 settings, supportedDE, window>>

\* whitelistSrv.Start; then certStore.Init, the proxy and its listener.
StartServer(c, phase, next) ==
  /\ pc[c] = phase
  /\ \/ /\ up' = up \cup {phase}
        /\ GoTo(c, next)
        /\ UNCHANGED <<result, proxyMu, events>>
     \/ /\ FailStart(c)
        /\ up' = Undone
  /\ UNCHANGED <<made, stopPending, buildAbort, aborted, proxyOn,
                 systemProxySet, settings, supportedDE, window>>

StartWhitelist(c) == StartServer(c, "whitelist", "proxy")
StartListener(c) == StartServer(c, "proxy", "route")

\* A write of the settings fails; what was written is undone, or not.
FailedSet ==
  /\ settings' \in {"clear", "residue"}
  /\ up' = up \ {"pac"}

\* Manager.Set: serve the PAC file, then point the operating system at it.
SetSystemProxy(c) ==
  /\ pc[c] = "route"
  /\ \/ /\ supportedDE
        /\ up' = up \cup {"pac"}
        /\ settings' = "pac" /\ systemProxySet' = TRUE
        /\ GoTo(c, "turnOn")
     \/ /\ ~supportedDE   \* the user enters the PAC URL by hand
        /\ up' = up \cup {"pac"}
        /\ GoTo(c, "turnOn")
        /\ UNCHANGED <<settings, systemProxySet>>
     \/ /\ GoTo(c, "unroute")   \* the PAC port is taken
        /\ UNCHANGED <<up, settings, systemProxySet>>
     \/ /\ supportedDE
        /\ FailedSet
        /\ GoTo(c, "unroute")
        /\ UNCHANGED systemProxySet
  /\ UNCHANGED <<result, made, proxyMu, stopPending, buildAbort, aborted,
                 proxyOn, supportedDE, events, window>>

\* The proxy stops accepting even when its shutdown times out.
UndoStart(c) ==
  /\ pc[c] = "unroute"
  /\ up' = Undone \ {"proxy"}
  /\ FailStart(c)
  /\ UNCHANGED <<made, stopPending, buildAbort, aborted, proxyOn,
                 systemProxySet, settings, supportedDE, window>>

TurnOn(c) ==
  /\ pc[c] = "turnOn"
  /\ proxyOn' = TRUE
  /\ Return(c, "ok") /\ Emit("started")
  /\ UNCHANGED <<made, stopPending, buildAbort, aborted, up, systemProxySet,
                 settings, supportedDE, window>>
-----------------------------------------------------------------------------
(* StopProxy. *)

CallStop(c) ==
  /\ pc[c] = "idle" /\ made < MaxCalls
  /\ made' = made + 1
  /\ GoTo(c, "stopMark")
  /\ result' = [result EXCEPT ![c] = "none"]
  /\ UNCHANGED <<proxyMu, stopPending, buildAbort, aborted, machine,
                 events, window>>

MarkStop(c) ==
  /\ pc[c] = "stopMark"
  /\ stopPending' = TRUE
  /\ GoTo(c, "stopAbort")
  /\ UNCHANGED <<result, made, proxyMu, buildAbort, aborted, machine,
                 events, window>>

AbortBuild(c) ==
  /\ pc[c] = "stopAbort"
  /\ aborted' = (aborted \/ buildAbort # NoCall)
  /\ GoTo(c, "stopLock")
  /\ UNCHANGED <<result, made, proxyMu, stopPending, buildAbort, machine,
                 events, window>>

LockStop(c) ==
  /\ pc[c] = "stopLock" /\ proxyMu = NoCall
  /\ proxyMu' = c
  /\ GoTo(c, "stopBegin")
  /\ UNCHANGED <<result, made, stopPending, buildAbort, aborted, machine,
                 events, window>>

BeginStop(c) ==
  /\ pc[c] = "stopBegin"
  /\ stopPending' = FALSE
  /\ \/ /\ proxyOn
        /\ Emit("stopping")
        /\ GoTo(c, "clear")
        /\ UNCHANGED <<result, proxyMu>>
     \/ /\ ~proxyOn
        /\ events' = events \o <<"stopping", "stopped">>
        /\ Return(c, "ok")
  /\ UNCHANGED <<made, buildAbort, aborted, machine, window>>

FailedUnset == UNCHANGED <<systemProxySet, settings>>

\* Manager.Clear: the PAC server is closed whatever happens to the settings,
\* and a failed unset is tried again by the next Clear.
ClearSystemProxy(c) ==
  /\ pc[c] = "clear"
  /\ \/ /\ "pac" \notin up /\ ~systemProxySet
        /\ GoTo(c, "halt")
        /\ UNCHANGED <<result, proxyMu, up, systemProxySet, settings, events>>
     \/ /\ "pac" \in up \/ systemProxySet
        /\ up' = up \ {"pac"}
        /\ \/ /\ supportedDE
              /\ systemProxySet' = FALSE /\ settings' = "clear"
           \/ FailedUnset
        /\ \/ /\ GoTo(c, "halt")
              /\ supportedDE => ~systemProxySet'
              /\ UNCHANGED <<result, proxyMu, events>>
           \/ /\ FailStop(c)
              \* the unset failed, or closing the PAC server did
              /\ supportedDE
  /\ UNCHANGED <<made, stopPending, buildAbort, aborted, proxyOn,
                 supportedDE, window>>

\* proxy.Stop: the listener closes at once, requests in flight have 10 s.
HaltProxy(c) ==
  /\ pc[c] = "halt"
  /\ up' = up \ {"proxy"}
  /\ \/ /\ GoTo(c, "windDown")
        /\ UNCHANGED <<result, proxyMu, events>>
     \/ FailStop(c)
  /\ UNCHANGED <<made, stopPending, buildAbort, aborted, proxyOn,
                 systemProxySet, settings, supportedDE, window>>

\* whitelistSrv.Stop, and the fields are cleared once nothing has failed.
WindDown(c) ==
  /\ pc[c] = "windDown"
  /\ \/ /\ up' = Undone
        /\ proxyOn' = FALSE
        /\ Return(c, "ok") /\ Emit("stopped")
     \/ /\ up' = up \ {"whitelist"}
        /\ FailStop(c)
        /\ UNCHANGED proxyOn
  /\ UNCHANGED <<made, stopPending, buildAbort, aborted, systemProxySet,
                 settings, supportedDE, window>>
-----------------------------------------------------------------------------
(* The window.  It asks whether this is the first launch, and then may show the *)
(* introduction: only its last screen, and the pages after it, have the         *)
(* StartStopButton, which listens to the events.                                *)

\* onClose, once the last screen is reached and the window takes the proxy for on.
Closed(s, kind) == IF s = "last" /\ kind \in {"started", "startError"} THEN "home" ELSE s

WindowActs ==
  /\ \/ screen = "opening" /\ screen' \in {"home", "intro"}
     \/ screen = "intro" /\ screen' \in {"home", Closed("last", shown)}   \* Skip, Next
  /\ UNCHANGED <<pc, result, made, proxyMu, stopPending, buildAbort, aborted,
                 machine, events, shown, missed>>

\* Events are delivered in the order they were emitted.
HandleEvent ==
  /\ events # <<>>
  /\ events' = Tail(events)
  /\ IF screen = "intro"
     THEN missed' = TRUE /\ UNCHANGED <<shown, screen>>
     ELSE missed' = FALSE /\ shown' = Head(events) /\ screen' = Closed(screen, shown')
  /\ UNCHANGED <<pc, result, made, proxyMu, stopPending, buildAbort, aborted,
                 machine>>

Step(c) ==
  \/ LockStart(c) \/ CheckStart(c)
  \/ OpenBuild(c) \/ EndBuild(c) \/ CloseBuild(c)
  \/ StartWhitelist(c) \/ StartListener(c)
  \/ SetSystemProxy(c) \/ UndoStart(c) \/ TurnOn(c)
  \/ MarkStop(c) \/ AbortBuild(c) \/ LockStop(c) \/ BeginStop(c)
  \/ ClearSystemProxy(c) \/ HaltProxy(c) \/ WindDown(c)

\* The bound MaxCalls, not a deadlock.
AllDone ==
  /\ \A c \in Calls : pc[c] = "idle"
  /\ made = MaxCalls /\ events = <<>>
  /\ UNCHANGED vars

Next ==
  \/ \E c \in Calls : CallStart(c) \/ CallStop(c) \/ Step(c)
  \/ HandleEvent \/ WindowActs
  \/ AllDone

Spec == Init /\ [][Next]_vars

\* Every phase ends by itself: the build by its deadline, the listeners and
\* the shutdown by their timeouts; a Go mutex does not starve its waiters.
FairSpec ==
  /\ Spec
  /\ \A c \in Calls : WF_vars(Step(c)) /\ SF_vars(LockStart(c) \/ LockStop(c))
  /\ WF_vars(HandleEvent)
-----------------------------------------------------------------------------
(* Properties *)

\* Every variable stays within its type, and proxyMu is held by the one call
\* that is past its Lock and has not returned.
TypeOK ==
  /\ pc \in [Calls -> PCs]
  /\ result \in [Calls -> Results]
  /\ made \in 0 .. MaxCalls
  /\ proxyMu \in Calls \cup {NoCall}
  /\ \A c \in Calls : pc[c] \in Locked <=> proxyMu = c
  /\ stopPending \in BOOLEAN
  /\ buildAbort \in Calls \cup {NoCall}
  /\ aborted \in BOOLEAN
  /\ proxyOn \in BOOLEAN
  /\ up \subseteq Servers
  /\ systemProxySet \in BOOLEAN
  /\ settings \in Settings
  /\ supportedDE \in BOOLEAN
  /\ events \in Seq(EventKinds)
  /\ shown \in EventKinds
  /\ screen \in {"opening", "home", "intro", "last"} /\ missed \in BOOLEAN

\* With proxyMu free, a proxy that is off has left no server running and no
\* settings in force, whichever of the steps of a start or a stop failed.  What
\* this excepts: a Set that failed and whose undo failed too, which is logged
\* and never tried again, leaves what it had written ("residue"), and that may
\* name Zen.  And of the proxy it says that nothing listens: connections that a
\* CONNECT has hijacked outlive it, as Shutdown neither closes nor awaits them.
OffMeansDown ==
  proxyMu = NoCall /\ ~proxyOn => up = {} /\ settings \in {"clear", "residue"}

\* Once every call has returned and the window has caught up, it shows the
\* outcome of the last one: it never stays in its loading state, even after
\* an aborted start, which emits nothing (comment in StartProxy).  (Excepted:
\* the introduction is shown when the event is emitted, to nobody.)
WindowCatchesUp ==
  (\A c \in Calls : pc[c] = "idle") /\ events = <<>> /\ ~missed =>
    /\ proxyOn => shown \in {"started", "stopError"}
    /\ ~proxyOn => shown \in {"stopped", "startError"}

\* Every StartProxy and StopProxy returns: once no more are made, none waits.
CallsReturn == <>[](\A c \in Calls : pc[c] = "idle")

\* "StartProxy starts the proxy": a call that reports success leaves a proxy
\* that accepts connections.
SuccessMeansServing ==
  [][\A c \in Calls :
       pc[c] \in {"startCheck", "turnOn"} /\ result'[c] = "ok"
         => "proxy" \in up']_vars
=============================================================================
