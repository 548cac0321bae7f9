-------------------------- MODULE AppLifecycle_proofs --------------------------
(***************************************************************************)
(* Proofs about AppLifecycle, for any number of goroutines, calls and      *)
(* failures: a proxy that is off has left nothing behind, and the window   *)
(* ends up telling what happened last.                                     *)
(*                                                                         *)
(* proxyMu makes the machine the business of one call at a time, so the    *)
(* invariant says for every place where that call can stand which servers  *)
(* may run and what the settings may be.                                   *)
(***************************************************************************)
EXTENDS AppLifecycle, SequenceTheorems, TLAPS

\* What the machine is like for a call that has just got proxyMu.
Resting == ~proxyOn => up = {} /\ ~systemProxySet

\* The phases of a start that has nothing to show yet.
Starting == {"prepare", "building", "built", "whitelist", "proxy", "route",
             "unroute"}
Stopping == {"clear", "halt", "windDown"}

\* What the machine is like while the holder of proxyMu stands at p.
Phase(p) ==
  /\ p \in {"startCheck", "stopBegin"} => Resting
  /\ p \in Starting => ~proxyOn /\ ~systemProxySet
  /\ p \in {"prepare", "building", "built"} => up = {}
  /\ p = "whitelist" => up \subseteq {"engine"}
  /\ p = "proxy" => up \subseteq {"engine", "whitelist"}
  /\ p \in {"route", "unroute"} => up \subseteq {"engine", "whitelist", "proxy"}
  /\ p \in Stopping => proxyOn
  /\ p \in {"halt", "windDown"} => "pac" \notin up /\ ~systemProxySet
  /\ p = "windDown" => "proxy" \notin up

\* The manager knows of the settings it wrote.
Owned == (systemProxySet => supportedDE) /\ (settings = "pac" => systemProxySet)

Machine ==
  /\ Owned
  /\ proxyMu = NoCall => Resting
  /\ \A c \in Calls : Phase(pc[c])

\* The last event is one of kinds, or it was emitted to nobody.
Told(kinds) ==
  \/ events # <<>> /\ events[Len(events)] \in kinds
  \/ events = <<>> /\ (missed \/ shown \in kinds)

Truthful ==
  /\ proxyOn => Told({"started", "stopError"})
  /\ ~proxyOn => Told({"stopped", "startError"})

\* A stop that queues on proxyMu will have an event of its own.
StopWaits == \E c \in Calls : pc[c] = "stopLock"

\* Only the stop that aborted a start may leave the window in the dark.
Tells ==
  /\ proxyMu = NoCall => Truthful \/ StopWaits
  /\ \A c \in Calls :
       /\ pc[c] = "startCheck" => Truthful \/ StopWaits
       /\ pc[c] = "building" /\ aborted => StopWaits

IInv == TypeOK /\ Machine /\ Tells
-----------------------------------------------------------------------------
(* Events: what the window has still to be told. *)

LEMMA EmitType ==
  ASSUME NEW s \in Seq(EventKinds), NEW k \in EventKinds
  PROVE  /\ Append(s, k) \in Seq(EventKinds)
         /\ Append(s, k) # <<>>
         /\ Append(s, k)[Len(Append(s, k))] = k
OBVIOUS

LEMMA TailKeepsLast ==
  ASSUME NEW s \in Seq(EventKinds), s # <<>>
  PROVE  /\ Head(s) \in EventKinds
         /\ Tail(s) \in Seq(EventKinds)
         /\ Tail(s) # <<>> => Tail(s)[Len(Tail(s))] = s[Len(s)]
         /\ Tail(s) = <<>> => Head(s) = s[Len(s)]
<1>1. /\ Head(s) \in EventKinds /\ Tail(s) \in Seq(EventKinds)
      /\ Len(Tail(s)) = Len(s) - 1
      /\ \A i \in 1 .. Len(Tail(s)) : Tail(s)[i] = s[i + 1]
  BY HeadTailProperties
<1>2. Len(s) \in Nat /\ Len(s) > 0
  BY EmptySeq, LenProperties
<1>3. Tail(s) # <<>> => Len(Tail(s)) \in 1 .. Len(Tail(s))
  BY <1>1, EmptySeq, LenProperties
<1>4. Tail(s) = <<>> => Len(s) = 1
  <2>1. Len(<<>>) = 0 => (Tail(s) = <<>> => Len(Tail(s)) = 0)
    BY Zenon
  <2>2. QED
    BY <1>1, <1>2, <2>1, EmptySeq
<1>5. Head(s) = s[1]
  OBVIOUS
<1>6. QED
  BY <1>1, <1>2, <1>3, <1>4, <1>5

LEMMA StopWhenOff ==
  ASSUME NEW s \in Seq(EventKinds)
  PROVE  LET t == s \o <<"stopping", "stopped">> IN
           t \in Seq(EventKinds) /\ t # <<>> /\ t[Len(t)] = "stopped"
<1> DEFINE b == <<"stopping", "stopped">>
<1>1. b \in Seq(EventKinds) /\ Len(b) = 2 /\ b[2] = "stopped"
  BY DEF EventKinds
<1>2. QED
  BY <1>1

\* An event that has just been emitted is the last one.
LEMMA EmitTold ==
  ASSUME TypeOK, NEW k \in EventKinds, Emit(k), NEW kinds, k \in kinds
  PROVE  Told(kinds)'
BY EmitType DEF TypeOK, Emit, Told
-----------------------------------------------------------------------------
(* Types, and who holds proxyMu. *)

\* A step of the call that holds proxyMu, or that takes or returns it.
LEMMA LockType ==
  ASSUME TypeOK, NEW c \in Calls, NEW where \in PCs, GoTo(c, where),
         pc[c] \in Locked \/ proxyMu = NoCall,
         proxyMu' = IF where \in Locked THEN c ELSE NoCall
  PROVE  /\ pc' \in [Calls -> PCs]
         /\ proxyMu' \in Calls \cup {NoCall}
         /\ (\A d \in Calls : pc[d] \in Locked <=> proxyMu = d)'
<1>1. pc' = [pc EXCEPT ![c] = where] /\ pc' \in [Calls -> PCs]
  BY DEF GoTo, TypeOK
<1>2. \A d \in Calls : pc'[d] = IF d = c THEN where ELSE pc[d]
  BY <1>1 DEF TypeOK
<1>3. \A d \in Calls \ {c} : pc[d] \notin Locked
  BY CallsAssumption DEF TypeOK
<1>4. QED
  BY <1>1, <1>2, <1>3, CallsAssumption

\* A step of a call that is not past a Lock and does not get past one.
LEMMA OutsideType ==
  ASSUME TypeOK, NEW c \in Calls, NEW where \in PCs, GoTo(c, where),
         pc[c] \notin Locked, where \notin Locked, UNCHANGED proxyMu
  PROVE  /\ pc' \in [Calls -> PCs]
         /\ proxyMu' \in Calls \cup {NoCall}
         /\ (\A d \in Calls : pc[d] \in Locked <=> proxyMu = d)'
<1>1. pc' \in [Calls -> PCs]
  BY DEF GoTo, TypeOK
<1>2. \A d \in Calls : pc'[d] = IF d = c THEN where ELSE pc[d]
  BY DEF GoTo, TypeOK
<1>3. QED
  BY <1>1, <1>2 DEF TypeOK

\* The rest of TypeOK.
TypeRest ==
  /\ result \in [Calls -> Results]
  /\ made \in 0 .. MaxCalls
  /\ stopPending \in BOOLEAN
  /\ buildAbort \in Calls \cup {NoCall}
  /\ aborted \in BOOLEAN
  /\ proxyOn \in BOOLEAN
  /\ up \subseteq Servers
  /\ systemProxySet \in BOOLEAN
  /\ settings \in Settings
  /\ supportedDE \in BOOLEAN
  /\ events \in Seq(EventKinds)
  /\ shown \in EventKinds
  /\ screen \in {"opening", "home", "intro", "last"} /\ missed \in BOOLEAN

LEMMA LockPlaces ==
  /\ Locked = {"startCheck", "prepare", "building", "built", "whitelist",
               "proxy", "route", "unroute", "turnOn", "stopBegin", "clear",
               "halt", "windDown"}
  /\ Locked \subseteq PCs
BY DEF Locked, PCs

\* Every call stands outside, or moves with the lock.
LEMMA Moves ==
  ASSUME TypeOK, NEW c \in Calls, CallStart(c) \/ CallStop(c) \/ Step(c)
  PROVE  \E where \in PCs :
           /\ GoTo(c, where)
           /\ \/ /\ pc[c] \in Locked \/ proxyMu = NoCall
                 /\ proxyMu' = IF where \in Locked THEN c ELSE NoCall
              \/ /\ pc[c] \notin Locked /\ where \notin Locked
                 /\ UNCHANGED proxyMu
<1>1. pc[c] \in Locked => proxyMu = c
  BY DEF TypeOK
<1>2. CASE CallStart(c) \/ CallStop(c) \/ LockStart(c) \/ LockStop(c)
           \/ MarkStop(c) \/ AbortBuild(c)
  BY <1>2, LockPlaces DEF CallStart, CallStop, LockStart, LockStop, MarkStop,
     AbortBuild, PCs
<1>3. CASE CheckStart(c) \/ OpenBuild(c) \/ EndBuild(c) \/ CloseBuild(c)
  BY <1>1, <1>3, LockPlaces DEF CheckStart, OpenBuild, EndBuild, CloseBuild,
     FailStart, Return, PCs
<1>4. CASE StartWhitelist(c) \/ StartListener(c) \/ SetSystemProxy(c)
           \/ UndoStart(c) \/ TurnOn(c)
  BY <1>1, <1>4, LockPlaces DEF StartWhitelist, StartListener, StartServer,
     SetSystemProxy, UndoStart, TurnOn, FailStart, Return, PCs
<1>5. CASE BeginStop(c) \/ ClearSystemProxy(c) \/ HaltProxy(c) \/ WindDown(c)
  BY <1>1, <1>5, LockPlaces DEF BeginStop, ClearSystemProxy, HaltProxy,
     WindDown, FailStop, Return, PCs
<1>6. QED
  BY <1>2, <1>3, <1>4, <1>5 DEF Step

\* The values that a call leaves in the other variables.
LEMMA RestStep ==
  ASSUME TypeOK, NEW c \in Calls, CallStart(c) \/ CallStop(c) \/ Step(c)
  PROVE  TypeRest'
<1>1. TypeRest /\ MaxCalls \in Nat
  BY MaxCallsAssumption DEF TypeOK, TypeRest
<1>2. \A k \in EventKinds : Append(events, k) \in Seq(EventKinds)
  BY <1>1, EmitType DEF TypeRest
<1>3. events \o <<"stopping", "stopped">> \in Seq(EventKinds)
  BY <1>1, StopWhenOff DEF TypeRest
<1>4. \A r \in Results : [result EXCEPT ![c] = r] \in [Calls -> Results]
  BY <1>1 DEF TypeRest
<1>5. CASE CallStart(c) \/ CallStop(c)
  BY <1>1, <1>4, <1>5 DEF CallStart, CallStop, TypeRest, machine, window, Results
<1>6. CASE LockStart(c) \/ LockStop(c) \/ MarkStop(c) \/ AbortBuild(c)
           \/ OpenBuild(c)
  <2>1. UNCHANGED <<result, made, machine, events, window>>
    BY <1>6 DEF LockStart, LockStop, MarkStop, AbortBuild, OpenBuild
  <2>2. /\ stopPending' \in BOOLEAN /\ aborted' \in BOOLEAN
        /\ buildAbort' \in Calls \cup {NoCall}
    BY <1>1, <1>6 DEF LockStart, LockStop, MarkStop, AbortBuild, OpenBuild,
       TypeRest
  <2>3. QED
    BY <1>1, <2>1, <2>2 DEF TypeRest, machine, window
<1>7. CASE CheckStart(c) \/ EndBuild(c)
  <2>1. result' \in [Calls -> Results]
    BY <1>1, <1>4, <1>7 DEF CheckStart, EndBuild, FailStart, Return, TypeRest,
       Results
  <2>2. events' \in Seq(EventKinds)
    BY <1>1, <1>2, <1>7 DEF CheckStart, EndBuild, FailStart, Emit, TypeRest,
       EventKinds
  <2>3. UNCHANGED <<made, stopPending, aborted, machine, window>>
    BY <1>7 DEF CheckStart, EndBuild
  <2>4. buildAbort' \in Calls \cup {NoCall}
    BY <1>1, <1>7 DEF CheckStart, EndBuild, ForgetAbort, TypeRest
  <2>5. QED
    BY <1>1, <2>1, <2>2, <2>3, <2>4 DEF TypeRest, machine, window
<1>8. CASE CloseBuild(c) \/ StartWhitelist(c) \/ StartListener(c)
  <2>1. FailStart(c) => result' \in [Calls -> Results]
                        /\ events' \in Seq(EventKinds)
    BY <1>2, <1>4 DEF FailStart, Return, Emit, Results, EventKinds
  <2>2. CASE CloseBuild(c)
    BY <1>1, <2>1, <2>2 DEF CloseBuild, ForgetAbort, TypeRest, window, Servers
  <2>3. CASE StartWhitelist(c)
    BY <1>1, <2>1, <2>3 DEF StartWhitelist, StartServer, Undone, TypeRest,
       window, Servers
  <2>4. CASE StartListener(c)
    <3>1. result' \in [Calls -> Results] /\ events' \in Seq(EventKinds)
      BY <1>1, <2>1, <2>4 DEF StartListener, StartServer, TypeRest
    <3>2. up' \subseteq Servers
      BY <1>1, <2>4 DEF StartListener, StartServer, Undone, TypeRest, Servers
    <3>3. UNCHANGED <<made, stopPending, buildAbort, aborted, proxyOn,
                      systemProxySet, settings, supportedDE, window>>
      BY <2>4 DEF StartListener, StartServer
    <3>4. QED
      BY <1>1, <3>1, <3>2, <3>3 DEF TypeRest, window
  <2>5. QED
    BY <1>8, <2>2, <2>3, <2>4
<1>9. CASE SetSystemProxy(c)
  <2>1. UNCHANGED <<result, made, stopPending, buildAbort, aborted, proxyOn,
                    supportedDE, events, window>>
    BY <1>9 DEF SetSystemProxy
  <2>2. up' \subseteq Servers
    BY <1>1, <1>9 DEF SetSystemProxy, FailedSet, TypeRest, Servers
  <2>3. systemProxySet' \in BOOLEAN /\ settings' \in Settings
    BY <1>1, <1>9 DEF SetSystemProxy, FailedSet, TypeRest, Settings
  <2>4. QED
    BY <1>1, <2>1, <2>2, <2>3 DEF TypeRest, window
<1>10. CASE UndoStart(c) \/ TurnOn(c)
  <2>1. result' \in [Calls -> Results] /\ events' \in Seq(EventKinds)
    BY <1>2, <1>4, <1>10 DEF UndoStart, TurnOn, FailStart, Return, Emit,
       Results, EventKinds
  <2>2. up' \subseteq Servers /\ proxyOn' \in BOOLEAN
    BY <1>1, <1>10 DEF UndoStart, TurnOn, Undone, TypeRest
  <2>3. UNCHANGED <<made, stopPending, buildAbort, aborted, systemProxySet,
                    settings, supportedDE, window>>
    BY <1>10 DEF UndoStart, TurnOn
  <2>4. QED
    BY <1>1, <2>1, <2>2, <2>3 DEF TypeRest, window
<1>11. CASE BeginStop(c)
  <2>1. result' \in [Calls -> Results]
    BY <1>1, <1>4, <1>11 DEF BeginStop, Return, TypeRest, Results
  <2>2. events' \in Seq(EventKinds)
    BY <1>1, <1>2, <1>3, <1>11 DEF BeginStop, Emit, TypeRest, EventKinds
  <2>3. stopPending' \in BOOLEAN
    BY <1>1, <1>11 DEF BeginStop, TypeRest
  <2>4. UNCHANGED <<made, buildAbort, aborted, machine, window>>
    BY <1>11 DEF BeginStop
  <2>5. QED
    BY <1>1, <2>1, <2>2, <2>3, <2>4 DEF TypeRest, machine, window
<1>12. CASE ClearSystemProxy(c) \/ HaltProxy(c) \/ WindDown(c)
  <2>1. FailStop(c) => result' \in [Calls -> Results]
                       /\ events' \in Seq(EventKinds)
    BY <1>2, <1>4 DEF FailStop, Return, Emit, Results, EventKinds
  <2>2. CASE ClearSystemProxy(c)
    <3>1. result' \in [Calls -> Results] /\ events' \in Seq(EventKinds)
      BY <1>1, <2>1, <2>2 DEF ClearSystemProxy, TypeRest
    <3>2. up' \subseteq Servers
      BY <1>1, <2>2 DEF ClearSystemProxy, TypeRest
    <3>3. systemProxySet' \in BOOLEAN /\ settings' \in Settings
      BY <1>1, <2>2 DEF ClearSystemProxy, FailedUnset, TypeRest, Settings
    <3>4. UNCHANGED <<made, stopPending, buildAbort, aborted, proxyOn,
                      supportedDE, window>>
      BY <2>2 DEF ClearSystemProxy
    <3>5. QED
      BY <1>1, <3>1, <3>2, <3>3, <3>4 DEF TypeRest, window
  <2>3. CASE HaltProxy(c)
    BY <1>1, <2>1, <2>3 DEF HaltProxy, TypeRest, window
  <2>4. CASE WindDown(c)
    <3>1. result' \in [Calls -> Results] /\ events' \in Seq(EventKinds)
      BY <1>2, <1>4, <2>1, <2>4 DEF WindDown, Return, Emit, Results, EventKinds
    <3>2. up' \subseteq Servers /\ proxyOn' \in BOOLEAN
      BY <1>1, <2>4 DEF WindDown, Undone, TypeRest
    <3>3. UNCHANGED <<made, stopPending, buildAbort, aborted, systemProxySet,
                      settings, supportedDE, window>>
      BY <2>4 DEF WindDown
    <3>4. QED
      BY <1>1, <3>1, <3>2, <3>3 DEF TypeRest, window
  <2>5. QED
    BY <1>12, <2>2, <2>3, <2>4
<1>13. QED
  BY <1>5, <1>6, <1>7, <1>8, <1>9, <1>10, <1>11, <1>12 DEF Step

LEMMA TypeStep ==
  ASSUME TypeOK, NEW c \in Calls, CallStart(c) \/ CallStop(c) \/ Step(c)
  PROVE  TypeOK'
<1>1. PICK where \in PCs :
        /\ GoTo(c, where)
        /\ \/ /\ pc[c] \in Locked \/ proxyMu = NoCall
              /\ proxyMu' = IF where \in Locked THEN c ELSE NoCall
           \/ /\ pc[c] \notin Locked /\ where \notin Locked
              /\ UNCHANGED proxyMu
  BY Moves
<1>2. /\ pc' \in [Calls -> PCs]
      /\ proxyMu' \in Calls \cup {NoCall}
      /\ (\A d \in Calls : pc[d] \in Locked <=> proxyMu = d)'
  BY <1>1, LockType, OutsideType
<1>3. TypeRest'
  BY RestStep
<1>4. QED
  BY <1>2, <1>3 DEF TypeOK, TypeRest

LEMMA WindowStep ==
  ASSUME TypeOK, HandleEvent \/ WindowActs
  PROVE  TypeOK'
<1>1. CASE HandleEvent
  <2>1. Tail(events) \in Seq(EventKinds) /\ Head(events) \in EventKinds
    BY <1>1, TailKeepsLast DEF HandleEvent, TypeOK
  <2>2. QED
    BY <1>1, <2>1 DEF HandleEvent, Closed, TypeOK, machine
<1>2. CASE WindowActs
  BY <1>2 DEF WindowActs, Closed, TypeOK, machine
<1>3. QED
  BY <1>1, <1>2
-----------------------------------------------------------------------------
(* The machine. *)

\* What a step of the holder of proxyMu has to establish, at its new place.
LEMMA HolderStep ==
  ASSUME TypeOK, TypeOK', Machine, NEW c \in Calls, NEW where \in PCs,
         GoTo(c, where), pc[c] \in Locked \/ where \in Locked,
         Owned', Phase(where)', proxyMu' = NoCall => Resting'
  PROVE  Machine'
<1>1. \A d \in Calls : pc'[d] = IF d = c THEN where ELSE pc[d]
  BY DEF GoTo, TypeOK
<1>2. \A d \in Calls \ {c} : pc'[d] \notin Locked
  BY <1>1 DEF TypeOK
<1>3. \A p : p \notin Locked /\ p \in PCs => Phase(p)'
  BY LockPlaces DEF Phase, Starting, Stopping
<1>4. \A d \in Calls : Phase(pc[d])'
  BY <1>1, <1>2, <1>3 DEF TypeOK
<1>5. QED
  BY <1>4 DEF Machine

\* A step outside of proxyMu leaves the machine alone.
LEMMA MachineUntouched ==
  ASSUME TypeOK, Machine, UNCHANGED <<proxyMu, machine>>,
         \A d \in Calls : pc'[d] = pc[d] \/ pc'[d] \in PCs \ Locked
  PROVE  Machine'
<1>1. \A p : Phase(p)' <=> Phase(p)
  BY DEF Phase, Resting, machine
<1>2. \A p : p \in PCs \ Locked => Phase(p)
  BY LockPlaces DEF Phase, Starting, Stopping
<1>3. \A d \in Calls : Phase(pc[d])'
  BY <1>1, <1>2 DEF Machine
<1>4. QED
  BY <1>3 DEF Machine, Owned, Resting, machine

LEMMA OutsideMachine ==
  ASSUME TypeOK, Machine, NEW c \in Calls,
         CallStart(c) \/ CallStop(c) \/ MarkStop(c) \/ AbortBuild(c)
  PROVE  Machine'
<1>1. \A d \in Calls : pc'[d] = pc[d] \/ pc'[d] \in PCs \ Locked
  BY LockPlaces DEF CallStart, CallStop, MarkStop, AbortBuild, GoTo, TypeOK, PCs
<1>2. UNCHANGED <<proxyMu, machine>>
  BY DEF CallStart, CallStop, MarkStop, AbortBuild
<1>3. QED
  BY <1>1, <1>2, MachineUntouched

LEMMA StartMachine ==
  ASSUME TypeOK, TypeOK', Machine, NEW c \in Calls,
         LockStart(c) \/ CheckStart(c) \/ OpenBuild(c) \/ EndBuild(c)
           \/ CloseBuild(c) \/ StartWhitelist(c) \/ StartListener(c)
           \/ SetSystemProxy(c) \/ UndoStart(c) \/ TurnOn(c)
  PROVE  Machine'
<1> DEFINE Goal(where) ==
      /\ where \in PCs /\ GoTo(c, where)
      /\ pc[c] \in Locked \/ where \in Locked
      /\ Owned' /\ Phase(where)' /\ (proxyMu' = NoCall => Resting')
<1>1. SUFFICES \E where : Goal(where)
  BY HolderStep
<1> HIDE DEF Goal
<1>2. /\ Owned /\ Phase(pc[c]) /\ (proxyMu = NoCall => Resting)
      /\ pc[c] \in Locked => proxyMu # NoCall
  BY CallsAssumption DEF Machine, TypeOK
<1> USE LockPlaces
<1>3. CASE LockStart(c)
  <2>1. Goal("startCheck")
    BY <1>2, <1>3, CallsAssumption DEF Goal, LockStart, Phase, Starting,
       Stopping, Resting, Owned, machine, PCs
  <2>2. QED
    BY <2>1
<1>4. CASE CheckStart(c)
  <2>1. Goal("idle") \/ Goal("prepare")
    BY <1>2, <1>4 DEF Goal, CheckStart, Return, Phase, Starting,
       Stopping, Resting, Owned, machine, PCs
  <2>2. QED
    BY <2>1
<1>5. CASE OpenBuild(c)
  <2>1. Goal("building")
    BY <1>2, <1>5 DEF Goal, OpenBuild, Phase, Starting,
       Stopping, Resting, Owned, machine, PCs
  <2>2. QED
    BY <2>1
<1>6. CASE EndBuild(c)
  <2>1. Goal("idle") \/ Goal("built")
    BY <1>2, <1>6 DEF Goal, EndBuild, FailStart, Return, Phase, Starting,
       Stopping, Resting, Owned, machine, PCs
  <2>2. QED
    BY <2>1
<1>7. CASE CloseBuild(c)
  <2>1. Goal("whitelist") \/ Goal("idle")
    BY <1>2, <1>7 DEF Goal, CloseBuild, FailStart, Return, Phase, Starting,
       Stopping, Resting, Owned, PCs
  <2>2. QED
    BY <2>1
<1>8. CASE StartWhitelist(c)
  <2>1. Goal("proxy") \/ Goal("idle")
    BY <1>2, <1>8 DEF Goal, StartWhitelist, StartServer, Undone, FailStart,
       Return, Phase, Starting, Stopping, Resting, Owned, PCs
  <2>2. QED
    BY <2>1
<1>9. CASE StartListener(c)
  <2>1. Goal("route") \/ Goal("idle")
    BY <1>2, <1>9 DEF Goal, StartListener, StartServer, Undone, FailStart,
       Return, Phase, Starting, Stopping, Resting, Owned, PCs
  <2>2. QED
    BY <2>1
<1>10. CASE SetSystemProxy(c)
  <2>1. Goal("turnOn") \/ Goal("unroute")
    BY <1>2, <1>10 DEF Goal, SetSystemProxy, FailedSet, Phase, Starting,
       Stopping, Resting, Owned, PCs
  <2>2. QED
    BY <2>1
<1>11. CASE UndoStart(c)
  <2>1. Goal("idle")
    BY <1>2, <1>11 DEF Goal, UndoStart, Undone, FailStart, Return, Phase,
       Starting, Stopping, Resting, Owned, PCs
  <2>2. QED
    BY <2>1
<1>12. CASE TurnOn(c)
  <2>1. Goal("idle")
    BY <1>2, <1>12 DEF Goal, TurnOn, Return, Phase, Starting, Stopping,
       Resting, Owned, PCs
  <2>2. QED
    BY <2>1
<1>13. QED
  BY <1>3, <1>4, <1>5, <1>6, <1>7, <1>8, <1>9, <1>10, <1>11, <1>12

LEMMA StopMachine ==
  ASSUME TypeOK, TypeOK', Machine, NEW c \in Calls,
         LockStop(c) \/ BeginStop(c) \/ ClearSystemProxy(c) \/ HaltProxy(c)
           \/ WindDown(c)
  PROVE  Machine'
<1> DEFINE Goal(where) ==
      /\ where \in PCs /\ GoTo(c, where)
      /\ pc[c] \in Locked \/ where \in Locked
      /\ Owned' /\ Phase(where)' /\ (proxyMu' = NoCall => Resting')
<1>1. SUFFICES \E where : Goal(where)
  BY HolderStep
<1> HIDE DEF Goal
<1>2. Owned /\ Phase(pc[c]) /\ (proxyMu = NoCall => Resting)
  BY DEF Machine
<1> USE LockPlaces
<1>3. CASE LockStop(c)
  <2>1. Goal("stopBegin")
    BY <1>2, <1>3, CallsAssumption DEF Goal, LockStop, Phase, Starting,
       Stopping, Resting, Owned, machine, PCs
  <2>2. QED
    BY <2>1
<1>4. CASE BeginStop(c)
  <2>1. Goal("clear") \/ Goal("idle")
    BY <1>2, <1>4 DEF Goal, BeginStop, Return, Phase, Starting, Stopping,
       Resting, Owned, machine, PCs
  <2>2. QED
    BY <2>1
<1>5. CASE ClearSystemProxy(c)
  <2>1. Goal("halt") \/ Goal("idle")
    BY <1>2, <1>5 DEF Goal, ClearSystemProxy, FailedUnset, FailStop, Return,
       Phase, Starting, Stopping, Resting, Owned, PCs
  <2>2. QED
    BY <2>1
<1>6. CASE HaltProxy(c)
  <2>1. Goal("windDown") \/ Goal("idle")
    BY <1>2, <1>6 DEF Goal, HaltProxy, FailStop, Return, Phase, Starting,
       Stopping, Resting, Owned, PCs
  <2>2. QED
    BY <2>1
<1>7. CASE WindDown(c)
  <2>1. up \subseteq {"whitelist", "engine"}
    BY <1>2, <1>7 DEF WindDown, Phase, TypeOK, Servers
  <2>2. Goal("idle")
    BY <1>2, <1>7, <2>1 DEF Goal, WindDown, Undone, FailStop, Return, Phase,
       Starting, Stopping, Resting, Owned, PCs
  <2>3. QED
    BY <2>2
<1>8. QED
  BY <1>3, <1>4, <1>5, <1>6, <1>7
-----------------------------------------------------------------------------
(* What the window is told. *)

\* What a step of the holder of proxyMu has to establish, at its new place.
LEMMA HolderTells ==
  ASSUME TypeOK, TypeOK', NEW c \in Calls, NEW where \in PCs,
         GoTo(c, where), pc[c] \in Locked \/ where \in Locked,
         proxyMu' = NoCall \/ where = "startCheck" => (Truthful \/ StopWaits)',
         where = "building" /\ aborted' => StopWaits'
  PROVE  Tells'
<1>1. \A d \in Calls : pc'[d] = IF d = c THEN where ELSE pc[d]
  BY DEF GoTo, TypeOK
<1>2. \A d \in Calls \ {c} : pc'[d] \notin Locked
  BY <1>1 DEF TypeOK
<1>3. QED
  BY <1>1, <1>2, LockPlaces DEF Tells

\* A step of any other call leaves a waiting stop where it is.
LEMMA StopKeepsWaiting ==
  ASSUME TypeOK, StopWaits, NEW c \in Calls, NEW where, GoTo(c, where),
         pc[c] # "stopLock" \/ where = "stopLock"
  PROVE  StopWaits'
BY DEF StopWaits, GoTo, TypeOK

LEMMA TruthKept ==
  ASSUME UNCHANGED <<proxyOn, events, shown, missed>>
  PROVE  Truthful' <=> Truthful
BY DEF Truthful, Told

LEMMA OutsideTells ==
  ASSUME TypeOK, Tells, NEW c \in Calls,
         CallStart(c) \/ CallStop(c) \/ MarkStop(c) \/ AbortBuild(c)
  PROVE  Tells'
<1>1. PICK where \in PCs \ Locked :
        GoTo(c, where) /\ (pc[c] # "stopLock" \/ where = "stopLock")
  BY LockPlaces DEF CallStart, CallStop, MarkStop, AbortBuild, PCs
<1>2. StopWaits => StopWaits'
  BY <1>1, StopKeepsWaiting
<1>3. UNCHANGED <<proxyMu, proxyOn, events, shown, missed>>
  BY DEF CallStart, CallStop, MarkStop, AbortBuild, machine, window
<1>4. Truthful' <=> Truthful
  BY <1>3, TruthKept
<1>5. \A d \in Calls : pc'[d] = IF d = c THEN where ELSE pc[d]
  BY <1>1 DEF GoTo, TypeOK
<1>6. aborted' = aborted \/ StopWaits'
  <2>1. CASE AbortBuild(c)
    BY <2>1 DEF AbortBuild, GoTo, StopWaits, TypeOK
  <2>2. QED
    BY <2>1 DEF CallStart, CallStop, MarkStop
<1>7. QED
  BY <1>1, <1>2, <1>3, <1>4, <1>5, <1>6, LockPlaces DEF Tells

LEMMA StartTells ==
  ASSUME TypeOK, TypeOK', Machine, Tells, NEW c \in Calls,
         LockStart(c) \/ CheckStart(c) \/ OpenBuild(c) \/ EndBuild(c)
           \/ CloseBuild(c) \/ StartWhitelist(c) \/ StartListener(c)
           \/ SetSystemProxy(c) \/ UndoStart(c) \/ TurnOn(c)
  PROVE  Tells'
<1> DEFINE Goal(where) ==
      /\ where \in PCs /\ GoTo(c, where)
      /\ pc[c] \in Locked \/ where \in Locked
      /\ proxyMu' = NoCall \/ where = "startCheck" => (Truthful \/ StopWaits)'
      /\ where = "building" /\ aborted' => StopWaits'
<1>1. SUFFICES \E where : Goal(where)
  BY HolderTells
<1> HIDE DEF Goal
<1>2. pc[c] \in Locked => proxyMu # NoCall
  BY CallsAssumption DEF TypeOK
<1>3. pc[c] \in Starting => ~proxyOn
  BY DEF Machine, Phase
<1>4. ASSUME StopWaits, pc[c] # "stopLock", NEW where, GoTo(c, where)
      PROVE  StopWaits'
  BY <1>4, StopKeepsWaiting
<1>5. UNCHANGED <<proxyOn, events, shown, missed>> => (Truthful' <=> Truthful)
  BY TruthKept
<1>6. ASSUME FailStart(c), ~proxyOn' PROVE Truthful'
  BY <1>6, EmitTold DEF FailStart, Truthful, EventKinds
<1> USE LockPlaces
<1>7. CASE LockStart(c)
  <2>1. Goal("startCheck")
    BY <1>4, <1>5, <1>7 DEF Goal, LockStart, Tells, machine, window
  <2>2. QED
    BY <2>1
<1>8. CASE CheckStart(c)
  <2>1. Goal("idle") \/ Goal("prepare")
    BY <1>2, <1>4, <1>5, <1>8 DEF Goal, CheckStart, Return, Tells, machine,
       window, PCs
  <2>2. QED
    BY <2>1
<1>9. CASE OpenBuild(c)
  <2>1. Goal("building")
    BY <1>2, <1>9 DEF Goal, OpenBuild
  <2>2. QED
    BY <2>1
<1>10. CASE EndBuild(c)
  <2>1. Goal("idle") \/ Goal("built")
    BY <1>2, <1>3, <1>4, <1>6, <1>10 DEF Goal, EndBuild, FailStart, Return,
       Tells, machine, Starting, PCs
  <2>2. QED
    BY <2>1
<1>11. CASE CloseBuild(c)
  <2>1. Goal("whitelist") \/ Goal("idle")
    BY <1>2, <1>3, <1>6, <1>11 DEF Goal, CloseBuild, FailStart, Return,
       Starting, PCs
  <2>2. QED
    BY <2>1
<1>12. CASE StartWhitelist(c)
  <2>1. Goal("proxy") \/ Goal("idle")
    BY <1>2, <1>3, <1>6, <1>12 DEF Goal, StartWhitelist, StartServer,
       FailStart, Return, Starting, PCs
  <2>2. QED
    BY <2>1
<1>13. CASE StartListener(c)
  <2>1. Goal("route") \/ Goal("idle")
    BY <1>2, <1>3, <1>6, <1>13 DEF Goal, StartListener, StartServer,
       FailStart, Return, Starting, PCs
  <2>2. QED
    BY <2>1
<1>14. CASE SetSystemProxy(c)
  <2>1. Goal("turnOn") \/ Goal("unroute")
    BY <1>2, <1>14 DEF Goal, SetSystemProxy
  <2>2. QED
    BY <2>1
<1>15. CASE UndoStart(c)
  <2>1. Goal("idle")
    BY <1>3, <1>6, <1>15 DEF Goal, UndoStart, FailStart, Return, Starting, PCs
  <2>2. QED
    BY <2>1
<1>16. CASE TurnOn(c)
  <2>1. Truthful'
    BY <1>16, EmitTold DEF TurnOn, Truthful, EventKinds
  <2>2. Goal("idle")
    BY <1>16, <2>1 DEF Goal, TurnOn, Return, PCs
  <2>3. QED
    BY <2>2
<1>17. QED
  BY <1>7, <1>8, <1>9, <1>10, <1>11, <1>12, <1>13, <1>14, <1>15, <1>16

LEMMA StopTells ==
  ASSUME TypeOK, TypeOK', Machine, Tells, NEW c \in Calls,
         LockStop(c) \/ BeginStop(c) \/ ClearSystemProxy(c) \/ HaltProxy(c)
           \/ WindDown(c)
  PROVE  Tells'
<1> DEFINE Goal(where) ==
      /\ where \in PCs /\ GoTo(c, where)
      /\ pc[c] \in Locked \/ where \in Locked
      /\ proxyMu' = NoCall \/ where = "startCheck" => (Truthful \/ StopWaits)'
      /\ where = "building" /\ aborted' => StopWaits'
<1>1. SUFFICES \E where : Goal(where)
  BY HolderTells
<1> HIDE DEF Goal
<1>2. pc[c] \in Locked => proxyMu # NoCall
  BY CallsAssumption DEF TypeOK
<1>3. pc[c] \in Stopping => proxyOn
  BY DEF Machine, Phase
<1>4. ASSUME FailStop(c), proxyOn' PROVE Truthful'
  BY <1>4, EmitTold DEF FailStop, Truthful, EventKinds
<1> USE LockPlaces
<1>5. CASE LockStop(c)
  <2>1. Goal("stopBegin")
    BY <1>5, CallsAssumption DEF Goal, LockStop
  <2>2. QED
    BY <2>1
<1>6. CASE BeginStop(c)
  <2>1. CASE proxyOn
    BY <1>2, <1>6, <2>1 DEF Goal, BeginStop
  <2>2. CASE ~proxyOn
    <3>1. events' = events \o <<"stopping", "stopped">> /\ ~proxyOn'
      BY <1>6, <2>2 DEF BeginStop, machine
    <3>2. Truthful'
      BY <3>1, StopWhenOff DEF Truthful, Told, TypeOK
    <3>3. Goal("idle")
      BY <1>6, <2>2, <3>2 DEF Goal, BeginStop, Return, PCs
    <3>4. QED
      BY <3>3
  <2>3. QED
    BY <2>1, <2>2
<1>7. CASE ClearSystemProxy(c)
  <2>1. Goal("halt") \/ Goal("idle")
    BY <1>2, <1>3, <1>4, <1>7 DEF Goal, ClearSystemProxy, FailStop, Return,
       Stopping, PCs
  <2>2. QED
    BY <2>1
<1>8. CASE HaltProxy(c)
  <2>1. Goal("windDown") \/ Goal("idle")
    BY <1>2, <1>3, <1>4, <1>8 DEF Goal, HaltProxy, FailStop, Return,
       Stopping, PCs
  <2>2. QED
    BY <2>1
<1>9. CASE WindDown(c)
  <2>1. Emit("stopped") /\ ~proxyOn' => Truthful'
    BY EmitTold DEF Truthful, EventKinds
  <2>2. Goal("idle")
    BY <1>3, <1>4, <1>9, <2>1 DEF Goal, WindDown, FailStop, Return, Stopping,
       PCs
  <2>3. QED
    BY <2>2
<1>10. QED
  BY <1>5, <1>6, <1>7, <1>8, <1>9

\* The window catches up event by event, the introduction hears none.
LEMMA WindowTells ==
  ASSUME TypeOK, Tells, HandleEvent \/ WindowActs
  PROVE  Tells'
<1>1. UNCHANGED <<pc, proxyMu, aborted, proxyOn>>
  BY DEF HandleEvent, WindowActs, machine
<1>2. ASSUME NEW kinds, Told(kinds) PROVE Told(kinds)'
  <2>1. CASE HandleEvent
    <3>1. /\ Tail(events) # <<>> =>
               Tail(events)[Len(Tail(events))] = events[Len(events)]
          /\ Tail(events) = <<>> => Head(events) = events[Len(events)]
      BY <2>1, TailKeepsLast DEF HandleEvent, TypeOK
    <3>2. events' = Tail(events) /\ events # <<>>
      BY <2>1 DEF HandleEvent
    <3>3. missed' \/ shown' = Head(events)
      BY <2>1 DEF HandleEvent
    <3>4. QED
      BY <1>2, <3>1, <3>2, <3>3 DEF Told
  <2>2. CASE WindowActs
    BY <1>2, <2>2 DEF WindowActs, Told
  <2>3. QED
    BY <2>1, <2>2
<1>3. Truthful => Truthful'
  BY <1>1, <1>2 DEF Truthful
<1>4. StopWaits' <=> StopWaits
  BY <1>1 DEF StopWaits
<1>5. QED
  BY <1>1, <1>3, <1>4 DEF Tells
-----------------------------------------------------------------------------
(* The theorems. *)

LEMMA Initially == Init => IInv
<1> SUFFICES ASSUME Init PROVE IInv
  OBVIOUS
<1>1. TypeOK
  <2>1. pc \in [Calls -> PCs] /\ result \in [Calls -> Results]
    BY DEF Init, PCs, Results
  <2>2. \A c \in Calls : pc[c] \in Locked <=> proxyMu = c
    BY CallsAssumption, LockPlaces DEF Init
  <2>3. events \in Seq(EventKinds)
    BY EmptySeq DEF Init
  <2>4. made \in 0 .. MaxCalls
    BY MaxCallsAssumption DEF Init
  <2>5. /\ proxyMu \in Calls \cup {NoCall} /\ buildAbort \in Calls \cup {NoCall}
        /\ up \subseteq Servers /\ settings \in Settings
        /\ shown \in EventKinds
        /\ screen \in {"opening", "home", "intro", "last"}
    BY DEF Init, Settings, EventKinds
  <2>6. /\ stopPending \in BOOLEAN /\ aborted \in BOOLEAN
        /\ proxyOn \in BOOLEAN /\ systemProxySet \in BOOLEAN
        /\ supportedDE \in BOOLEAN /\ missed \in BOOLEAN
    BY DEF Init
  <2>7. QED
    BY <2>1, <2>2, <2>3, <2>4, <2>5, <2>6 DEF TypeOK
<1>2. Machine
  BY DEF Init, Machine, Owned, Resting, Phase, Starting, Stopping
<1>3. Tells
  BY DEF Init, Tells, Truthful, Told
<1>4. QED
  BY <1>1, <1>2, <1>3 DEF IInv

LEMMA Inductive == IInv /\ [Next]_vars => IInv'
<1> SUFFICES ASSUME IInv, [Next]_vars PROVE IInv'
  OBVIOUS
<1>1. ASSUME NEW c \in Calls, CallStart(c) \/ CallStop(c) \/ Step(c)
      PROVE  IInv'
  <2>1. TypeOK'
    BY <1>1, TypeStep DEF IInv
  <2>2. Machine'
    BY <1>1, <2>1, OutsideMachine, StartMachine, StopMachine DEF IInv, Step
  <2>3. Tells'
    BY <1>1, <2>1, OutsideTells, StartTells, StopTells DEF IInv, Step
  <2>4. QED
    BY <2>1, <2>2, <2>3 DEF IInv
<1>2. CASE HandleEvent \/ WindowActs
  <2>1. TypeOK' /\ Tells'
    BY <1>2, WindowStep, WindowTells DEF IInv
  <2>2. Machine'
    BY <1>2, MachineUntouched DEF IInv, HandleEvent, WindowActs
  <2>3. QED
    BY <2>1, <2>2 DEF IInv
<1>3. CASE UNCHANGED vars
  <2>1. TypeOK'
    BY <1>3 DEF vars, IInv, TypeOK
  <2>2. Machine'
    BY <1>3, MachineUntouched DEF vars, IInv, machine
  <2>3. Tells'
    BY <1>3 DEF vars, IInv, Tells, Truthful, Told, StopWaits
  <2>4. QED
    BY <2>1, <2>2, <2>3 DEF IInv
<1>4. QED
  BY <1>1, <1>2, <1>3 DEF Next, AllDone

LEMMA Invariance == Spec => []IInv
  BY Initially, Inductive, PTL DEF Spec

\* Every variable stays within its type, and proxyMu is held by exactly the
\* call that is past its Lock: no outcome of a start or a stop returns with it.
THEOREM TypeCorrect == Spec => []TypeOK
<1>1. IInv => TypeOK
  BY DEF IInv
<1>2. QED
  BY <1>1, Invariance, PTL

\* Whichever step of StartProxy or StopProxy fails, for any interleaving of
\* calls: with proxyMu free and the proxy off, no server runs and the settings of
\* the operating system are clear, or hold what a failed Set wrote and its undo,
\* failing too, did not take back.
THEOREM NothingLeftBehind == Spec => []OffMeansDown
<1>1. IInv => OffMeansDown
  BY DEF IInv, TypeOK, Settings, Machine, Owned, Resting, OffMeansDown
<1>2. QED
  BY <1>1, Invariance, PTL

\* When every call has returned and the window has handled every event, it
\* shows the outcome of the last call, although an aborted start emits none:
\* the stop that aborted it queues on proxyMu and emits its own.
THEOREM WindowTellsOutcome == Spec => []WindowCatchesUp
<1>1. ASSUME IInv, \A c \in Calls : pc[c] = "idle", events = <<>>, ~missed
      PROVE  Truthful
  <2>1. proxyMu = NoCall
    BY <1>1, LockPlaces DEF IInv, TypeOK
  <2>2. ~StopWaits
    BY <1>1 DEF StopWaits
  <2>3. QED
    BY <1>1, <2>1, <2>2 DEF IInv, Tells
<1>2. IInv => WindowCatchesUp
  BY <1>1 DEF WindowCatchesUp, Truthful, Told
<1>3. QED
  BY <1>2, Invariance, PTL
=============================================================================
