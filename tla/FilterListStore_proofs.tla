------------------------ MODULE FilterListStore_proofs ------------------------
(***************************************************************************)
(* Machine-checked proofs about FilterListStore, for every set of callers, *)
(* URLs and modes, every number of slots and every bound: the flights and  *)
(* the fetch slots are never lost, doubled or taken over, no caller waits  *)
(* on a flight that nobody will close, and what is served is fresh.        *)
(*                                                                         *)
(* None of the invariants is inductive alone.  Giving a slot back needs    *)
(* SlotAccounting to stay above zero, FlightOwnership needs it to be known *)
(* who leads, and the attempt counter needs to be bounded in the sleep.    *)
(***************************************************************************)
EXTENDS FilterListStore, FiniteSetTheorems, TLAPS

Holders == {c \in Callers : pc[c] \in Holding}

\* A caller that sleeps has attempts left.
BackoffBounded ==
  \A c \in Callers : pc[c] = "backoff" => call[c].attempt < MaxAttempts

Discipline == /\ FlightOwnership
              /\ SlotAccounting
              /\ NoLostWakeup
              /\ BackoffBounded

IInv == TypeOK /\ Discipline
-----------------------------------------------------------------------------
(* Types of the values that the actions build. *)

LEMMA ValueTypes ==
  /\ NoEntry \in Entries
  /\ NoContent \in Contents
  /\ NoCall \in Calls
  /\ \A src \in Sources : Failure(src) \in Answers
  /\ \A src \in Sources, v \in Versions, b \in BOOLEAN :
       Served(src, v, b) \in Answers
<1>1. NoEntry \in Entries /\ NoContent \in Contents
  BY VersionAssumption DEF NoEntry, Entries, NoContent, Contents, Versions
<1>2. NoCall \in Calls
  BY <1>1, UrlsAssumption, AttemptsAssumption, VersionAssumption
     DEF NoCall, NewCall, Calls, Versions, FetchModes
<1>3. \A src \in Sources : Failure(src) \in Answers
  BY VersionAssumption DEF Failure, Answers, Versions
<1>4. \A src \in Sources, v \in Versions, b \in BOOLEAN :
        Served(src, v, b) \in Answers
  BY DEF Served, Answers
<1> QED BY <1>1, <1>2, <1>3, <1>4

LEMMA FieldTypes ==
  ASSUME TypeOK, NEW c \in Callers
  PROVE  /\ call[c].url \in Urls
         /\ call[c].meta \in Entries
         /\ call[c].stale \in Contents
         /\ call[c].stale.ver \in Versions
         /\ call[c].stale.tag \in Versions
         /\ call[c].got \in Contents
         /\ call[c].got.ver \in Versions
         /\ call[c].got.tag \in Versions
         /\ call[c].attempt \in 1 .. MaxAttempts
BY DEF TypeOK, Calls, Contents

\* The updates of a caller's locals that the actions make keep their type.
LEMMA LocalTypes ==
  ASSUME TypeOK, NEW c \in Callers, NEW e \in Entries,
         NEW s \in Contents, NEW g \in Contents, NEW n \in 1 .. MaxAttempts
  PROVE  /\ [call EXCEPT ![c].ended = TRUE] \in [Callers -> Calls]
         /\ [call EXCEPT ![c].meta = e] \in [Callers -> Calls]
         /\ [call EXCEPT ![c].stale = s] \in [Callers -> Calls]
         /\ [call EXCEPT ![c].stale = s, ![c].meta = e] \in [Callers -> Calls]
         /\ [call EXCEPT ![c].got = g, ![c].stale = s] \in [Callers -> Calls]
         /\ [call EXCEPT ![c].attempt = n] \in [Callers -> Calls]
<1>1. call \in [Callers -> Calls] /\ call[c] \in Calls
  BY DEF TypeOK
<1>2. /\ [call[c] EXCEPT !.ended = TRUE] \in Calls
      /\ [call[c] EXCEPT !.meta = e] \in Calls
      /\ [call[c] EXCEPT !.attempt = n] \in Calls
  BY <1>1 DEF Calls
<1>3. /\ [call[c] EXCEPT !.stale = s] \in Calls
      /\ [[call[c] EXCEPT !.stale = s] EXCEPT !.meta = e] \in Calls
      /\ [[call[c] EXCEPT !.got = g] EXCEPT !.stale = s] \in Calls
  BY <1>1 DEF Calls
<1>4. /\ [call EXCEPT ![c].ended = TRUE] \in [Callers -> Calls]
      /\ [call EXCEPT ![c].meta = e] \in [Callers -> Calls]
      /\ [call EXCEPT ![c].attempt = n] \in [Callers -> Calls]
  BY <1>1, <1>2
<1>5. [call EXCEPT ![c].stale = s] \in [Callers -> Calls]
  BY <1>1, <1>3
<1>6. [call EXCEPT ![c].stale = s, ![c].meta = e] \in [Callers -> Calls]
  BY <1>1, <1>3
<1>7. [call EXCEPT ![c].got = g, ![c].stale = s] \in [Callers -> Calls]
  BY <1>1, <1>3
<1> QED BY <1>4, <1>5, <1>6, <1>7

LEMMA AnswerType ==
  ASSUME TypeOK, NEW c \in Callers, NEW a \in Answers, Answer(c, a)
  PROVE  /\ call' \in [Callers -> Calls]
         /\ answer' \in [Callers -> Answers]
         /\ \A d \in Callers \ {c} : call'[d] = call[d]
BY ValueTypes DEF Answer, TypeOK

LEMMA GoToType ==
  ASSUME TypeOK, NEW c \in Callers, NEW where \in PCs, GoTo(c, where)
  PROVE  pc' \in [Callers -> PCs]
BY DEF GoTo, TypeOK

LEMMA ExitFlightType ==
  ASSUME TypeOK, NEW c \in Callers, NEW next \in PCs, ExitFlight(c, next)
  PROVE  /\ inflight' \in [Urls -> Callers \cup {NoCaller}]
         /\ pc' \in [Callers -> PCs]
BY DEF ExitFlight, TypeOK, PCs
-----------------------------------------------------------------------------
(* How the steps of a caller treat the discipline of flights and slots. *)

LEMMA HoldersFinite ==
  ASSUME TypeOK
  PROVE  IsFiniteSet(Holders) /\ Cardinality(Holders) \in Nat
BY CallersAssumption, FS_Subset, FS_CardinalityType DEF Holders

\* Most steps: the caller goes on without a change of role.
LEMMA Move ==
  ASSUME IInv, NEW c \in Callers, NEW where \in PCs, GoTo(c, where),
         UNCHANGED <<inflight, sem>>,
         pc[c] \in Leading <=> where \in Leading,
         pc[c] \in Holding <=> where \in Holding,
         where \notin {"wait", "backoff"},
         \A d \in Callers \ {c} : call'[d] = call[d],
         where \in Leading => call'[c].url = call[c].url
  PROVE  Discipline'
<1>1. /\ pc'[c] = where
      /\ \A d \in Callers \ {c} : pc'[d] = pc[d]
  BY DEF IInv, TypeOK, GoTo
<1>2. FlightOwnership'
  BY <1>1, CallersAssumption DEF IInv, Discipline, FlightOwnership, TypeOK
<1>3. SlotAccounting'
  <2>1. Holders' = Holders
    BY <1>1 DEF Holders
  <2> QED BY <2>1 DEF IInv, Discipline, SlotAccounting, Holders
<1>4. NoLostWakeup'
  BY <1>1 DEF IInv, Discipline, NoLostWakeup
<1>5. BackoffBounded'
  BY <1>1 DEF IInv, Discipline, BackoffBounded
<1> QED BY <1>2, <1>3, <1>4, <1>5 DEF Discipline

\* The steps that end a flight wake its waiters and nobody else.
LEMMA Exit ==
  ASSUME IInv, NEW c \in Callers, NEW next \in PCs, ExitFlight(c, next),
         pc[c] \in Leading,
         next \notin Leading \cup {"wait"},
         \A d \in Callers \ {c} : call'[d] = call[d]
  PROVE  /\ FlightOwnership' /\ NoLostWakeup' /\ BackoffBounded'
         /\ Holders' = Holders \ {c}
<1> DEFINE u == call[c].url
<1>1. u \in Urls /\ inflight[u] = c
  BY FieldTypes DEF IInv, Discipline, FlightOwnership
<1>2. /\ inflight'[u] = NoCaller
      /\ \A v \in Urls \ {u} : inflight'[v] = inflight[v]
  BY <1>1 DEF IInv, TypeOK, ExitFlight
<1>3. /\ pc'[c] = next
      /\ \A d \in Callers \ {c} :
           IF pc[d] = "wait" /\ call[d].url = u THEN pc'[d] = "woken"
                                               ELSE pc'[d] = pc[d]
  BY DEF ExitFlight
<1>4. \A d \in Callers \ {c} : pc[d] \in Leading => call[d].url # u
  BY <1>1 DEF IInv, Discipline, FlightOwnership
<1>5. \A d \in Callers : call[d].url \in Urls
  BY FieldTypes DEF IInv
<1>6. FlightOwnership'
  BY <1>1, <1>2, <1>3, <1>4, <1>5, CallersAssumption
     DEF IInv, Discipline, FlightOwnership, TypeOK, Leading
<1>7. NoLostWakeup'
  BY <1>2, <1>3, <1>5 DEF IInv, Discipline, NoLostWakeup
<1>8. BackoffBounded'
  BY <1>3 DEF IInv, Discipline, BackoffBounded, Leading
<1>9. Holders' = Holders \ {c}
  BY <1>3 DEF Holders, Holding, Leading
<1> QED BY <1>6, <1>7, <1>8, <1>9

\* finish: the slot comes back with the end of the flight.
LEMMA FinishFlight ==
  ASSUME IInv, NEW c \in Callers, NEW next \in PCs, Finish(c, next),
         pc[c] \in Holding,
         next \notin Leading \cup {"wait"},
         \A d \in Callers \ {c} : call'[d] = call[d]
  PROVE  /\ Discipline'
         /\ sem' \in 0 .. Slots
<1>1. /\ FlightOwnership' /\ NoLostWakeup' /\ BackoffBounded'
      /\ Holders' = Holders \ {c}
  BY Exit DEF Finish, Holding
<1>2. c \in Holders /\ IsFiniteSet(Holders) /\ Cardinality(Holders) \in Nat
  BY HoldersFinite DEF Holders, IInv
<1>3. Cardinality(Holders \ {c}) = Cardinality(Holders) - 1
  BY <1>2, FS_RemoveElement
<1>4. Cardinality(Holders \ {c}) \in Nat
  BY <1>2, FS_RemoveElement, FS_CardinalityType
<1>5. sem = Cardinality(Holders) /\ sem \in 0 .. Slots
  BY DEF IInv, Discipline, SlotAccounting, Holders, TypeOK
<1>6. sem' = Cardinality(Holders') /\ sem' \in 0 .. Slots
  BY <1>1, <1>3, <1>4, <1>5, SlotsAssumption DEF Finish
<1> QED BY <1>1, <1>6 DEF Discipline, SlotAccounting, Holders
-----------------------------------------------------------------------------
(* Every action preserves the invariant. *)

LEMMA EnvironmentSteps ==
  ASSUME IInv,
         \/ \E u \in Urls : Publish(u) \/ Expire(u)
         \/ \E c \in Callers : Cancel(c)
         \/ UNCHANGED vars
  PROVE  IInv'
<1>1. ASSUME NEW u \in Urls, Publish(u) PROVE IInv'
  <2>1. server' \in [Urls -> 1 .. MaxVersion]
    BY <1>1, VersionAssumption DEF Publish, IInv, TypeOK
  <2>2. UNCHANGED <<entry, file, inflight, sem, pc, call, answer, gets>>
    BY <1>1 DEF Publish
  <2>3. TypeOK'
    BY <2>1, <2>2 DEF IInv, TypeOK
  <2> QED BY <2>2, <2>3 DEF IInv, Discipline, FlightOwnership,
             SlotAccounting, NoLostWakeup, BackoffBounded
<1>2. ASSUME NEW u \in Urls, Expire(u) PROVE IInv'
  <2>1. entry' \in [Urls -> Entries]
    BY <1>2 DEF Expire, IInv, TypeOK, Entries
  <2>2. UNCHANGED <<server, file, inflight, sem, pc, call, answer, gets>>
    BY <1>2 DEF Expire
  <2>3. TypeOK'
    BY <2>1, <2>2 DEF IInv, TypeOK
  <2> QED BY <2>2, <2>3 DEF IInv, Discipline, FlightOwnership,
             SlotAccounting, NoLostWakeup, BackoffBounded
<1>3. ASSUME NEW c \in Callers, Cancel(c) PROVE IInv'
  <2>1. call' \in [Callers -> Calls]
    BY <1>3 DEF Cancel, IInv, TypeOK, Calls
  <2>2. UNCHANGED <<server, entry, file, inflight, sem, pc, answer, gets>>
    BY <1>3 DEF Cancel
  <2>3. TypeOK'
    BY <2>1, <2>2 DEF IInv, TypeOK
  <2>4. \A d \in Callers : /\ call'[d].url = call[d].url
                           /\ call'[d].attempt = call[d].attempt
    BY <1>3 DEF Cancel, IInv, TypeOK, Calls
  <2>5. FlightOwnership'
    BY <2>2, <2>4, CallersAssumption
       DEF IInv, Discipline, FlightOwnership, TypeOK
  <2> QED BY <2>2, <2>3, <2>4, <2>5 DEF IInv, Discipline, SlotAccounting,
             NoLostWakeup, BackoffBounded
<1>4. CASE UNCHANGED vars
  BY <1>4 DEF vars, IInv, TypeOK, Discipline, FlightOwnership,
     SlotAccounting, NoLostWakeup, BackoffBounded
<1> QED BY <1>1, <1>2, <1>3, <1>4

LEMMA BeginStep ==
  ASSUME IInv, NEW c \in Callers, NEW u \in Urls, NEW m \in Modes,
         Begin(c, u, m)
  PROVE  IInv'
<1>1. call' \in [Callers -> Calls]
  <2>1. NewCall(u, m, server[u]) \in Calls
    BY ValueTypes, ModesAssumption, AttemptsAssumption, VersionAssumption
       DEF IInv, TypeOK, NewCall, Calls, FetchModes, Versions
  <2> QED BY <2>1 DEF Begin, IInv, TypeOK
<1>2. pc' \in [Callers -> PCs]
  BY GoToType DEF Begin, IInv, PCs
<1>3. answer' \in [Callers -> Answers]
  BY ValueTypes DEF Begin, IInv, TypeOK, Sources
<1>4. gets' \in [Callers -> 0 .. MaxGets]
  BY GetsAssumption DEF Begin, IInv, TypeOK
<1>5. UNCHANGED <<server, entry, file, inflight, sem>>
  BY DEF Begin
<1>6. TypeOK'
  BY <1>1, <1>2, <1>3, <1>4, <1>5 DEF IInv, TypeOK
<1>7. \A d \in Callers \ {c} : call'[d] = call[d]
  BY DEF Begin, IInv, TypeOK
<1>8. pc[c] = "idle" /\ GoTo(c, "lookup")
  BY DEF Begin
<1>9. Discipline'
  BY <1>5, <1>7, <1>8, Move DEF PCs, Leading, Holding
<1> QED BY <1>6, <1>9 DEF IInv

\* The two outcomes of a miss, for the two actions that end in one.
LEMMA MissStep ==
  ASSUME IInv, NEW c \in Callers, Miss(c), pc[c] \in {"lookup", "open"},
         UNCHANGED <<server, entry, file, inflight, sem, gets>>
  PROVE  IInv'
<1>1. CASE GoTo(c, "idle") /\ Answer(c, Failure("error"))
  <2>1. /\ call' \in [Callers -> Calls]
        /\ answer' \in [Callers -> Answers]
        /\ \A d \in Callers \ {c} : call'[d] = call[d]
    BY <1>1, AnswerType, ValueTypes DEF IInv, Sources
  <2>2. TypeOK'
    BY <1>1, <2>1, GoToType DEF IInv, TypeOK, PCs
  <2>3. Discipline'
    BY <1>1, <2>1, Move DEF PCs, Leading, Holding
  <2> QED BY <2>2, <2>3 DEF IInv
<1>2. CASE /\ GoTo(c, "enter")
           /\ call' = [call EXCEPT ![c].meta = NoEntry]
           /\ UNCHANGED answer
  <2>1. call' \in [Callers -> Calls]
    BY <1>2, LocalTypes, ValueTypes, FieldTypes DEF IInv
  <2>2. TypeOK'
    BY <1>2, <2>1, GoToType DEF IInv, TypeOK, PCs
  <2>3. \A d \in Callers \ {c} : call'[d] = call[d]
    BY <1>2 DEF IInv, TypeOK
  <2>4. Discipline'
    BY <1>2, <2>3, Move DEF PCs, Leading, Holding
  <2> QED BY <2>2, <2>4 DEF IInv
<1> QED BY <1>1, <1>2 DEF Miss

\* The steps in which the caller answers and does not lead.
LEMMA AnsweringStep ==
  ASSUME IInv, NEW c \in Callers, NEW a \in Answers,
         GoTo(c, "idle"), Answer(c, a), pc[c] \notin Leading,
         UNCHANGED <<server, entry, file, inflight, sem, gets>>
  PROVE  IInv'
<1>1. /\ call' \in [Callers -> Calls]
      /\ answer' \in [Callers -> Answers]
      /\ \A d \in Callers \ {c} : call'[d] = call[d]
  BY AnswerType DEF IInv
<1>2. TypeOK'
  BY <1>1, GoToType DEF IInv, TypeOK, PCs
<1>3. Discipline'
  BY <1>1, Move DEF PCs, Leading, Holding
<1> QED BY <1>2, <1>3 DEF IInv

LEMMA CacheSteps ==
  ASSUME IInv, NEW c \in Callers, Lookup(c) \/ Open(c) \/ OpenFails(c)
  PROVE  IInv'
<1>1. CASE Lookup(c)
  <2>1. CASE Miss(c)
    BY <1>1, <2>1, MissStep DEF Lookup
  <2>2. CASE ~Miss(c)
    <3>1. /\ call' = [call EXCEPT ![c].meta = entry[call[c].url]]
          /\ GoTo(c, "open")
          /\ pc[c] = "lookup"
          /\ UNCHANGED <<server, entry, file, inflight, sem, answer, gets>>
      BY <1>1, <2>2 DEF Lookup
    <3>2. entry[call[c].url] \in Entries
      BY FieldTypes DEF IInv, TypeOK
    <3>3. call' \in [Callers -> Calls]
      BY <3>1, <3>2 DEF IInv, TypeOK, Calls
    <3>4. TypeOK'
      BY <3>1, <3>3, GoToType DEF IInv, TypeOK, PCs
    <3>5. \A d \in Callers \ {c} : call'[d] = call[d]
      BY <3>1 DEF IInv, TypeOK
    <3>6. Discipline'
      BY <3>1, <3>5, Move DEF PCs, Leading, Holding
    <3> QED BY <3>4, <3>6 DEF IInv
  <2> QED BY <2>1, <2>2
<1>2. CASE Open(c)
  <2>1. /\ pc[c] = "open"
        /\ UNCHANGED <<server, entry, file, inflight, sem, gets>>
    BY <1>2 DEF Open
  <2>2. file[call[c].url] \in Versions
    BY FieldTypes DEF IInv, TypeOK
  <2>3. CASE GoTo(c, "idle")
             /\ \E src \in Sources :
                  Answer(c, Served(src, file[call[c].url], FALSE))
    <3>1. PICK a \in Answers : Answer(c, a)
      BY <2>2, <2>3, ValueTypes
    <3> QED BY <2>1, <2>3, <3>1, AnsweringStep DEF Leading
  <2>4. CASE /\ call' = [call EXCEPT ![c].stale = [ver |-> file[call[c].url],
                                                   tag |-> call[c].meta.tag],
                                     ![c].meta = NoEntry]
             /\ GoTo(c, "enter")
             /\ UNCHANGED answer
    <3>1. [ver |-> file[call[c].url], tag |-> call[c].meta.tag] \in Contents
      BY <2>2, FieldTypes DEF IInv, Contents, Entries
    <3>2. call' \in [Callers -> Calls]
      BY <2>4, <3>1, ValueTypes DEF IInv, TypeOK, Calls
    <3>3. TypeOK'
      BY <2>1, <2>4, <3>2, GoToType DEF IInv, TypeOK, PCs
    <3>4. \A d \in Callers \ {c} : call'[d] = call[d]
      BY <2>4 DEF IInv, TypeOK
    <3>5. Discipline'
      BY <2>1, <2>4, <3>4, Move DEF PCs, Leading, Holding
    <3> QED BY <3>3, <3>5 DEF IInv
  <2> QED BY <1>2, <2>3, <2>4 DEF Open, Sources
<1>3. CASE OpenFails(c)
  BY <1>3, MissStep DEF OpenFails
<1> QED BY <1>1, <1>2, <1>3

LEMMA FlightSteps ==
  ASSUME IInv, NEW c \in Callers, Enter(c) \/ Retry(c) \/ WaitCancelled(c)
  PROVE  IInv'
<1>1. CASE Enter(c) /\ inflight[call[c].url] = NoCaller
  <2> DEFINE u == call[c].url
  <2>1. /\ pc[c] = "enter" /\ GoTo(c, "acquire")
        /\ inflight' = [inflight EXCEPT ![u] = c]
        /\ UNCHANGED <<server, entry, file, sem, call, answer, gets>>
    BY <1>1 DEF Enter
  <2>2. u \in Urls
    BY FieldTypes DEF IInv
  <2>3. TypeOK'
    <3>1. inflight' \in [Urls -> Callers \cup {NoCaller}]
      BY <2>1 DEF IInv, TypeOK
    <3> QED BY <2>1, <3>1, GoToType DEF IInv, TypeOK, PCs
  <2>4. /\ pc'[c] = "acquire"
        /\ \A d \in Callers \ {c} : pc'[d] = pc[d]
    BY <2>1 DEF GoTo, IInv, TypeOK
  <2>5. /\ inflight'[u] = c
        /\ \A v \in Urls \ {u} : inflight'[v] = inflight[v]
    BY <2>1, <2>2 DEF IInv, TypeOK
  <2>6. \A d \in Callers \ {c} : pc[d] \in Leading => call[d].url # u
    BY <1>1, CallersAssumption DEF IInv, Discipline, FlightOwnership
  <2>7. \A d \in Callers : call[d].url \in Urls
    BY FieldTypes DEF IInv
  <2>8. FlightOwnership'
    BY <2>1, <2>2, <2>4, <2>5, <2>6, <2>7, CallersAssumption
       DEF IInv, Discipline, FlightOwnership, TypeOK, Leading
  <2>9. NoLostWakeup'
    BY <2>1, <2>4, <2>5, <2>7, CallersAssumption
       DEF IInv, Discipline, NoLostWakeup
  <2>10. BackoffBounded'
    BY <2>1, <2>4 DEF IInv, Discipline, BackoffBounded
  <2>11. Holders' = Holders
    BY <2>1, <2>4 DEF Holders, Holding, Leading
  <2> QED BY <2>1, <2>3, <2>8, <2>9, <2>10, <2>11
          DEF IInv, Discipline, SlotAccounting, Holders
<1>2. CASE Enter(c) /\ inflight[call[c].url] # NoCaller
  <2>1. /\ pc[c] = "enter" /\ GoTo(c, "wait")
        /\ call' = [call EXCEPT ![c].stale = NoContent]
        /\ UNCHANGED <<server, entry, file, inflight, sem, answer, gets>>
    BY <1>2 DEF Enter
  <2>2. call' \in [Callers -> Calls]
    BY <2>1, ValueTypes DEF IInv, TypeOK, Calls
  <2>3. TypeOK'
    BY <2>1, <2>2, GoToType DEF IInv, TypeOK, PCs
  <2>4. /\ pc'[c] = "wait"
        /\ \A d \in Callers \ {c} : pc'[d] = pc[d]
    BY <2>1 DEF GoTo, IInv, TypeOK
  <2>5. /\ \A d \in Callers \ {c} : call'[d] = call[d]
        /\ call'[c].url = call[c].url
    BY <2>1 DEF IInv, TypeOK, Calls
  <2>6. FlightOwnership'
    BY <2>1, <2>4, <2>5, CallersAssumption
       DEF IInv, Discipline, FlightOwnership, TypeOK, Leading
  <2>7. NoLostWakeup'
    BY <1>2, <2>1, <2>4, <2>5 DEF IInv, Discipline, NoLostWakeup
  <2>8. BackoffBounded'
    BY <2>4, <2>5 DEF IInv, Discipline, BackoffBounded
  <2>9. Holders' = Holders
    BY <2>1, <2>4 DEF Holders, Holding, Leading
  <2> QED BY <2>1, <2>3, <2>6, <2>7, <2>8, <2>9
          DEF IInv, Discipline, SlotAccounting, Holders
<1>3. CASE Retry(c)
  <2>1. TypeOK'
    BY <1>3, GoToType DEF Retry, IInv, TypeOK, PCs
  <2>2. Discipline'
    BY <1>3, Move DEF Retry, PCs, Leading, Holding
  <2> QED BY <2>1, <2>2 DEF IInv
<1>4. CASE WaitCancelled(c)
  BY <1>4, AnsweringStep, ValueTypes DEF WaitCancelled, Leading, Sources
<1> QED BY <1>1, <1>2, <1>3, <1>4

\* The steps in which a leader goes on, its URL and its slot unchanged.
LEMMA LeadingStep ==
  ASSUME IInv, NEW c \in Callers, NEW where \in Holding,
         GoTo(c, where), pc[c] \in Holding,
         UNCHANGED <<inflight, sem, answer, gets>>,
         server' \in [Urls -> 1 .. MaxVersion],
         entry' \in [Urls -> Entries],
         file' \in [Urls -> Versions],
         call' \in [Callers -> Calls],
         call'[c].url = call[c].url,
         \A d \in Callers \ {c} : call'[d] = call[d]
  PROVE  IInv'
<1>1. where \in PCs /\ where \notin {"wait", "backoff"}
  BY DEF Holding, Leading, PCs
<1>2. TypeOK'
  BY <1>1, GoToType DEF IInv, TypeOK
<1>3. Discipline'
  BY <1>1, Move DEF Holding
<1> QED BY <1>2, <1>3 DEF IInv

\* The steps that end a flight with the caller's answer.
LEMMA FinishingStep ==
  ASSUME IInv, NEW c \in Callers, NEW a \in Answers,
         Finish(c, "idle"), Answer(c, a), pc[c] \in Holding,
         UNCHANGED <<server, entry, file, gets>>
  PROVE  IInv'
<1>1. /\ call' \in [Callers -> Calls]
      /\ answer' \in [Callers -> Answers]
      /\ \A d \in Callers \ {c} : call'[d] = call[d]
  BY AnswerType DEF IInv
<1>2. Discipline' /\ sem' \in 0 .. Slots
  BY <1>1, FinishFlight DEF PCs, Leading
<1>3. TypeOK'
  BY <1>1, <1>2, ExitFlightType DEF Finish, IInv, TypeOK, PCs
<1> QED BY <1>2, <1>3 DEF IInv

LEMMA SlotSteps ==
  ASSUME IInv, NEW c \in Callers,
         AcquireSlot(c) \/ FetchCancelled(c) \/ FailTransient(c)
           \/ BackoffOver(c)
  PROVE  IInv'
<1>1. CASE AcquireSlot(c)
  <2>1. /\ pc[c] = "acquire" /\ GoTo(c, "request") /\ sem < Slots
        /\ sem' = sem + 1
        /\ UNCHANGED <<server, entry, file, inflight, call, answer, gets>>
    BY <1>1 DEF AcquireSlot
  <2>2. TypeOK'
    <3>1. sem' \in 0 .. Slots
      BY <2>1, SlotsAssumption DEF IInv, TypeOK
    <3> QED BY <2>1, <3>1, GoToType DEF IInv, TypeOK, PCs
  <2>3. /\ pc'[c] = "request"
        /\ \A d \in Callers \ {c} : pc'[d] = pc[d]
    BY <2>1 DEF GoTo, IInv, TypeOK
  <2>4. FlightOwnership'
    BY <2>1, <2>3, CallersAssumption
       DEF IInv, Discipline, FlightOwnership, TypeOK, Leading
  <2>5. NoLostWakeup' /\ BackoffBounded'
    BY <2>1, <2>3 DEF IInv, Discipline, NoLostWakeup, BackoffBounded
  <2>6. Holders' = Holders \cup {c} /\ c \notin Holders
    BY <2>1, <2>3 DEF Holders, Holding, Leading
  <2>7. Cardinality(Holders') = Cardinality(Holders) + 1
    BY <2>6, HoldersFinite, FS_AddElement DEF IInv
  <2>8. SlotAccounting'
    BY <2>1, <2>7 DEF IInv, Discipline, SlotAccounting, Holders
  <2> QED BY <2>2, <2>4, <2>5, <2>8 DEF IInv, Discipline
<1>2. CASE FetchCancelled(c)
  <2>1. /\ pc[c] \in {"acquire", "backoff"} /\ ExitFlight(c, "idle")
        /\ Answer(c, Failure("error"))
        /\ UNCHANGED <<server, entry, file, sem, gets>>
    BY <1>2 DEF FetchCancelled
  <2>2. /\ call' \in [Callers -> Calls]
        /\ answer' \in [Callers -> Answers]
        /\ \A d \in Callers \ {c} : call'[d] = call[d]
    BY <2>1, AnswerType, ValueTypes DEF IInv, Sources
  <2>3. TypeOK'
    BY <2>1, <2>2, ExitFlightType DEF IInv, TypeOK, PCs
  <2>4. /\ FlightOwnership' /\ NoLostWakeup' /\ BackoffBounded'
        /\ Holders' = Holders \ {c}
    BY <2>1, <2>2, Exit DEF PCs, Leading
  <2>5. Holders' = Holders
    BY <2>1, <2>4 DEF Holders, Holding
  <2> QED BY <2>1, <2>3, <2>4, <2>5
          DEF IInv, Discipline, SlotAccounting, Holders
<1>3. CASE FailTransient(c)
  <2>1. /\ pc[c] = "request" /\ GoTo(c, "backoff") /\ sem' = sem - 1
        /\ call[c].attempt < Attempts(c)
        /\ UNCHANGED <<server, entry, file, inflight, call, answer, gets>>
    BY <1>3 DEF FailTransient
  <2>2. /\ pc'[c] = "backoff"
        /\ \A d \in Callers \ {c} : pc'[d] = pc[d]
    BY <2>1 DEF GoTo, IInv, TypeOK
  <2>3. Holders' = Holders \ {c} /\ c \in Holders
    BY <2>1, <2>2 DEF Holders, Holding, Leading
  <2>4. /\ Cardinality(Holders') = Cardinality(Holders) - 1
        /\ Cardinality(Holders') \in Nat /\ Cardinality(Holders) \in Nat
    BY <2>3, HoldersFinite, FS_RemoveElement, FS_CardinalityType DEF IInv
  <2>5. sem = Cardinality(Holders) /\ sem \in 0 .. Slots
    BY DEF IInv, Discipline, SlotAccounting, Holders, TypeOK
  <2>6. sem' = Cardinality(Holders') /\ sem' \in 0 .. Slots
    BY <2>1, <2>4, <2>5, SlotsAssumption
  <2>7. TypeOK'
    BY <2>1, <2>6, GoToType DEF IInv, TypeOK, PCs
  <2>8. FlightOwnership'
    BY <2>1, <2>2, CallersAssumption
       DEF IInv, Discipline, FlightOwnership, TypeOK, Leading
  <2>9. NoLostWakeup'
    BY <2>1, <2>2 DEF IInv, Discipline, NoLostWakeup
  <2>10. BackoffBounded'
    <3>1. call[c].attempt < MaxAttempts
      BY <2>1, FieldTypes, AttemptsAssumption DEF IInv, Attempts
    <3> QED BY <2>1, <2>2, <3>1 DEF IInv, Discipline, BackoffBounded
  <2> QED BY <2>6, <2>7, <2>8, <2>9, <2>10
          DEF IInv, Discipline, SlotAccounting, Holders
<1>4. CASE BackoffOver(c)
  <2>1. /\ pc[c] = "backoff" /\ GoTo(c, "acquire")
        /\ call' = [call EXCEPT ![c].attempt = @ + 1]
        /\ UNCHANGED <<server, entry, file, inflight, sem, answer, gets>>
    BY <1>4 DEF BackoffOver
  <2>2. call[c].attempt + 1 \in 1 .. MaxAttempts
    BY <2>1, FieldTypes, AttemptsAssumption
       DEF IInv, Discipline, BackoffBounded
  <2>3. call' \in [Callers -> Calls]
    BY <2>1, <2>2 DEF IInv, TypeOK, Calls
  <2>4. TypeOK'
    BY <2>1, <2>3, GoToType DEF IInv, TypeOK, PCs
  <2>5. /\ \A d \in Callers \ {c} : call'[d] = call[d]
        /\ call'[c].url = call[c].url
    BY <2>1 DEF IInv, TypeOK, Calls
  <2>6. Discipline'
    BY <2>1, <2>5, Move DEF PCs, Leading, Holding
  <2> QED BY <2>4, <2>6 DEF IInv
<1> QED BY <1>1, <1>2, <1>3, <1>4

LEMMA RequestSteps ==
  ASSUME IInv, NEW c \in Callers,
         NotModified(c) \/ ServeRevalidated(c) \/ Respond(c) \/ FailFinal(c)
           \/ GiveUp(c) \/ ServeStale(c)
  PROVE  IInv'
<1> DEFINE u == call[c].url
<1> u \in Urls
  BY FieldTypes DEF IInv
<1>1. CASE NotModified(c)
  <2>1. PICK t \in {entry[u].tag, call[c].stale.tag} :
          entry' = [entry EXCEPT ![u].fresh = TRUE, ![u].tag = t]
    BY <1>1 DEF NotModified
  <2>2. t \in Versions
    BY <2>1, FieldTypes DEF IInv, TypeOK, Entries
  <2>3. entry' \in [Urls -> Entries]
    <3>1. entry \in [Urls -> Entries] /\ entry[u] \in Entries
      BY DEF IInv, TypeOK
    <3>2. [entry[u] EXCEPT !.fresh = TRUE, !.tag = t] \in Entries
      BY <2>2, <3>1 DEF Entries
    <3>3. entry' = [entry EXCEPT ![u] = [entry[u] EXCEPT !.fresh = TRUE, !.tag = t]]
      BY <2>1, <3>1
    <3>4. QED
      BY <3>1, <3>2, <3>3
  <2>4. /\ pc[c] = "request" /\ GoTo(c, "refreshed")
        /\ UNCHANGED <<server, file, inflight, sem, call, answer, gets>>
    BY <1>1 DEF NotModified
  <2> QED BY <2>3, <2>4, LeadingStep DEF IInv, TypeOK, Holding, Leading
<1>2. CASE ServeRevalidated(c)
  BY <1>2, FinishingStep, ValueTypes, FieldTypes
     DEF ServeRevalidated, Holding, Leading, IInv, Sources
<1>3. CASE Respond(c)
  <2>1. PICK t \in {0, server[u]} :
          call' = [call EXCEPT ![c].got = [ver |-> server[u], tag |-> t],
                               ![c].stale = NoContent]
    BY <1>3 DEF Respond
  <2>2. [ver |-> server[u], tag |-> t] \in Contents
    BY <2>1, VersionAssumption DEF IInv, TypeOK, Contents, Versions
  <2>3. call' \in [Callers -> Calls]
    BY <2>1, <2>2, ValueTypes DEF IInv, TypeOK, Calls
  <2>4. /\ call'[c].url = call[c].url
        /\ \A d \in Callers \ {c} : call'[d] = call[d]
    BY <2>1 DEF IInv, TypeOK, Calls
  <2>5. /\ pc[c] = "request" /\ GoTo(c, "stream")
        /\ UNCHANGED <<server, entry, file, inflight, sem, answer, gets>>
    BY <1>3 DEF Respond
  <2> QED BY <2>3, <2>4, <2>5, LeadingStep DEF IInv, TypeOK, Holding, Leading
<1>4. CASE FailFinal(c)
  BY <1>4, LeadingStep DEF FailFinal, IInv, TypeOK, Holding, Leading
<1>5. CASE GiveUp(c)
  <2>1. CASE Finish(c, "idle") /\ Answer(c, Failure("error"))
    BY <1>5, <2>1, FinishingStep, ValueTypes
       DEF GiveUp, Holding, Leading, Sources
  <2>2. CASE Finish(c, "fallback") /\ UNCHANGED <<call, answer>>
    <3>1. Discipline' /\ sem' \in 0 .. Slots
      BY <1>5, <2>2, FinishFlight DEF GiveUp, PCs, Holding, Leading
    <3>2. TypeOK'
      BY <1>5, <2>2, <3>1, ExitFlightType
         DEF GiveUp, Finish, IInv, TypeOK, PCs
    <3> QED BY <3>1, <3>2 DEF IInv
  <2> QED BY <1>5, <2>1, <2>2 DEF GiveUp
<1>6. CASE ServeStale(c)
  <2>1. PICK a \in Answers : Answer(c, a)
    BY <1>6, ValueTypes, FieldTypes DEF ServeStale, IInv, Sources
  <2> QED BY <1>6, <2>1, AnsweringStep DEF ServeStale, Leading
<1> QED BY <1>1, <1>2, <1>3, <1>4, <1>5, <1>6

LEMMA ReaderSteps ==
  ASSUME IInv, NEW c \in Callers,
         CompleteBody(c) \/ InstallEntry(c) \/ CachingFails(c)
           \/ EndOfBody(c) \/ BreakBody(c)
  PROVE  IInv'
<1> DEFINE u == call[c].url
<1> u \in Urls
  BY FieldTypes DEF IInv
<1>1. CASE CompleteBody(c)
  <2>1. file' \in [Urls -> Versions]
    BY <1>1, FieldTypes DEF CompleteBody, IInv, TypeOK
  <2> QED BY <1>1, <2>1, LeadingStep
          DEF CompleteBody, IInv, TypeOK, Holding, Leading
<1>2. CASE InstallEntry(c)
  <2>1. entry' \in [Urls -> Entries]
    BY <1>2, FieldTypes DEF InstallEntry, IInv, TypeOK, Entries
  <2> QED BY <1>2, <2>1, LeadingStep
          DEF InstallEntry, IInv, TypeOK, Holding, Leading
<1>3. CASE CachingFails(c)
  BY <1>3, LeadingStep DEF CachingFails, IInv, TypeOK, Holding, Leading
<1>4. CASE EndOfBody(c)
  BY <1>4, FinishingStep, ValueTypes, FieldTypes
     DEF EndOfBody, Holding, Leading, IInv, Sources
<1>5. CASE BreakBody(c)
  BY <1>5, FinishingStep, ValueTypes
     DEF BreakBody, Holding, Leading, Sources
<1> QED BY <1>1, <1>2, <1>3, <1>4, <1>5
-----------------------------------------------------------------------------
(* The theorems. *)

LEMMA Initially == Init => IInv
<1> SUFFICES ASSUME Init PROVE IInv
  OBVIOUS
<1>1. TypeOK
  <2>1. entry \in [Urls -> Entries]
    <3> DEFINE Earlier == [live : {TRUE}, tag : {0, 1}, fresh : BOOLEAN]
    <3>1. ASSUME NEW e \in Earlier PROVE e \in Entries
      <4>1. 1 \in Versions /\ 0 \in Versions
        BY VersionAssumption DEF Versions
      <4> QED BY <4>1 DEF Entries
    <3>2. entry \in [Urls -> {NoEntry} \cup Earlier]
      BY DEF Init
    <3> QED BY <3>1, <3>2, ValueTypes
  <2>2. file \in [Urls -> Versions]
    BY VersionAssumption DEF Init, Versions
  <2>3. /\ answer \in [Callers -> Answers]
        /\ call \in [Callers -> Calls]
        /\ pc \in [Callers -> PCs]
    BY ValueTypes DEF Init, Sources, PCs
  <2>4. /\ server \in [Urls -> 1 .. MaxVersion]
        /\ inflight \in [Urls -> Callers \cup {NoCaller}]
        /\ sem \in 0 .. Slots
        /\ gets \in [Callers -> 0 .. MaxGets]
    BY VersionAssumption, SlotsAssumption, GetsAssumption DEF Init
  <2> QED BY <2>1, <2>2, <2>3, <2>4 DEF TypeOK
<1>2. FlightOwnership /\ NoLostWakeup /\ BackoffBounded
  BY DEF Init, FlightOwnership, NoLostWakeup, BackoffBounded, Leading
<1>3. Holders = {}
  BY DEF Init, Holders, Holding, Leading
<1>4. SlotAccounting
  BY <1>3, FS_EmptySet DEF Init, SlotAccounting, Holders
<1> QED BY <1>1, <1>2, <1>4 DEF IInv, Discipline

LEMMA Inductive == IInv /\ [Next]_vars => IInv'
<1> SUFFICES ASSUME IInv, [Next]_vars PROVE IInv'
  OBVIOUS
<1>1. ASSUME NEW c \in Callers, Step(c) PROVE IInv'
  BY <1>1, CacheSteps, FlightSteps, SlotSteps, RequestSteps, ReaderSteps
     DEF Step
<1>2. CASE AllDone
  BY <1>2, EnvironmentSteps DEF AllDone
<1> QED BY <1>1, <1>2, EnvironmentSteps, BeginStep DEF Next

THEOREM Invariance == Spec => []IInv
<1> QED BY Initially, Inductive, PTL DEF Spec

\* Every variable of FilterListStore keeps its type; in particular the number
\* of tokens in the semaphore stays between zero and its capacity.
THEOREM TypeCorrect == Spec => []TypeOK
<1>1. IInv => TypeOK
  BY DEF IInv
<1> QED BY <1>1, Invariance, PTL

\* One leader per flight: enterFlight and exitFlight never let two downloads
\* of a URL run at once, and never close a flight that is not the caller's.
THEOREM FlightsOwned == Spec => []FlightOwnership
<1>1. IInv => FlightOwnership
  BY DEF IInv, Discipline
<1> QED BY <1>1, Invariance, PTL

\* No path through fetch and its readers leaks a fetch slot or gives one back
\* twice, for any number of slots, attempts and callers.
THEOREM SlotsAccounted == Spec => []SlotAccounting
<1>1. IInv => SlotAccounting
  BY DEF IInv, Discipline
<1> QED BY <1>1, Invariance, PTL

\* A caller that waits on a flight waits on one that has a leader.
THEOREM NobodyForgotten == Spec => []NoLostWakeup
<1>1. IInv => NoLostWakeup
  BY DEF IInv, Discipline
<1> QED BY <1>1, Invariance, PTL
-----------------------------------------------------------------------------
(***************************************************************************)
(* Freshness: versions only move forward, a validator stands for the bytes *)
(* beside it, and Get keeps the promises of ListService.                   *)
(*                                                                         *)
(* The argument is an ordering of versions.  For one URL                   *)
(*   validator <= content on disk <= version of the server                 *)
(* holds at any time, a caller's copies of the first two lag behind them,  *)
(* and the body that a leader streams is at least the content on disk,     *)
(* because nobody else can promote while it holds the flight.              *)
(***************************************************************************)
Streaming == {"stream", "install", "installed"}
NeedsNetwork == Leading \cup {"enter", "wait", "woken", "fallback"}

\* What a caller knows is in order.
CallCurrent(c) ==
  LET k == call[c] IN
  /\ k.low <= server[k.url]
  /\ k.stale.tag <= k.stale.ver /\ k.stale.ver <= file[k.url]
  /\ pc[c] = "open" => k.meta.tag <= file[k.url] /\ 1 <= file[k.url]
  /\ pc[c] \in Streaming =>
       /\ k.low <= k.got.ver /\ 1 <= k.got.ver
       /\ k.got.ver <= server[k.url]
       /\ k.got.tag \in {0, k.got.ver}
  /\ pc[c] = "stream" => file[k.url] <= k.got.ver
  /\ pc[c] = "install" => file[k.url] = k.got.ver
  /\ pc[c] = "refreshed" => k.low <= k.stale.ver /\ 1 <= k.stale.ver
  /\ pc[c] = "fallback" => 1 <= k.stale.ver
  /\ pc[c] \in NeedsNetwork => k.mode # "cacheOnly"

\* Promote is between its rename and its index update.
Installing(u) == \E c \in Callers : pc[c] = "install" /\ call[c].url = u

\* What the cache holds for a URL is in order.
CacheCurrent(u) ==
  /\ entry[u].tag <= file[u] /\ file[u] <= server[u]
  /\ entry[u].live => 1 <= file[u]
  /\ entry[u].tag = 0 \/ entry[u].tag = file[u] \/ Installing(u)

Current ==
  /\ \A c \in Callers : CallCurrent(c)
  /\ \A u \in Urls : CacheCurrent(u)
-----------------------------------------------------------------------------
(* Types, once and for all callers. *)

LEMMA Numbers ==
  ASSUME TypeOK, NEW c \in Callers
  PROVE  /\ call[c].url \in Urls
         /\ call[c].low \in Nat
         /\ call[c].stale.ver \in Nat /\ call[c].stale.tag \in Nat
         /\ call[c].got.ver \in Nat /\ call[c].got.tag \in Nat
         /\ call[c].meta.tag \in Nat
BY VersionAssumption DEF TypeOK, Calls, Contents, Entries, Versions

LEMMA ListNumbers ==
  ASSUME TypeOK, NEW u \in Urls
  PROVE  /\ server[u] \in Nat /\ file[u] \in Nat
         /\ entry[u] \in Entries /\ entry[u].tag \in Nat
         /\ entry[u].live \in BOOLEAN
BY VersionAssumption DEF TypeOK, Entries, Versions

\* An idle caller has nothing that could be out of order.
LEMMA IdleValues ==
  /\ NoCall.url \in Urls /\ NoCall.low = 0
  /\ NoCall.stale.ver = 0 /\ NoCall.stale.tag = 0
BY UrlsAssumption DEF NoCall, NewCall, NoContent

LEMMA IdleCurrent ==
  ASSUME TypeOK', NEW c \in Callers, pc'[c] = "idle", call'[c] = NoCall
  PROVE  CallCurrent(c)'
<1>1. server'[NoCall.url] \in Nat /\ file'[NoCall.url] \in Nat
  BY IdleValues, VersionAssumption DEF TypeOK, Versions
<1>2. QED
  BY <1>1, IdleValues DEF CallCurrent, Streaming, NeedsNetwork, Leading

\* How the step of one caller leaves the others: it may only wake them.
OthersWait(c) ==
  \A d \in Callers \ {c} :
    /\ call'[d] = call[d]
    /\ pc'[d] = pc[d] \/ (pc[d] = "wait" /\ pc'[d] = "woken")

LEMMA GoToOthers ==
  ASSUME TypeOK, NEW c \in Callers, NEW where, GoTo(c, where),
         \A d \in Callers \ {c} : call'[d] = call[d]
  PROVE  OthersWait(c) /\ pc'[c] = where
BY DEF GoTo, TypeOK, OthersWait

LEMMA ExitOthers ==
  ASSUME TypeOK, NEW c \in Callers, NEW where, ExitFlight(c, where),
         \A d \in Callers \ {c} : call'[d] = call[d]
  PROVE  OthersWait(c) /\ pc'[c] = where
BY DEF ExitFlight, TypeOK, OthersWait

LEMMA AnswerOthers ==
  ASSUME TypeOK, NEW c \in Callers, NEW a, Answer(c, a)
  PROVE  /\ call'[c] = NoCall
         /\ \A d \in Callers \ {c} : call'[d] = call[d]
BY DEF Answer, TypeOK
-----------------------------------------------------------------------------
(* What a step of one caller has to establish. *)

\* Only the leader of a URL replaces its content, so that the bodies and the
\* copies of the others stay in order when the content moves forward.
LEMMA OthersCurrent ==
  ASSUME IInv, TypeOK', Current, NEW c \in Callers, OthersWait(c),
         CallCurrent(c)', UNCHANGED server,
         \A u \in Urls : /\ file[u] <= file'[u]
                         /\ file'[u] # file[u] =>
                              pc[c] = "stream" /\ call[c].url = u
  PROVE  \A d \in Callers : CallCurrent(d)'
<1> SUFFICES ASSUME NEW d \in Callers \ {c} PROVE CallCurrent(d)'
  OBVIOUS
<1> DEFINE v == call[d].url
<1>1. /\ call'[d] = call[d]
      /\ pc'[d] = pc[d] \/ (pc[d] = "wait" /\ pc'[d] = "woken")
  BY DEF OthersWait
<1>2. CallCurrent(d)
  BY DEF Current
<1>3. /\ v \in Urls /\ file[v] \in Nat /\ file'[v] \in Nat
      /\ call[d].meta.tag \in Nat /\ call[d].stale.ver \in Nat
  BY Numbers, ListNumbers DEF IInv, TypeOK, Versions
<1>4. pc[d] \in {"stream", "install"} => file'[v] = file[v]
  BY <1>3 DEF IInv, Discipline, FlightOwnership, Leading
<1>5. file[v] <= file'[v]
  BY <1>3
<1>6. QED
  BY <1>1, <1>2, <1>3, <1>4, <1>5
     DEF CallCurrent, Streaming, NeedsNetwork, Leading

\* A step that leaves the cache alone and does not end an installation.
LEMMA SameCache ==
  ASSUME TypeOK, Current, NEW c \in Callers, OthersWait(c),
         pc[c] # "install", UNCHANGED <<server, entry, file>>
  PROVE  \A u \in Urls : CacheCurrent(u)'
<1>1. \A u \in Urls : Installing(u) => Installing(u)'
  BY DEF Installing, OthersWait
<1>2. QED
  BY <1>1 DEF Current, CacheCurrent

\* The two together.
LEMMA QuietStep ==
  ASSUME IInv, IInv', Current, NEW c \in Callers, OthersWait(c),
         pc[c] # "install", UNCHANGED <<server, entry, file>>,
         CallCurrent(c)'
  PROVE  Current'
<1>1. \A u \in Urls : file[u] \in Nat
  BY ListNumbers DEF IInv
<1>2. \A d \in Callers : CallCurrent(d)'
  BY <1>1, OthersCurrent DEF IInv
<1>3. \A u \in Urls : CacheCurrent(u)'
  BY SameCache DEF IInv
<1>4. QED
  BY <1>2, <1>3 DEF Current

\* A step in which the caller answers.
LEMMA AnswerStep ==
  ASSUME IInv, IInv', Current, NEW c \in Callers, OthersWait(c),
         pc[c] # "install", UNCHANGED <<server, entry, file>>,
         pc'[c] = "idle", call'[c] = NoCall
  PROVE  Current'
<1>1. CallCurrent(c)'
  BY IdleCurrent DEF IInv
<1>2. QED
  BY <1>1, QuietStep
-----------------------------------------------------------------------------
(* The steps. *)

LEMMA EnvironmentCurrent ==
  ASSUME IInv, IInv', Current,
         \/ \E u \in Urls : Publish(u) \/ Expire(u)
         \/ \E c \in Callers : Cancel(c)
         \/ UNCHANGED vars
  PROVE  Current'
<1> USE DEF IInv
<1>1. ASSUME NEW u \in Urls, Publish(u) PROVE Current'
  <2>1. UNCHANGED <<entry, file, pc, call>>
    BY <1>1 DEF Publish
  <2>2. \A v \in Urls : server[v] \in Nat /\ server[v] <= server'[v]
                        /\ server'[v] \in Nat
    BY <1>1, ListNumbers DEF Publish, TypeOK
  <2>3. \A c \in Callers : CallCurrent(c)'
    <3> SUFFICES ASSUME NEW c \in Callers PROVE CallCurrent(c)'
      OBVIOUS
    <3>1. /\ call[c].url \in Urls /\ call[c].low \in Nat
          /\ call[c].got.ver \in Nat
      BY Numbers
    <3>2. server[call[c].url] <= server'[call[c].url]
      BY <2>2, <3>1
    <3>3. CallCurrent(c)
      BY DEF Current
    <3>4. QED
      BY <2>1, <2>2, <3>1, <3>2, <3>3 DEF CallCurrent
  <2>4. \A v \in Urls : CacheCurrent(v)'
    BY <2>1, <2>2, ListNumbers DEF Current, CacheCurrent, Installing
  <2>5. QED
    BY <2>3, <2>4 DEF Current
<1>2. ASSUME NEW u \in Urls, Expire(u) PROVE Current'
  <2>1. UNCHANGED <<server, file, pc, call>>
    BY <1>2 DEF Expire
  <2>2. \A v \in Urls : /\ entry'[v].tag = entry[v].tag
                        /\ entry'[v].live = entry[v].live
    BY <1>2 DEF Expire, TypeOK, Entries
  <2>3. QED
    BY <2>1, <2>2 DEF Current, CallCurrent, CacheCurrent, Installing
<1>3. ASSUME NEW c \in Callers, Cancel(c) PROVE Current'
  <2>1. UNCHANGED <<server, entry, file, pc>>
    BY <1>3 DEF Cancel
  <2>2. \A d \in Callers :
          /\ call'[d].url = call[d].url /\ call'[d].low = call[d].low
          /\ call'[d].stale = call[d].stale /\ call'[d].got = call[d].got
          /\ call'[d].meta = call[d].meta /\ call'[d].mode = call[d].mode
    BY <1>3 DEF Cancel, TypeOK, Calls
  <2>3. QED
    BY <2>1, <2>2 DEF Current, CallCurrent, CacheCurrent, Installing
<1>4. CASE UNCHANGED vars
  BY <1>4 DEF vars, Current, CallCurrent, CacheCurrent, Installing
<1>5. QED
  BY <1>1, <1>2, <1>3, <1>4

LEMMA BeginCurrent ==
  ASSUME IInv, IInv', Current, NEW c \in Callers, NEW u \in Urls,
         NEW m \in Modes, Begin(c, u, m)
  PROVE  Current'
<1> USE DEF IInv
<1>1. /\ call'[c] = NewCall(u, m, server[u])
      /\ \A d \in Callers \ {c} : call'[d] = call[d]
      /\ pc[c] = "idle" /\ GoTo(c, "lookup")
      /\ UNCHANGED <<server, entry, file>>
  BY DEF Begin, TypeOK
<1>2. OthersWait(c) /\ pc'[c] = "lookup"
  BY <1>1, GoToOthers
<1>3. CallCurrent(c)'
  BY <1>1, <1>2, ListNumbers
     DEF CallCurrent, NewCall, NoContent, Streaming, NeedsNetwork, Leading
<1>4. QED
  BY <1>1, <1>2, <1>3, QuietStep

\* The outcomes of a miss.
LEMMA MissCurrent ==
  ASSUME IInv, IInv', Current, NEW c \in Callers, Miss(c),
         pc[c] \in {"lookup", "open"}, UNCHANGED <<server, entry, file>>
  PROVE  Current'
<1> USE DEF IInv
<1>1. CASE GoTo(c, "idle") /\ Answer(c, Failure("error"))
  BY <1>1, AnswerOthers, GoToOthers, AnswerStep
<1>2. CASE /\ call[c].mode # "cacheOnly" /\ GoTo(c, "enter")
           /\ call' = [call EXCEPT ![c].meta = NoEntry]
  <2>1. /\ \A d \in Callers \ {c} : call'[d] = call[d]
        /\ call'[c].url = call[c].url /\ call'[c].low = call[c].low
        /\ call'[c].stale = call[c].stale /\ call'[c].mode = call[c].mode
    BY <1>2 DEF TypeOK, Calls
  <2>2. OthersWait(c) /\ pc'[c] = "enter"
    BY <1>2, <2>1, GoToOthers
  <2>3. CallCurrent(c)'
    BY <1>2, <2>1, <2>2 DEF Current, CallCurrent, Streaming
  <2>4. QED
    BY <2>2, <2>3, QuietStep
<1>3. QED
  BY <1>1, <1>2 DEF Miss

LEMMA CacheStepsCurrent ==
  ASSUME IInv, IInv', Current, NEW c \in Callers,
         Lookup(c) \/ Open(c) \/ OpenFails(c)
  PROVE  Current'
<1> USE DEF IInv
<1> DEFINE u == call[c].url
<1>1. /\ u \in Urls /\ server[u] \in Nat /\ file[u] \in Nat
      /\ CallCurrent(c) /\ CacheCurrent(u)
  BY Numbers, ListNumbers DEF Current
<1>2. CASE Lookup(c) /\ ~entry[u].live
  BY <1>2, MissCurrent DEF Lookup
<1>3. CASE Lookup(c) /\ entry[u].live
  <2>1. /\ call' = [call EXCEPT ![c].meta = entry[u]]
        /\ pc[c] = "lookup" /\ GoTo(c, "open")
        /\ UNCHANGED <<server, entry, file>>
    BY <1>3 DEF Lookup
  <2>2. /\ \A d \in Callers \ {c} : call'[d] = call[d]
        /\ call'[c].url = u /\ call'[c].low = call[c].low
        /\ call'[c].stale = call[c].stale /\ call'[c].meta = entry[u]
    BY <2>1 DEF TypeOK, Calls
  <2>3. OthersWait(c) /\ pc'[c] = "open"
    BY <2>1, <2>2, GoToOthers
  <2>4. CallCurrent(c)'
    BY <1>1, <1>3, <2>1, <2>2, <2>3
       DEF CallCurrent, CacheCurrent, Streaming, NeedsNetwork, Leading
  <2>5. QED
    BY <2>1, <2>3, <2>4, QuietStep
<1>4. CASE Open(c) /\ GoTo(c, "idle")
  <2>1. \E a : Answer(c, a)
    BY <1>4 DEF Open, GoTo, TypeOK
  <2>2. QED
    BY <1>4, <2>1, AnswerOthers, GoToOthers, AnswerStep DEF Open
<1>5. CASE Open(c) /\ ~GoTo(c, "idle")
  <2>1. /\ call' = [call EXCEPT ![c].stale = [ver |-> file[u],
                                              tag |-> call[c].meta.tag],
                                ![c].meta = NoEntry]
        /\ pc[c] = "open" /\ GoTo(c, "enter") /\ call[c].mode = "default"
        /\ UNCHANGED <<server, entry, file>>
    BY <1>5 DEF Open
  <2>2. /\ \A d \in Callers \ {c} : call'[d] = call[d]
        /\ call'[c].url = u /\ call'[c].low = call[c].low
        /\ call'[c].mode = "default"
        /\ call'[c].stale = [ver |-> file[u], tag |-> call[c].meta.tag]
    BY <2>1 DEF TypeOK, Calls
  <2>3. OthersWait(c) /\ pc'[c] = "enter"
    BY <2>1, <2>2, GoToOthers
  <2>4. CallCurrent(c)'
    <3>1. /\ call'[c].stale.ver = file[u] /\ call'[c].stale.tag = call[c].meta.tag
          /\ call[c].meta.tag <= file[u] /\ call[c].low <= server[u]
      BY <1>1, <2>1, <2>2 DEF CallCurrent
    <3>2. QED
      BY <1>1, <2>1, <2>2, <2>3, <3>1 DEF CallCurrent, Streaming
  <2>5. QED
    BY <2>1, <2>3, <2>4, QuietStep
<1>6. CASE OpenFails(c)
  BY <1>6, MissCurrent DEF OpenFails
<1>7. QED
  BY <1>2, <1>3, <1>4, <1>5, <1>6

\* The steps that move a caller and leave its locals alone, except for the
\* attempt or for a stale copy that is closed.
LEMMA MoveCurrent ==
  ASSUME IInv, IInv', Current, NEW c \in Callers, NEW where,
         GoTo(c, where), pc[c] # "install",
         UNCHANGED <<server, entry, file>>,
         \A d \in Callers \ {c} : call'[d] = call[d],
         call'[c].url = call[c].url, call'[c].low = call[c].low,
         call'[c].mode = call[c].mode, call'[c].got = call[c].got,
         call'[c].stale \in {call[c].stale, NoContent},
         where \notin {"open", "stream", "install", "refreshed", "fallback"},
         where = "installed" => pc[c] \in Streaming,
         where \in NeedsNetwork => pc[c] \in NeedsNetwork
  PROVE  Current'
<1>1. OthersWait(c) /\ pc'[c] = where
  BY GoToOthers DEF IInv
<1>2. CallCurrent(c)
  BY DEF Current
<1>3. /\ call'[c].stale.tag <= call'[c].stale.ver
      /\ call'[c].stale.ver <= file[call[c].url]
  BY <1>2, Numbers, ListNumbers DEF CallCurrent, NoContent, IInv
<1>4. CallCurrent(c)'
  BY <1>1, <1>2, <1>3 DEF CallCurrent, Streaming
<1>5. QED
  BY <1>1, <1>4, QuietStep

LEMMA FlightStepsCurrent ==
  ASSUME IInv, IInv', Current, NEW c \in Callers,
         Enter(c) \/ Retry(c) \/ WaitCancelled(c) \/ AcquireSlot(c)
           \/ FetchCancelled(c) \/ FailTransient(c) \/ BackoffOver(c)
           \/ FailFinal(c)
  PROVE  Current'
<1> USE DEF NeedsNetwork, Streaming, Leading
<1>1. call[c] \in Calls /\ pc \in [Callers -> PCs] /\ call \in [Callers -> Calls]
  BY DEF IInv, TypeOK
<1>2. CASE Enter(c)
  <2>1. /\ call'[c].url = call[c].url /\ call'[c].low = call[c].low
        /\ call'[c].mode = call[c].mode /\ call'[c].got = call[c].got
        /\ call'[c].stale \in {call[c].stale, NoContent}
        /\ \A d \in Callers \ {c} : call'[d] = call[d]
    BY <1>1, <1>2 DEF Enter, Calls
  <2>2. GoTo(c, "acquire") \/ GoTo(c, "wait")
    BY <1>2 DEF Enter
  <2>3. QED
    BY <1>2, <2>1, <2>2, MoveCurrent DEF Enter
<1>3. CASE Retry(c)
  BY <1>3, MoveCurrent DEF Retry
<1>4. CASE WaitCancelled(c)
  BY <1>4, AnswerOthers, GoToOthers, AnswerStep DEF WaitCancelled, IInv
<1>5. CASE AcquireSlot(c)
  BY <1>5, MoveCurrent DEF AcquireSlot
<1>6. CASE FetchCancelled(c)
  BY <1>6, AnswerOthers, ExitOthers, AnswerStep DEF FetchCancelled, IInv
<1>7. CASE FailTransient(c)
  BY <1>7, MoveCurrent DEF FailTransient
<1>8. CASE BackoffOver(c)
  <2>1. /\ call'[c].url = call[c].url /\ call'[c].low = call[c].low
        /\ call'[c].mode = call[c].mode /\ call'[c].got = call[c].got
        /\ call'[c].stale = call[c].stale
        /\ \A d \in Callers \ {c} : call'[d] = call[d]
    BY <1>1, <1>8 DEF BackoffOver, Calls
  <2>2. QED
    BY <1>8, <2>1, MoveCurrent DEF BackoffOver
<1>9. CASE FailFinal(c)
  BY <1>9, MoveCurrent DEF FailFinal
<1>10. QED
  BY <1>2, <1>3, <1>4, <1>5, <1>6, <1>7, <1>8, <1>9

\* A 304 confirms the validator of the caller's copy.  It is the version that
\* the server has, hence so are the copy and the content on disk.
LEMMA NotModifiedCurrent ==
  ASSUME IInv, IInv', Current, NEW c \in Callers, NotModified(c)
  PROVE  Current'
<1> USE DEF IInv
<1> DEFINE u == call[c].url
<1>1. /\ u \in Urls /\ server[u] \in Nat /\ file[u] \in Nat
      /\ CallCurrent(c) /\ CacheCurrent(u)
  BY Numbers, ListNumbers DEF Current
<1>2. /\ pc[c] = "request" /\ GoTo(c, "refreshed") /\ UNCHANGED call
      /\ UNCHANGED <<server, file>>
      /\ call[c].stale.ver # 0 /\ call[c].stale.tag = server[u]
  BY DEF NotModified, Conditional, HoldsStale
<1>3. PICK t \in {entry[u].tag, call[c].stale.tag} :
        entry' = [entry EXCEPT ![u].fresh = TRUE, ![u].tag = t]
  BY DEF NotModified
<1>4. /\ call[c].stale.tag = file[u] /\ call[c].stale.ver = file[u]
      /\ server[u] = file[u]
  BY <1>1, <1>2, Numbers DEF CallCurrent, CacheCurrent
<1>5. OthersWait(c) /\ pc'[c] = "refreshed"
  BY <1>2, GoToOthers
<1>6. CallCurrent(c)'
  BY <1>1, <1>2, <1>4, <1>5
     DEF CallCurrent, Streaming, NeedsNetwork, Leading
<1>7. \A d \in Callers : CallCurrent(d)'
  <2>1. \A v \in Urls : file[v] <= file'[v] /\ file'[v] = file[v]
    BY <1>2, ListNumbers
  <2>2. QED
    BY <1>2, <1>5, <1>6, <2>1, OthersCurrent
<1>8. \A v \in Urls : Installing(v) => Installing(v)'
  BY <1>2, <1>5 DEF Installing, OthersWait
<1>9. ASSUME NEW v \in Urls, v = u PROVE CacheCurrent(v)'
  <2>1. entry'[v].tag = t /\ entry'[v].live = entry[v].live
    BY <1>1, <1>3, <1>9 DEF TypeOK, Entries
  <2>2. QED
    BY <1>1, <1>2, <1>3, <1>4, <1>8, <1>9, <2>1 DEF CacheCurrent
<1>10. \A v \in Urls \ {u} : CacheCurrent(v)'
  <2>1. \A v \in Urls \ {u} : entry'[v] = entry[v]
    BY <1>3 DEF TypeOK
  <2>2. QED
    BY <1>2, <1>8, <2>1 DEF Current, CacheCurrent
<1>11. QED
  BY <1>7, <1>9, <1>10 DEF Current

LEMMA RequestStepsCurrent ==
  ASSUME IInv, IInv', Current, NEW c \in Callers,
         ServeRevalidated(c) \/ Respond(c) \/ GiveUp(c) \/ ServeStale(c)
  PROVE  Current'
<1> USE DEF IInv
<1> DEFINE u == call[c].url
<1>1. /\ u \in Urls /\ server[u] \in Nat /\ file[u] \in Nat
      /\ CallCurrent(c) /\ CacheCurrent(u)
  BY Numbers, ListNumbers DEF Current
<1>2. CASE ServeRevalidated(c)
  BY <1>2, AnswerOthers, ExitOthers, AnswerStep DEF ServeRevalidated, Finish
<1>3. CASE Respond(c)
  <2>1. PICK t \in {0, server[u]} :
          call' = [call EXCEPT ![c].got = [ver |-> server[u], tag |-> t],
                               ![c].stale = NoContent]
    BY <1>3 DEF Respond
  <2>2. /\ pc[c] = "request" /\ GoTo(c, "stream")
        /\ UNCHANGED <<server, entry, file>>
    BY <1>3 DEF Respond
  <2>3. /\ \A d \in Callers \ {c} : call'[d] = call[d]
        /\ call'[c].url = u /\ call'[c].low = call[c].low
        /\ call'[c].mode = call[c].mode /\ call'[c].stale = NoContent
        /\ call'[c].got = [ver |-> server[u], tag |-> t]
    BY <2>1 DEF TypeOK, Calls
  <2>4. OthersWait(c) /\ pc'[c] = "stream"
    BY <2>2, <2>3, GoToOthers
  <2>5. 1 <= server[u]
    BY <1>1 DEF TypeOK
  <2>6. CallCurrent(c)'
    <3>1. /\ call'[c].got.ver = server[u] /\ call'[c].got.tag \in {0, server[u]}
          /\ call'[c].stale.ver = 0 /\ call'[c].stale.tag = 0
      BY <2>1, <2>3 DEF NoContent
    <3>2. server[u] \in Nat /\ file[u] \in Nat
      BY <1>1, ListNumbers
    <3>3. /\ call[c].low <= server[u] /\ file[u] <= server[u]
          /\ call[c].mode # "cacheOnly"
      BY <1>1, <2>2 DEF CallCurrent, CacheCurrent, NeedsNetwork, Leading
    <3>4. QED
      BY <2>2, <2>3, <2>4, <2>5, <3>1, <3>2, <3>3
         DEF CallCurrent, Streaming, NeedsNetwork, Leading
  <2>7. QED
    BY <2>2, <2>4, <2>6, QuietStep
<1>4. CASE GiveUp(c)
  <2>1. CASE Finish(c, "idle") /\ Answer(c, Failure("error"))
    BY <1>4, <2>1, AnswerOthers, ExitOthers, AnswerStep DEF GiveUp, Finish
  <2>2. CASE HoldsStale(c) /\ Finish(c, "fallback") /\ UNCHANGED call
    <3>1. OthersWait(c) /\ pc'[c] = "fallback"
      BY <2>2, ExitOthers DEF Finish
    <3>2. UNCHANGED <<server, entry, file>> /\ pc[c] = "failed"
      BY <1>4 DEF GiveUp
    <3>3. CallCurrent(c)'
      BY <1>1, <2>2, <3>1, <3>2, Numbers
         DEF CallCurrent, HoldsStale, Streaming, NeedsNetwork, Leading
    <3>4. QED
      BY <3>1, <3>2, <3>3, QuietStep
  <2>3. QED
    BY <1>4, <2>1, <2>2 DEF GiveUp
<1>5. CASE ServeStale(c)
  <2>1. \E a : Answer(c, a)
    BY <1>5 DEF ServeStale
  <2>2. QED
    BY <1>5, <2>1, AnswerOthers, GoToOthers, AnswerStep DEF ServeStale
<1>6. QED
  BY <1>2, <1>3, <1>4, <1>5

\* The leader's body replaces the content and is no older; the validator of
\* the entry is behind until the index is updated.
LEMMA CompleteBodyCurrent ==
  ASSUME IInv, IInv', Current, NEW c \in Callers, CompleteBody(c)
  PROVE  Current' /\ \A u \in Urls : file[u] <= file'[u]
<1> USE DEF IInv
<1> DEFINE u == call[c].url
<1>1. /\ u \in Urls /\ server[u] \in Nat /\ file[u] \in Nat
      /\ CallCurrent(c) /\ CacheCurrent(u)
  BY Numbers, ListNumbers DEF Current
<1>2. /\ pc[c] = "stream" /\ GoTo(c, "install") /\ UNCHANGED call
      /\ UNCHANGED <<server, entry>>
      /\ file' = [file EXCEPT ![u] = call[c].got.ver]
  BY DEF CompleteBody
<1>3. OthersWait(c) /\ pc'[c] = "install"
  BY <1>2, GoToOthers
<1>4. /\ file'[u] = call[c].got.ver
      /\ \A v \in Urls \ {u} : file'[v] = file[v]
  BY <1>1, <1>2 DEF TypeOK
<1>5. /\ file[u] <= call[c].got.ver /\ call[c].got.ver <= server[u]
      /\ 1 <= call[c].got.ver /\ call[c].got.ver \in Nat
  BY <1>1, <1>2, Numbers DEF CallCurrent, Streaming
<1>6. \A v \in Urls : file[v] <= file'[v]
  BY <1>4, <1>5, ListNumbers
<1>7. CallCurrent(c)'
  BY <1>1, <1>2, <1>3, <1>4, <1>5, Numbers
     DEF CallCurrent, Streaming, NeedsNetwork, Leading
<1>8. \A d \in Callers : CallCurrent(d)'
  <2>1. \A v \in Urls : file'[v] # file[v] => pc[c] = "stream" /\ v = call[c].url
    BY <1>2, <1>4
  <2>2. QED
    BY <1>2, <1>3, <1>6, <1>7, <2>1, OthersCurrent
<1>9. \A v \in Urls : Installing(v) => Installing(v)'
  BY <1>2, <1>3 DEF Installing, OthersWait
<1>10. ASSUME NEW v \in Urls, v = u PROVE CacheCurrent(v)'
  <2>1. Installing(v)'
    BY <1>2, <1>3, <1>10 DEF Installing
  <2>2. QED
    BY <1>1, <1>2, <1>4, <1>5, <1>10, <2>1, ListNumbers DEF CacheCurrent
<1>11. \A v \in Urls \ {u} : CacheCurrent(v)'
  BY <1>2, <1>4, <1>9 DEF Current, CacheCurrent
<1>12. QED
  BY <1>6, <1>8, <1>10, <1>11 DEF Current

\* The index update ends the installation with a validator for these bytes.
LEMMA InstallEntryCurrent ==
  ASSUME IInv, IInv', Current, NEW c \in Callers, InstallEntry(c)
  PROVE  Current'
<1> USE DEF IInv
<1> DEFINE u == call[c].url
<1>1. /\ u \in Urls /\ server[u] \in Nat /\ file[u] \in Nat
      /\ CallCurrent(c) /\ CacheCurrent(u)
  BY Numbers, ListNumbers DEF Current
<1>2. /\ pc[c] = "install" /\ GoTo(c, "installed") /\ UNCHANGED call
      /\ UNCHANGED <<server, file>>
      /\ entry' = [entry EXCEPT ![u] = [live |-> TRUE, tag |-> call[c].got.tag,
                                        fresh |-> TRUE]]
  BY DEF InstallEntry
<1>3. OthersWait(c) /\ pc'[c] = "installed"
  BY <1>2, GoToOthers
<1>4. CallCurrent(c)'
  BY <1>1, <1>2, <1>3 DEF CallCurrent, Streaming, NeedsNetwork, Leading
<1>5. \A d \in Callers : CallCurrent(d)'
  <2>1. \A v \in Urls : file[v] <= file'[v] /\ file'[v] = file[v]
    BY <1>2, ListNumbers
  <2>2. QED
    BY <1>2, <1>3, <1>4, <2>1, OthersCurrent
<1>6. \A v \in Urls \ {u} : Installing(v) => Installing(v)'
  BY <1>2, <1>3 DEF Installing, OthersWait
<1>7. ASSUME NEW v \in Urls, v = u PROVE CacheCurrent(v)'
  <2>1. entry'[v].tag = call[c].got.tag
    BY <1>1, <1>2, <1>7 DEF TypeOK
  <2>2. /\ file[u] = call[c].got.ver /\ call[c].got.tag \in {0, file[u]}
        /\ 1 <= file[u]
    BY <1>1, <1>2 DEF CallCurrent, Streaming
  <2>3. QED
    BY <1>1, <1>2, <1>7, <2>1, <2>2 DEF CacheCurrent
<1>8. \A v \in Urls \ {u} : CacheCurrent(v)'
  <2>1. \A v \in Urls \ {u} : entry'[v] = entry[v]
    BY <1>2 DEF TypeOK
  <2>2. QED
    BY <1>2, <1>6, <2>1 DEF Current, CacheCurrent
<1>9. QED
  BY <1>5, <1>7, <1>8 DEF Current

LEMMA ReaderStepsCurrent ==
  ASSUME IInv, IInv', Current, NEW c \in Callers,
         CachingFails(c) \/ EndOfBody(c) \/ BreakBody(c)
  PROVE  Current'
<1>1. CASE CachingFails(c)
  BY <1>1, MoveCurrent
     DEF CachingFails, Streaming, NeedsNetwork, Leading
<1>2. CASE EndOfBody(c)
  BY <1>2, AnswerOthers, ExitOthers, AnswerStep DEF EndOfBody, Finish, IInv
<1>3. CASE BreakBody(c)
  BY <1>3, AnswerOthers, ExitOthers, AnswerStep DEF BreakBody, Finish, IInv
<1>4. QED
  BY <1>1, <1>2, <1>3

LEMMA InitiallyCurrent == Init => Current
<1> SUFFICES ASSUME Init PROVE Current
  OBVIOUS
<1>1. \A c \in Callers : CallCurrent(c)
  BY IdleValues DEF Init, CallCurrent, Streaming, NeedsNetwork, Leading
<1>2. \A u \in Urls : CacheCurrent(u)
  <2> SUFFICES ASSUME NEW u \in Urls PROVE CacheCurrent(u)
    OBVIOUS
  <2>1. server[u] = 1 /\ file[u] = IF entry[u].live THEN 1 ELSE 0
    BY DEF Init
  <2>2. CASE entry[u] = NoEntry
    BY <2>1, <2>2 DEF NoEntry, CacheCurrent
  <2>3. CASE entry[u] \in [live : {TRUE}, tag : {0, 1}, fresh : BOOLEAN]
    <3>1. entry[u].live = TRUE /\ entry[u].tag \in {0, 1}
      BY <2>3
    <3>2. file[u] = 1 /\ server[u] = 1
      BY <2>1, <3>1
    <3>3. QED
      BY <3>1, <3>2 DEF CacheCurrent
  <2>4. QED
    BY <2>2, <2>3 DEF Init
<1>3. QED
  BY <1>1, <1>2 DEF Current

LEMMA CurrentInductive ==
  IInv /\ Current /\ [Next]_vars => IInv' /\ Current'
<1> SUFFICES ASSUME IInv, Current, [Next]_vars PROVE IInv' /\ Current'
  OBVIOUS
<1>1. IInv'
  BY Inductive
<1>2. ASSUME NEW c \in Callers, Step(c) PROVE Current'
  BY <1>1, <1>2, CacheStepsCurrent, FlightStepsCurrent, NotModifiedCurrent,
     RequestStepsCurrent, CompleteBodyCurrent, InstallEntryCurrent,
     ReaderStepsCurrent DEF Step
<1>3. CASE UNCHANGED vars
  BY <1>1, <1>3, EnvironmentCurrent
<1>4. QED
  BY <1>1, <1>2, <1>3, EnvironmentCurrent, BeginCurrent DEF Next, AllDone

\* No step but the end of a body touches the content of a list.
LEMMA ContentForward ==
  IInv /\ Current /\ [Next]_vars => \A u \in Urls : file'[u] >= file[u]
<1> SUFFICES ASSUME IInv, Current, [Next]_vars, NEW u \in Urls
             PROVE  file'[u] >= file[u]
  OBVIOUS
<1>1. file[u] \in Nat /\ file'[u] \in Nat
  <2>1. IInv'
    BY Inductive
  <2>2. QED
    BY <2>1, VersionAssumption DEF IInv, TypeOK, Versions
<1>2. UNCHANGED file => file'[u] >= file[u]
  BY <1>1
<1>3. ASSUME NEW c \in Callers, CompleteBody(c) PROVE file'[u] >= file[u]
  <2>1. file[u] <= file'[u]
    BY <1>3, Inductive, CompleteBodyCurrent
  <2>2. QED
    BY <1>1, <2>1
<1>4. ASSUME NEW c \in Callers, Step(c), ~CompleteBody(c) PROVE UNCHANGED file
  BY <1>4 DEF Step, Lookup, Open, OpenFails, Enter, Retry, WaitCancelled,
     AcquireSlot, FetchCancelled, NotModified, ServeRevalidated, Respond,
     FailTransient, FailFinal, BackoffOver, GiveUp, ServeStale, InstallEntry,
     CachingFails, EndOfBody, BreakBody
<1>5. QED
  BY <1>2, <1>3, <1>4 DEF Next, AllDone, vars, Publish, Expire, Cancel, Begin

LEMMA Currency == Spec => [](IInv /\ Current)
<1>1. Init => IInv /\ Current
  BY Initially, InitiallyCurrent
<1>2. QED
  BY <1>1, CurrentInductive, PTL DEF Spec
-----------------------------------------------------------------------------
(* The theorems about the cache. *)

\* Whatever callers, faults, conditional requests and publications interleave,
\* the validator in an index entry is that of the bytes on disk, except while
\* Promote is between its rename and its index update.
THEOREM ValidatorsHold == Spec => []ValidatorsMatchContent
<1>1. ASSUME IInv, Current PROVE ValidatorsMatchContent
  BY <1>1, ListNumbers
     DEF IInv, Current, CacheCurrent, Installing, ValidatorsMatchContent
<1>2. QED
  BY <1>1, Currency, PTL

\* Promotions of a URL happen in the order of its responses: the content on
\* disk never goes back to an older version, whoever downloads it.
THEOREM ContentForwardOnly == Spec => ContentNeverOlder
<1>1. IInv /\ Current /\ [Next]_vars
        => [\A u \in Urls : file'[u] >= file[u]]_vars
  BY ContentForward
<1>2. QED
  BY <1>1, Currency, PTL DEF Spec, ContentNeverOlder
-----------------------------------------------------------------------------
(* FilterListStore implements ListService. *)

\* The steps between the begin and the end of a call do not show.
LEMMA Unseen ==
  ASSUME TypeOK, NEW c \in Callers, OthersWait(c),
         pc[c] # "idle", pc'[c] # "idle", UNCHANGED <<server, answer>>,
         call'[c].url = call[c].url, call'[c].mode = call[c].mode,
         call'[c].ended = call[c].ended, call'[c].low = call[c].low
  PROVE  UNCHANGED Service!vars
<1>1. \A d \in Callers : ServiceCall(d)' = ServiceCall(d)
  BY DEF ServiceCall, OthersWait
<1>2. QED
  BY <1>1 DEF Service!vars

\* The promises of an answer, for a caller whose knowledge is in order.
Honest(c, a) ==
  /\ a \in Answers /\ a.src # "none"
  /\ a.src \in {"error", "broken"} => a.ver = 0 /\ ~a.confirmed
  /\ a.src \in {"network", "cache", "stale"} =>
       1 <= a.ver /\ a.ver <= server[call[c].url]
  /\ a.src = "network" => a.confirmed
  /\ a.confirmed => /\ a.ver >= call[c].low
                    /\ call[c].mode # "cacheOnly"
                    /\ a.src # "stale"
  /\ a.src = "stale" /\ call[c].mode = "default" => ~call[c].ended

LEMMA Returning ==
  ASSUME IInv, NEW c \in Callers, OthersWait(c), NEW a, Honest(c, a),
         Answer(c, a), pc[c] # "idle", pc'[c] = "idle", UNCHANGED server
  PROVE  Service!Next
<1> USE DEF IInv
<1> DEFINE Idle == [busy |-> FALSE, url |-> NoCall.url, mode |-> NoCall.mode,
                    ended |-> FALSE, low |-> 0]
           sc == [d \in Callers |-> ServiceCall(d)]
<1>1. /\ call'[c] = NoCall /\ answer' = [answer EXCEPT ![c] = a]
      /\ answer'[c] = a
  BY DEF Answer, TypeOK
<1>2. ServiceCall(c)' = Idle
  <2>1. NoCall.ended = FALSE /\ NoCall.low = 0
    BY DEF NoCall, NewCall
  <2>2. QED
    BY <1>1, <2>1 DEF ServiceCall
<1>3. \A d \in Callers \ {c} : ServiceCall(d)' = ServiceCall(d)
  BY DEF ServiceCall, OthersWait
<1>4. sc' = [sc EXCEPT ![c] = Idle]
  BY <1>2, <1>3
<1>5. sc[c] = ServiceCall(c) /\ sc[c].busy /\ sc'[c] # sc[c]
  BY <1>2 DEF ServiceCall
<1>6. Service!Keeps(c, a)
  <2>1. a.ver \in Nat /\ server[call[c].url] \in Nat
    BY Numbers, ListNumbers, VersionAssumption DEF Honest, Answers, Versions
  <2>2. QED
    BY <2>1 DEF Honest, Service!Keeps, ServiceCall
<1>7. Service!Return(c)
  BY <1>1, <1>4, <1>5, <1>6
     DEF Service!Return, Service!Answers, Service!Sources, Honest, Answers,
         Sources, Versions
<1>8. QED
  BY <1>5, <1>7 DEF Service!Next

\* A failed call and a served copy keep the promises.
LEMMA FailureHonest ==
  ASSUME NEW c \in Callers, NEW src \in {"error", "broken"}
  PROVE  Honest(c, Failure(src))
BY ValueTypes DEF Honest, Failure, Sources

LEMMA ServiceInitially == Init => Service!Init
<1> SUFFICES ASSUME Init PROVE Service!Init
  OBVIOUS
<1>1. \A c \in Callers :
        ServiceCall(c) = [busy |-> FALSE, url |-> NoCall.url,
                          mode |-> NoCall.mode, ended |-> FALSE, low |-> 0]
  <2>1. NoCall.ended = FALSE /\ NoCall.low = 0
    BY DEF NoCall, NewCall
  <2>2. QED
    BY <2>1 DEF Init, ServiceCall
<1>2. \A c \in Callers : answer[c].src = "none"
  BY DEF Init, Failure
<1>3. QED
  BY <1>1, <1>2 DEF Init, Service!Init

LEMMA ServicePublishes ==
  ASSUME IInv, NEW u \in Urls, Publish(u)
  PROVE  Service!Next
BY DEF Publish, Service!Publish, Service!Next, ServiceCall

LEMMA ServiceCancels ==
  ASSUME IInv, NEW c \in Callers, Cancel(c)
  PROVE  Service!Next
<1> USE DEF IInv
<1> DEFINE sc == [d \in Callers |-> ServiceCall(d)]
<1>1. \A d \in Callers \ {c} : ServiceCall(d)' = ServiceCall(d)
  BY DEF Cancel, ServiceCall, TypeOK
<1>2. ServiceCall(c)' = [ServiceCall(c) EXCEPT !.ended = TRUE]
  <2>1. call'[c] = [call[c] EXCEPT !.ended = TRUE] /\ UNCHANGED pc
    BY DEF Cancel, TypeOK
  <2>2. /\ call'[c].url = call[c].url /\ call'[c].mode = call[c].mode
        /\ call'[c].ended = TRUE /\ call'[c].low = call[c].low
    BY <2>1 DEF TypeOK, Calls
  <2>3. (pc[c] # "idle") = TRUE /\ (pc'[c] # "idle") = TRUE
    BY <2>1 DEF Cancel
  <2>4. ServiceCall(c)' = [busy |-> TRUE, url |-> call[c].url,
           mode |-> call[c].mode, ended |-> TRUE, low |-> call[c].low]
    BY <2>2, <2>3 DEF ServiceCall
  <2>5. ServiceCall(c) = [busy |-> TRUE, url |-> call[c].url,
           mode |-> call[c].mode, ended |-> call[c].ended, low |-> call[c].low]
    BY <2>3 DEF ServiceCall
  <2>6. [ServiceCall(c) EXCEPT !.ended = TRUE] =
          [busy |-> TRUE, url |-> call[c].url, mode |-> call[c].mode,
           ended |-> TRUE, low |-> call[c].low]
    <3> DEFINE yes == TRUE
               old == [busy |-> yes, url |-> call[c].url, mode |-> call[c].mode,
                       ended |-> call[c].ended, low |-> call[c].low]
    <3>1. yes = TRUE
      OBVIOUS
    <3> HIDE DEF yes
    <3>2. [old EXCEPT !.ended = yes] =
            [busy |-> yes, url |-> call[c].url, mode |-> call[c].mode,
             ended |-> yes, low |-> call[c].low]
      OBVIOUS
    <3>3. QED
      BY <2>5, <3>1, <3>2, Zenon
  <2>7. QED
    BY <2>4, <2>6, Zenon
<1>3. ServiceCall(c).busy /\ ServiceCall(c).ended # TRUE
  BY DEF Cancel, ServiceCall
<1>4. sc[c].busy /\ sc' = [sc EXCEPT ![c].ended = TRUE]
  BY <1>1, <1>2, <1>3
<1>5. sc'[c] # sc[c]
  <2>1. sc'[c].ended = TRUE
    BY <1>2 DEF ServiceCall
  <2>2. sc[c].ended # TRUE
    BY <1>3
  <2>3. QED
    BY <2>1, <2>2
<1>6. Service!EndContext(c)
  BY <1>4 DEF Service!EndContext, Cancel
<1>7. QED
  BY <1>5, <1>6 DEF Service!Next

LEMMA ServiceBegins ==
  ASSUME IInv, NEW c \in Callers, NEW u \in Urls, NEW m \in Modes,
         Begin(c, u, m)
  PROVE  Service!Next
<1> USE DEF IInv
<1> DEFINE sc == [d \in Callers |-> ServiceCall(d)]
           new == [busy |-> TRUE, url |-> u, mode |-> m, ended |-> FALSE,
                   low |-> server[u]]
<1>1. /\ \A d \in Callers \ {c} : ServiceCall(d)' = ServiceCall(d)
      /\ ServiceCall(c)' = new
      /\ ServiceCall(c).busy = FALSE
  BY DEF Begin, GoTo, ServiceCall, NewCall, TypeOK
<1>2. sc' = [sc EXCEPT ![c] = new] /\ sc[c].busy = FALSE
  BY <1>1
<1>3. sc'[c] # sc[c]
  <2>1. sc'[c].busy = TRUE
    BY <1>1
  <2>2. QED
    BY <1>2, <2>1
<1>4. Service!Begin(c, u, m)
  BY <1>2 DEF Service!Begin, Begin, Failure
<1>5. m \in {"default", "preferCache", "cacheOnly"}
  BY ModesAssumption
<1>6. QED
  BY <1>3, <1>4, <1>5 DEF Service!Next

\* What a step shows: a step of the service, or nothing.
Shows == Service!Next \/ UNCHANGED Service!vars

LEMMA ServedHonest ==
  ASSUME IInv, Current, NEW c \in Callers,
         NEW src \in {"network", "cache", "stale"},
         NEW v \in Versions, NEW b \in BOOLEAN,
         1 <= v, v <= server[call[c].url],
         src = "network" => b = TRUE, src = "stale" => b = FALSE,
         b = TRUE => call[c].low <= v /\ call[c].mode # "cacheOnly",
         src = "stale" /\ call[c].mode = "default" => ~call[c].ended
  PROVE  Honest(c, Served(src, v, b))
<1> DEFINE a == Served(src, v, b)
<1>1. /\ a \in Answers /\ a.src = src /\ a.ver = v /\ a.confirmed = b
  BY ValueTypes DEF Served, Sources
<1>2. v \in Nat /\ call[c].low \in Nat
  BY Numbers, VersionAssumption DEF IInv, Versions
<1> HIDE DEF a
<1>3. Honest(c, a)
  BY <1>1, <1>2 DEF Honest
<1>4. QED
  BY <1>3 DEF a

\* A miss either fails the call or goes on with it.
LEMMA MissShows ==
  ASSUME IInv, Current, NEW c \in Callers, Miss(c),
         pc[c] \in {"lookup", "open"}, UNCHANGED server
  PROVE  Shows
<1> USE DEF IInv
<1>1. CASE GoTo(c, "idle") /\ Answer(c, Failure("error"))
  <2>1. OthersWait(c) /\ pc'[c] = "idle"
    BY <1>1, AnswerOthers, GoToOthers
  <2>2. Honest(c, Failure("error"))
    BY FailureHonest
  <2>3. QED
    BY <1>1, <2>1, <2>2, Returning DEF Shows
<1>2. CASE /\ GoTo(c, "enter") /\ UNCHANGED answer
           /\ call' = [call EXCEPT ![c].meta = NoEntry]
  <2>1. /\ \A d \in Callers \ {c} : call'[d] = call[d]
        /\ call'[c].url = call[c].url /\ call'[c].low = call[c].low
        /\ call'[c].ended = call[c].ended /\ call'[c].mode = call[c].mode
    BY <1>2 DEF TypeOK, Calls
  <2>2. OthersWait(c) /\ pc'[c] = "enter"
    BY <1>2, <2>1, GoToOthers
  <2>3. QED
    BY <1>2, <2>1, <2>2, Unseen DEF Shows
<1>3. QED
  BY <1>1, <1>2 DEF Miss

LEMMA CacheStepsShow ==
  ASSUME IInv, Current, NEW c \in Callers,
         Lookup(c) \/ Open(c) \/ OpenFails(c)
  PROVE  Shows
<1> USE DEF IInv
<1> DEFINE u == call[c].url
<1>1. /\ u \in Urls /\ server[u] \in Nat /\ file[u] \in Versions
      /\ CallCurrent(c) /\ CacheCurrent(u)
  BY Numbers, ListNumbers DEF Current, TypeOK
<1>2. CASE Lookup(c) /\ ~entry[u].live
  BY <1>2, MissShows DEF Lookup
<1>3. CASE Lookup(c) /\ entry[u].live
  <2>1. /\ call' = [call EXCEPT ![c].meta = entry[u]]
        /\ pc[c] = "lookup" /\ GoTo(c, "open")
        /\ UNCHANGED <<server, answer>>
    BY <1>3 DEF Lookup
  <2>2. /\ \A d \in Callers \ {c} : call'[d] = call[d]
        /\ call'[c].url = u /\ call'[c].low = call[c].low
        /\ call'[c].ended = call[c].ended /\ call'[c].mode = call[c].mode
    BY <2>1 DEF TypeOK, Calls
  <2>3. OthersWait(c) /\ pc'[c] = "open"
    BY <2>1, <2>2, GoToOthers
  <2>4. QED
    BY <2>1, <2>2, <2>3, Unseen DEF Shows
<1>4. CASE Open(c) /\ GoTo(c, "idle")
  <2> DEFINE src == IF call[c].meta.fresh THEN "cache" ELSE "stale"
  <2>1. /\ call[c].meta.fresh \/ call[c].mode # "default"
        /\ Answer(c, Served(src, file[u], FALSE))
        /\ pc[c] = "open" /\ UNCHANGED server
    BY <1>4 DEF Open, GoTo, TypeOK
  <2>2. OthersWait(c) /\ pc'[c] = "idle"
    BY <1>4, <2>1, AnswerOthers, GoToOthers
  <2>3. 1 <= file[u] /\ file[u] <= server[u]
    BY <1>1, <2>1 DEF CallCurrent, CacheCurrent
  <2>4. /\ src \in {"network", "cache", "stale"} /\ src # "network"
        /\ src = "stale" => call[c].mode # "default"
    BY <2>1
  <2> HIDE DEF src
  <2>5. Honest(c, Served(src, file[u], FALSE))
    BY <1>1, <2>3, <2>4, ServedHonest
  <2>6. QED
    BY <2>1, <2>2, <2>5, Returning DEF Shows
<1>5. CASE Open(c) /\ ~GoTo(c, "idle")
  <2>1. /\ call' = [call EXCEPT ![c].stale = [ver |-> file[u],
                                              tag |-> call[c].meta.tag],
                                ![c].meta = NoEntry]
        /\ pc[c] = "open" /\ GoTo(c, "enter")
        /\ UNCHANGED <<server, answer>>
    BY <1>5 DEF Open
  <2>2. /\ \A d \in Callers \ {c} : call'[d] = call[d]
        /\ call'[c].url = u /\ call'[c].low = call[c].low
        /\ call'[c].ended = call[c].ended /\ call'[c].mode = call[c].mode
    BY <2>1 DEF TypeOK, Calls
  <2>3. OthersWait(c) /\ pc'[c] = "enter"
    BY <2>1, <2>2, GoToOthers
  <2>4. QED
    BY <2>1, <2>2, <2>3, Unseen DEF Shows
<1>6. CASE OpenFails(c)
  BY <1>6, MissShows DEF OpenFails
<1>7. QED
  BY <1>2, <1>3, <1>4, <1>5, <1>6

\* A failed call, whether or not the caller led a flight.
LEMMA FailingShows ==
  ASSUME IInv, NEW c \in Callers, NEW src \in {"error", "broken"},
         Answer(c, Failure(src)), GoTo(c, "idle") \/ ExitFlight(c, "idle"),
         pc[c] # "idle", UNCHANGED server
  PROVE  Shows
<1>1. OthersWait(c) /\ pc'[c] = "idle"
  BY AnswerOthers, GoToOthers, ExitOthers DEF IInv
<1>2. Honest(c, Failure(src))
  BY FailureHonest
<1>3. QED
  BY <1>1, <1>2, Returning DEF Shows

\* The steps inside a call.
LEMMA MovingShows ==
  ASSUME IInv, NEW c \in Callers, NEW where, where # "idle",
         GoTo(c, where) \/ ExitFlight(c, where),
         pc[c] # "idle", UNCHANGED <<server, answer>>,
         \A d \in Callers \ {c} : call'[d] = call[d],
         call'[c].url = call[c].url, call'[c].mode = call[c].mode,
         call'[c].ended = call[c].ended, call'[c].low = call[c].low
  PROVE  Shows
<1>1. OthersWait(c) /\ pc'[c] = where
  BY GoToOthers, ExitOthers DEF IInv
<1>2. QED
  BY <1>1, Unseen DEF Shows, IInv

LEMMA FlightStepsShow ==
  ASSUME IInv, NEW c \in Callers,
         Enter(c) \/ Retry(c) \/ WaitCancelled(c) \/ AcquireSlot(c)
           \/ FetchCancelled(c) \/ NotModified(c) \/ Respond(c)
           \/ FailTransient(c) \/ FailFinal(c) \/ BackoffOver(c)
           \/ CompleteBody(c) \/ InstallEntry(c) \/ CachingFails(c)
           \/ BreakBody(c)
  PROVE  Shows
<1>1. call[c] \in Calls /\ pc \in [Callers -> PCs] /\ call \in [Callers -> Calls]
  BY DEF IInv, TypeOK
<1>2. CASE Enter(c)
  <2>1. /\ \A d \in Callers \ {c} : call'[d] = call[d]
        /\ call'[c].url = call[c].url /\ call'[c].mode = call[c].mode
        /\ call'[c].ended = call[c].ended /\ call'[c].low = call[c].low
    BY <1>1, <1>2 DEF Enter, Calls
  <2>2. GoTo(c, "acquire") \/ GoTo(c, "wait")
    BY <1>2 DEF Enter
  <2>3. QED
    BY <1>2, <2>1, <2>2, MovingShows DEF Enter
<1>3. CASE Respond(c)
  <2>1. /\ \A d \in Callers \ {c} : call'[d] = call[d]
        /\ call'[c].url = call[c].url /\ call'[c].mode = call[c].mode
        /\ call'[c].ended = call[c].ended /\ call'[c].low = call[c].low
    BY <1>1, <1>3 DEF Respond, Calls
  <2>2. QED
    BY <1>3, <2>1, MovingShows DEF Respond
<1>4. CASE BackoffOver(c)
  <2>1. /\ \A d \in Callers \ {c} : call'[d] = call[d]
        /\ call'[c].url = call[c].url /\ call'[c].mode = call[c].mode
        /\ call'[c].ended = call[c].ended /\ call'[c].low = call[c].low
    BY <1>1, <1>4 DEF BackoffOver, Calls
  <2>2. QED
    BY <1>4, <2>1, MovingShows DEF BackoffOver
<1>5. CASE Retry(c) \/ AcquireSlot(c)
  BY <1>5, MovingShows DEF Retry, AcquireSlot
<1>6. CASE FailTransient(c) \/ FailFinal(c)
  BY <1>6, MovingShows DEF FailTransient, FailFinal
<1>7. CASE NotModified(c) \/ InstallEntry(c)
  BY <1>7, MovingShows DEF NotModified, InstallEntry
<1>8. CASE CompleteBody(c) \/ CachingFails(c)
  BY <1>8, MovingShows DEF CompleteBody, CachingFails
<1>9. CASE WaitCancelled(c)
  BY <1>9, FailingShows DEF WaitCancelled
<1>10. CASE FetchCancelled(c)
  BY <1>10, FailingShows DEF FetchCancelled
<1>11. CASE BreakBody(c)
  BY <1>11, FailingShows DEF BreakBody, Finish
<1>12. QED
  BY <1>2, <1>3, <1>4, <1>5, <1>6, <1>7, <1>8, <1>9, <1>10, <1>11

\* The steps that answer with content, or fall back to it.
LEMMA AnsweringShows ==
  ASSUME IInv, Current, NEW c \in Callers,
         ServeRevalidated(c) \/ GiveUp(c) \/ ServeStale(c) \/ EndOfBody(c)
  PROVE  Shows
<1> USE DEF IInv
<1> DEFINE u == call[c].url
<1>1. /\ u \in Urls /\ server[u] \in Nat /\ file[u] \in Nat
      /\ call[c].stale.ver \in Versions /\ call[c].got.ver \in Versions
      /\ CallCurrent(c) /\ CacheCurrent(u)
  BY Numbers, FieldTypes, ListNumbers DEF Current
<1>2. /\ call[c].stale.ver \in Nat /\ call[c].got.ver \in Nat
      /\ call[c].low \in Nat
  BY Numbers
<1>3. call[c].stale.ver <= server[u]
  BY <1>1, <1>2 DEF CallCurrent, CacheCurrent
<1>4. CASE ServeRevalidated(c)
  <2>1. /\ pc[c] = "refreshed" /\ ExitFlight(c, "idle") /\ UNCHANGED server
        /\ Answer(c, Served("cache", call[c].stale.ver, TRUE))
    BY <1>4 DEF ServeRevalidated, Finish
  <2>2. OthersWait(c) /\ pc'[c] = "idle"
    BY <2>1, AnswerOthers, ExitOthers
  <2>3. /\ call[c].low <= call[c].stale.ver /\ 1 <= call[c].stale.ver
        /\ call[c].mode # "cacheOnly"
    BY <1>1, <2>1 DEF CallCurrent, NeedsNetwork, Leading
  <2>4. Honest(c, Served("cache", call[c].stale.ver, TRUE))
    BY <1>1, <1>3, <2>3, ServedHonest
  <2>5. QED
    BY <2>1, <2>2, <2>4, Returning DEF Shows
<1>5. CASE EndOfBody(c)
  <2>1. /\ pc[c] = "installed" /\ ExitFlight(c, "idle") /\ UNCHANGED server
        /\ Answer(c, Served("network", call[c].got.ver, TRUE))
    BY <1>5 DEF EndOfBody, Finish
  <2>2. OthersWait(c) /\ pc'[c] = "idle"
    BY <2>1, AnswerOthers, ExitOthers
  <2>3. /\ call[c].low <= call[c].got.ver /\ 1 <= call[c].got.ver
        /\ call[c].got.ver <= server[u] /\ call[c].mode # "cacheOnly"
    BY <1>1, <2>1 DEF CallCurrent, Streaming, NeedsNetwork, Leading
  <2>4. Honest(c, Served("network", call[c].got.ver, TRUE))
    BY <1>1, <2>3, ServedHonest
  <2>5. QED
    BY <2>1, <2>2, <2>4, Returning DEF Shows
<1>6. CASE GiveUp(c)
  <2>1. CASE Finish(c, "idle") /\ Answer(c, Failure("error"))
    BY <1>6, <2>1, FailingShows DEF GiveUp, Finish
  <2>2. CASE Finish(c, "fallback") /\ UNCHANGED <<call, answer>>
    BY <1>6, <2>2, MovingShows DEF GiveUp, Finish
  <2>3. QED
    BY <1>6, <2>1, <2>2 DEF GiveUp
<1>7. CASE ServeStale(c)
  <2>1. pc[c] = "fallback" /\ GoTo(c, "idle") /\ UNCHANGED server
    BY <1>7 DEF ServeStale
  <2>2. CASE Answer(c, Failure("error"))
    BY <2>1, <2>2, FailingShows
  <2>3. CASE /\ ~call[c].ended
             /\ Answer(c, Served("stale", call[c].stale.ver, FALSE))
    <3>1. OthersWait(c) /\ pc'[c] = "idle"
      BY <2>1, <2>3, AnswerOthers, GoToOthers
    <3>2. 1 <= call[c].stale.ver
      BY <1>1, <2>1 DEF CallCurrent
    <3>3. Honest(c, Served("stale", call[c].stale.ver, FALSE))
      BY <1>1, <1>3, <2>3, <3>2, ServedHonest
    <3>4. QED
      BY <2>1, <2>3, <3>1, <3>3, Returning DEF Shows
  <2>4. QED
    BY <1>7, <2>2, <2>3 DEF ServeStale
<1>8. QED
  BY <1>4, <1>5, <1>6, <1>7

LEMMA NothingShows ==
  ASSUME UNCHANGED <<server, pc, call, answer>>
  PROVE  Shows
<1>1. \A c \in Callers : ServiceCall(c)' = ServiceCall(c)
  BY DEF ServiceCall
<1>2. QED
  BY <1>1 DEF Shows, Service!vars

\* Every step of the store is one step of the service, or shows nothing.
LEMMA StepsShow == IInv /\ Current /\ [Next]_vars => [Service!Next]_(Service!vars)
<1> SUFFICES ASSUME IInv, Current, [Next]_vars PROVE Shows
  BY DEF Shows
<1>1. ASSUME NEW c \in Callers, Step(c) PROVE Shows
  BY <1>1, CacheStepsShow, FlightStepsShow, AnsweringShows DEF Step
<1>2. ASSUME NEW u \in Urls, Publish(u) \/ Expire(u) PROVE Shows
  <2>1. CASE Publish(u)
    BY <2>1, ServicePublishes DEF Shows
  <2>2. CASE Expire(u)
    BY <2>2, NothingShows DEF Expire
  <2>3. QED
    BY <1>2, <2>1, <2>2
<1>3. ASSUME NEW c \in Callers, Cancel(c) PROVE Shows
  BY <1>3, ServiceCancels DEF Shows
<1>4. ASSUME NEW c \in Callers, NEW u \in Urls, NEW m \in Modes,
             Begin(c, u, m)
      PROVE  Shows
  BY <1>4, ServiceBegins DEF Shows
<1>5. CASE UNCHANGED vars
  BY <1>5, NothingShows DEF vars
<1>6. QED
  BY <1>1, <1>2, <1>3, <1>4, <1>5 DEF Next, AllDone

\* Get keeps the promises of ListService: content the server vouched for is at
\* least as recent as the call, a stale copy never answers a ModeDefault call
\* whose context has ended, and ModeCacheOnly never speaks for the server.
THEOREM GetHonest == Spec => KeepsPromises
<1>1. Init => Service!Init
  BY ServiceInitially
<1>2. IInv /\ Current /\ [Next]_vars => [Service!Next]_(Service!vars)
  BY StepsShow
<1>3. QED
  BY <1>1, <1>2, Currency, PTL DEF Spec, KeepsPromises, Service!Spec
=============================================================================
