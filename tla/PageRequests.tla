---------------------------- MODULE PageRequests ----------------------------
(***************************************************************************)
(* jslibs/scriptlets: prevent-xhr and json-prune-xhr-response on the same  *)
(* page, and prevent-fetch with json-prune-fetch-response.  Each replaces  *)
(* methods of XMLHttpRequest.prototype (or fetch) by proxies around what   *)
(* it finds there, so that the one that is installed second is the outer   *)
(* one.  The scripts of the page may use an object for several requests.   *)
(* An object of the page is numbered 1 to MaxObjects; the substitutes that *)
(* json-prune creates follow.  Values of the own properties that the       *)
(* scriptlets define on an object can never change again.                  *)
(*                                                                         *)
(* What json-prune makes of a value is Pruned (see JsonPrune); here it     *)
(* only matters that there is nothing left to remove afterwards.           *)
(***************************************************************************)
EXTENDS JsonValues, Naturals, SequencesExt, FiniteSets

CONSTANTS
  Urls, Prevented, ToPrune,   \* addresses, and those that the scriptlets match
  Pruned(_),                  \* a value without what json-prune removes from it
  Bodies,                     \* what servers answer: [json, value]
  MaxObjects, MaxRequests        \* bounds: objects of the page, calls of open and fetch

ASSUME RequestAssumption ==
  Prevented \subseteq Urls /\ ToPrune \subseteq Urls /\ MaxObjects \in Nat /\ MaxRequests \in Nat

ASSUME BodiesAssumption == Bodies \subseteq [json : BOOLEAN, value : {b.value : b \in Bodies}]

ASSUME PrunedAssumption ==
  /\ \A b \in Bodies : Pruned(Pruned(b.value)) = Pruned(b.value)
  /\ Pruned(Object(<<>>)) = Object(<<>>)

VARIABLES
  pruneOuter,  \* json-prune was installed after prevent
  badProps,    \* the arguments of prevent-xhr and prevent-fetch cannot be parsed
  xhrs,        \* the objects, with the symbols of both scriptlets
  tasks,       \* timers and requests under way: [do, for, turn]
  fetches,     \* the calls of fetch: [url, is, body]
  wire,        \* history: the addresses that requests were made to
  asked,       \* history: [Mine -> the addresses of its calls of send]
  heard,       \* history: [Mine -> the number of its load, error and abort events]
  lost         \* history: [Mine -> the number of its calls of send that no event can follow]

requestVars == <<pruneOuter, badProps, xhrs, tasks, fetches, wire, asked, heard, lost>>

Mine == 1 .. MaxObjects
NoBody == [json |-> FALSE, value |-> Null]
NoAnswer == [url |-> "", status |-> 0, body |-> NoBody]

\* opens: how often; mayOpen and maySend as without the scriptlets.
Fresh == [url |-> "", state |-> "unsent", native |-> NoAnswer, pinned |-> <<>>, prevent |-> FALSE,
          preventUrl |-> "", shouldPrune |-> FALSE, openArgs |-> "", parent |-> 0,
          opens |-> 0, maySend |-> FALSE]

-----------------------------------------------------------------------------
\* open

NativeOpen(x, u) == [x EXCEPT !.url = u, !.state = "opened", !.native = NoAnswer]

\* Faulty: a match is forgotten when the object is opened again.
ForgetfulOpen(x, u) ==
  [NativeOpen(x, u) EXCEPT !.prevent = u \in Prevented, !.preventUrl = IF u \in Prevented THEN u ELSE @]

\* An object that has matched once is prevented for ever.
PreventOpen(x, u) ==
  IF badProps \/ (~x.prevent /\ u \notin Prevented) THEN NativeOpen(x, u)
  ELSE [NativeOpen(x, u) EXCEPT !.prevent = TRUE, !.preventUrl = u]

\* An address that does not match leaves the marks of one that did.
PruneOpen(x, u) == IF u \in ToPrune THEN [x EXCEPT !.shouldPrune = TRUE, !.openArgs = u] ELSE x

\* A substitute goes through what was there when json-prune was installed.
OpenBelow(x, u) == IF pruneOuter THEN PreventOpen(x, u) ELSE NativeOpen(x, u)

Opened(x, u) == [PreventOpen(PruneOpen(x, u), u) EXCEPT !.opens = @ + 1, !.maySend = TRUE]

\* The request under way, if any, is given up without an event.
Open(o, u) ==
  /\ xhrs' = [xhrs EXCEPT ![o] = Opened(@, u)]
  /\ tasks' = {t \in tasks : t.do # "answer" \/ t.for # o}
  /\ lost' = [lost EXCEPT ![o] = @ + Cardinality(tasks \ tasks')]
  /\ UNCHANGED <<pruneOuter, badProps, fetches, wire, asked, heard>>

-----------------------------------------------------------------------------
\* send, on [xhrs, tasks, wire]

Task(do, o) == [do |-> do, for |-> o, turn |-> IF o \in Mine THEN Len(asked[o]) ELSE 0]

NativeSend(s, o) ==
  [xhrs |-> [s.xhrs EXCEPT ![o].state = "sent"],
   tasks |-> s.tasks \union {Task("answer", o)},
   wire |-> s.wire \union {s.xhrs[o].url}]

PreventSend(s, o) ==
  IF s.xhrs[o].prevent THEN [s EXCEPT !.tasks = @ \union {Task("pretend", o)}] ELSE NativeSend(s, o)

SendBelow(s, o) == IF pruneOuter THEN PreventSend(s, o) ELSE NativeSend(s, o)

\* A request of its own, with the arguments of the open that matched.
Substitute(s, o) ==
  LET sub == [OpenBelow(Fresh, s.xhrs[o].openArgs) EXCEPT !.parent = o]
  IN SendBelow([s EXCEPT !.xhrs = Append(@, sub)], Len(s.xhrs) + 1)

\* The substitute's send may throw: then the object sends itself.
PruneSend(s, o, throws) ==
  IF ~s.xhrs[o].shouldPrune \/ throws THEN SendBelow(s, o) ELSE Substitute(s, o)

Send(o, throws) ==
  /\ xhrs[o].maySend
  /\ LET now == [xhrs |-> [xhrs EXCEPT ![o].maySend = FALSE], tasks |-> tasks, wire |-> wire]
         s == IF ~pruneOuter /\ xhrs[o].prevent THEN PreventSend(now, o) ELSE PruneSend(now, o, throws)
     IN xhrs' = s.xhrs /\ tasks' = s.tasks /\ wire' = s.wire
  /\ asked' = [asked EXCEPT ![o] = Append(@, xhrs[o].url)]
  /\ UNCHANGED <<pruneOuter, badProps, fetches, heard, lost>>

\* Only a request of the object itself is under way for the browser.
Abort(o) ==
  /\ xhrs[o].state = "sent"
  /\ xhrs' = [xhrs EXCEPT ![o].state = "unsent"]
  /\ tasks' = {t \in tasks : t.do # "answer" \/ t.for # o}
  /\ heard' = [heard EXCEPT ![o] = @ + 1]
  /\ UNCHANGED <<pruneOuter, badProps, fetches, wire, asked, lost>>

-----------------------------------------------------------------------------
\* Answers.

\* Defining a property again with another value throws.
CanPin(x, answer) == x.pinned = <<>> \/ x.pinned = <<answer>>

\* What a reader of the object's properties is given.
Seen(x) == IF x.pinned # <<>> THEN x.pinned[1] ELSE x.native

PrunedBody(body) == IF body.json THEN [body EXCEPT !.value = Pruned(@)] ELSE body

\* Faulty: what the page will read is taken before it is pruned.
EagerCapture(x) == Seen(x)

\* The substitute has the default responseType, so that its answer is a text.
Capture(x) == [Seen(x) EXCEPT !.body = PrunedBody(@)]

\* Faulty: the events of a prevented or pruned request are left out.
SilentDone(objs, rest, o) ==
  LET p == objs[o].parent
      answer == Capture(objs[o]) IN
  IF p = 0
  THEN xhrs' = objs /\ tasks' = rest /\ heard' = [heard EXCEPT ![o] = @ + 1] /\ UNCHANGED lost
  ELSE UNCHANGED <<heard, lost>> /\ tasks' = rest
       /\ xhrs' = IF CanPin(objs[p], answer) THEN [objs EXCEPT ![p].pinned = <<answer>>] ELSE objs

\* An error at Object.defineProperties: no event follows.
NoEvent(o) == lost' = [lost EXCEPT ![o] = @ + 1] /\ UNCHANGED heard

\* The last readystatechange of an object: of the page's own, or of a
\* substitute, whose answer becomes the page's object's.
Done(objs, rest, o) ==
  LET p == objs[o].parent
      answer == Capture(objs[o]) IN
  IF p = 0
  THEN xhrs' = objs /\ tasks' = rest /\ heard' = [heard EXCEPT ![o] = @ + 1] /\ UNCHANGED lost
  ELSE IF CanPin(objs[p], answer)
  THEN /\ xhrs' = [objs EXCEPT ![p].pinned = <<answer>>]
       /\ tasks' = rest \union {[Task("events", p) EXCEPT !.turn = o]}
       /\ UNCHANGED <<heard, lost>>
  ELSE xhrs' = objs /\ tasks' = rest /\ NoEvent(p)

\* The timer of prevent-xhr: 200, an empty text, the address asked for last.
Pretend(t) ==
  LET o == t.for
      fake == [url |-> xhrs[o].preventUrl, status |-> 200, body |-> NoBody] IN
  /\ t.do = "pretend"
  /\ IF CanPin(xhrs[o], fake) THEN Done([xhrs EXCEPT ![o].pinned = <<fake>>], tasks \ {t}, o)
     ELSE tasks' = tasks \ {t} /\ NoEvent(o) /\ UNCHANGED xhrs

\* The server's answer, or an error of the network.
Answer(t) ==
  LET o == t.for IN
  /\ t.do = "answer"
  /\ \E answer \in {[url |-> xhrs[o].url, status |-> 200, body |-> b] : b \in Bodies} \union {NoAnswer} :
       Done([xhrs EXCEPT ![o].state = "done", ![o].native = answer], tasks \ {t}, o)

\* The timer of json-prune: the events that the page waits for.
Events(t) ==
  /\ t.do = "events"
  /\ tasks' = tasks \ {t} /\ heard' = [heard EXCEPT ![t.for] = @ + 1]
  /\ UNCHANGED <<xhrs, lost>>

RunTask ==
  /\ \E t \in tasks : Pretend(t) \/ Answer(t) \/ Events(t)
  /\ UNCHANGED <<pruneOuter, badProps, fetches, wire, asked>>

-----------------------------------------------------------------------------
\* fetch

EmptyObject == [json |-> TRUE, value |-> Object(<<>>)]
Call(u, is, body) == [url |-> u, is |-> is, body |-> body]

\* With arguments that cannot be parsed, prevent-fetch rejects every call.
Fetch(u) ==
  /\ fetches' = Append(fetches, IF badProps THEN Call(u, "rejected", NoBody)
                                ELSE IF u \in Prevented THEN Call(u, "resolved", EmptyObject)
                                ELSE Call(u, "pending", NoBody))
  /\ wire' = IF badProps \/ u \in Prevented THEN wire ELSE wire \union {u}
  /\ UNCHANGED <<pruneOuter, badProps, xhrs, tasks, asked, heard, lost>>

\* What is no JSON is passed on as it came.
FetchAnswer(i) ==
  /\ fetches[i].is = "pending"
  /\ \/ fetches' = [fetches EXCEPT ![i].is = "rejected"]
     \/ \E b \in Bodies : fetches' = [fetches EXCEPT ![i].is = "resolved",
          ![i].body = IF fetches[i].url \in ToPrune THEN PrunedBody(b) ELSE b]
  /\ UNCHANGED <<pruneOuter, badProps, xhrs, tasks, wire, asked, heard, lost>>

-----------------------------------------------------------------------------

NoneYet ==
  /\ xhrs = [o \in Mine |-> Fresh] /\ tasks = {} /\ fetches = <<>> /\ wire = {}
  /\ asked = [o \in Mine |-> <<>>] /\ heard = [o \in Mine |-> 0]
  /\ lost = [o \in Mine |-> 0]

RequestsInit == pruneOuter \in BOOLEAN /\ badProps \in BOOLEAN /\ NoneYet
NoRequests == pruneOuter = FALSE /\ badProps = FALSE /\ NoneYet

Used == FoldLeft(LAMBDA n, x : n + x.opens, Len(fetches), xhrs)

PageActs ==
  \/ Used < MaxRequests /\ \E u \in Urls : Fetch(u) \/ \E o \in Mine : Open(o, u)
  \/ \E o \in Mine : Abort(o) \/ \E throws \in BOOLEAN : Send(o, throws)

Browser == RunTask \/ \E i \in DOMAIN fetches : FetchAnswer(i)

RequestsNext == PageActs \/ Browser

\* Timers fire and requests end.
RequestsFairness == WF_requestVars(Browser)

\* A page with these scriptlets alone.
RequestsSpec == RequestsInit /\ [][RequestsNext]_requestVars /\ RequestsFairness

-----------------------------------------------------------------------------
\* Properties.

\* No request to an address that prevent-xhr or prevent-fetch matches is ever
\* made, whichever scriptlet is installed first, by whatever object: the page's,
\* used once or several times, or a substitute of json-prune.
PreventedNeverSent == ~badProps => wire \intersect Prevented = {}

\* The page reads no property that json-prune is to remove from the answer of a
\* request that it matches, unless the object had to make the request itself,
\* however often it has been used before.
PrunedContent ==
  /\ \A o \in Mine : xhrs[o].url \in ToPrune /\ xhrs[o].native = NoAnswer
       => PrunedBody(Seen(xhrs[o]).body) = Seen(xhrs[o]).body
  /\ \A i \in DOMAIN fetches : fetches[i].url \in ToPrune => PrunedBody(fetches[i].body) = fetches[i].body

\* Each time a page sends a request it hears of its end, once, though it may be
\* no request of the browser's and its object may have been used before; and
\* every fetch is settled.  (Excepted is what no event can follow: a request
\* that open gives up; and that the object of a request holds an other answer
\* for good, from an earlier one, so that to define the new one is an error.)
EverySendAnswered ==
  <>[](/\ \A o \in Mine : heard[o] + lost[o] = Len(asked[o])
       /\ \A i \in DOMAIN fetches : fetches[i].is # "pending")

=============================================================================
