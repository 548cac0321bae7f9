------------------------ MODULE PageRequests_proofs ------------------------
(***************************************************************************)
(* What PageRequests promises, for any addresses, matches, answers and     *)
(* number of objects: no request that is to be prevented is made, and what *)
(* a page reads has been pruned.                                           *)
(***************************************************************************)
EXTENDS PageRequests, SequenceTheorems, TLAPS

-----------------------------------------------------------------------------
(* The invariant. *)

Addresses == Urls \union {""}
AnyBody == Bodies \union {PrunedBody(b) : b \in Bodies} \union {NoBody, EmptyObject}
Answers == [url : Addresses, status : {0, 200}, body : AnyBody]
XhrTypes ==
  [url : Addresses, state : {"unsent", "opened", "sent", "done"}, native : Answers,
   pinned : Seq(Answers), prevent : BOOLEAN, preventUrl : Addresses, shouldPrune : BOOLEAN,
   openArgs : Addresses, parent : Nat, opens : Nat, maySend : BOOLEAN]
Fetches == [url : Urls, is : {"pending", "resolved", "rejected"}, body : AnyBody]

Typed ==
  /\ pruneOuter \in BOOLEAN /\ badProps \in BOOLEAN
  /\ xhrs \in Seq(XhrTypes) /\ Mine \subseteq DOMAIN xhrs
  /\ \A o \in DOMAIN xhrs : xhrs[o].parent = 0 \/ xhrs[o].parent \in Mine
  /\ \A t \in tasks : t.for \in DOMAIN xhrs
  /\ fetches \in Seq(Fetches)

\* What an object would send it has been asked to send by an open, and an open
\* of an address to prevent leaves its mark for ever.
Marked(x) ==
  /\ x.maySend /\ x.url \in Prevented => x.prevent
  /\ x.shouldPrune /\ x.openArgs \in Prevented => x.prevent
AllMarked == ~badProps => \A o \in DOMAIN xhrs : Marked(xhrs[o])

\* What has been put in the place of an answer has nothing left to remove.
Clean(body) == PrunedBody(body) = body
CleanObject(x) == \A k \in DOMAIN x.pinned : Clean(x.pinned[k].body)
AllClean ==
  /\ \A o \in DOMAIN xhrs : CleanObject(xhrs[o])
  /\ \A i \in DOMAIN fetches :
       fetches[i].url \in ToPrune => Clean(fetches[i].body)

IInv == Typed /\ AllMarked /\ PreventedNeverSent /\ AllClean

-----------------------------------------------------------------------------
(* Bodies, answers and objects. *)

LEMMA BodyFacts ==
  /\ NoBody \in AnyBody /\ EmptyObject \in AnyBody /\ Bodies \subseteq AnyBody
  /\ \A b \in AnyBody : PrunedBody(b) \in AnyBody /\ Clean(PrunedBody(b))
  /\ Clean(NoBody) /\ Clean(EmptyObject)
  /\ NoAnswer \in Answers
<1>1. \A b \in Bodies : b.json \in BOOLEAN /\ b = [json |-> b.json, value |-> b.value]
  BY BodiesAssumption
<1>2. \A j \in BOOLEAN : \A v :
        PrunedBody([json |-> j, value |-> v]) = [json |-> j, value |-> IF j THEN Pruned(v) ELSE v]
  BY DEF PrunedBody
<1>3. \A b \in Bodies : PrunedBody(b) = [json |-> b.json, value |-> IF b.json THEN Pruned(b.value) ELSE b.value]
  BY <1>1, <1>2
<1>4. \A b \in Bodies : PrunedBody(PrunedBody(b)) = PrunedBody(b)
  BY <1>1, <1>2, <1>3, PrunedAssumption
<1>5. PrunedBody(NoBody) = NoBody
  BY <1>2 DEF NoBody
<1>6. PrunedBody(EmptyObject) = EmptyObject
  BY <1>2, PrunedAssumption DEF EmptyObject
<1>7. NoBody \in AnyBody /\ EmptyObject \in AnyBody /\ Bodies \subseteq AnyBody
  BY DEF AnyBody
<1>8. \A b \in AnyBody : PrunedBody(b) \in AnyBody /\ Clean(PrunedBody(b))
  BY <1>4, <1>5, <1>6 DEF AnyBody, Clean
<1>9. NoAnswer \in Answers
  BY <1>7 DEF NoAnswer, Answers, Addresses
<1>10. QED
  BY <1>5, <1>6, <1>7, <1>8, <1>9 DEF Clean
\* The fields that only the scriptlets see.
SameMarks(y, x) ==
  /\ y.prevent = x.prevent /\ y.shouldPrune = x.shouldPrune /\ y.openArgs = x.openArgs
SameAbove(y, x) == y.pinned = x.pinned /\ y.parent = x.parent

LEMMA NativeOpenFacts ==
  ASSUME NEW x \in XhrTypes, NEW u \in Addresses
  PROVE  /\ NativeOpen(x, u) \in XhrTypes /\ NativeOpen(x, u).url = u
         /\ SameMarks(NativeOpen(x, u), x) /\ SameAbove(NativeOpen(x, u), x)
         /\ NativeOpen(x, u).maySend = x.maySend
<1>1. NoAnswer \in Answers
  BY BodyFacts
<1>2. QED
  BY <1>1 DEF NativeOpen, XhrTypes, SameMarks, SameAbove

LEMMA PreventOpenFacts ==
  ASSUME NEW x \in XhrTypes, NEW u \in Addresses, badProps \in BOOLEAN
  PROVE  /\ PreventOpen(x, u) \in XhrTypes /\ PreventOpen(x, u).url = u
         /\ SameAbove(PreventOpen(x, u), x) /\ PreventOpen(x, u).maySend = x.maySend
         /\ PreventOpen(x, u).shouldPrune = x.shouldPrune /\ PreventOpen(x, u).openArgs = x.openArgs
         /\ ~badProps /\ (x.prevent \/ u \in Prevented) => PreventOpen(x, u).prevent
<1> DEFINE y == NativeOpen(x, u)
<1>1. /\ y \in XhrTypes /\ y.url = u /\ SameMarks(y, x) /\ SameAbove(y, x) /\ y.maySend = x.maySend
  BY NativeOpenFacts
<1> HIDE DEF y
<1>2. CASE badProps \/ (~x.prevent /\ u \notin Prevented)
  <2>1. PreventOpen(x, u) = y
    BY <1>2 DEF PreventOpen, y
  <2>2. ~(~badProps /\ (x.prevent \/ u \in Prevented))
    BY <1>2
  <2>3. QED
    BY <1>1, <2>1, <2>2 DEF SameMarks
<1>3. CASE ~(badProps \/ (~x.prevent /\ u \notin Prevented))
  <2> DEFINE z == [y EXCEPT !.prevent = TRUE]
             w == [z EXCEPT !.preventUrl = u]
  <2>1. PreventOpen(x, u) = [y EXCEPT !.prevent = TRUE, !.preventUrl = u]
    BY <1>3 DEF PreventOpen, y
  <2>2. [y EXCEPT !.prevent = TRUE, !.preventUrl = u] = w
    OBVIOUS
  <2>3. z \in XhrTypes /\ z.prevent
    BY <1>1 DEF XhrTypes
  <2>4. /\ z.url = y.url /\ z.pinned = y.pinned /\ z.parent = y.parent /\ z.maySend = y.maySend
        /\ z.shouldPrune = y.shouldPrune /\ z.openArgs = y.openArgs
    BY <1>1 DEF XhrTypes
  <2> HIDE DEF z
  <2>5. w \in XhrTypes /\ w.prevent = z.prevent
    BY <2>3 DEF XhrTypes
  <2>6. /\ w.url = z.url /\ w.pinned = z.pinned /\ w.parent = z.parent /\ w.maySend = z.maySend
        /\ w.shouldPrune = z.shouldPrune /\ w.openArgs = z.openArgs
    BY <2>3 DEF XhrTypes
  <2>7. PreventOpen(x, u) = w
    BY <2>1, <2>2
  <2> HIDE DEF w
  <2>8. w.prevent
    BY <2>3, <2>5
  <2>9. QED
    BY <1>1, <2>4, <2>5, <2>6, <2>7, <2>8 DEF SameMarks, SameAbove
<1>4. QED
  BY <1>2, <1>3

LEMMA PruneOpenFacts ==
  ASSUME NEW x \in XhrTypes, NEW u \in Urls
  PROVE  /\ PruneOpen(x, u) \in XhrTypes /\ SameAbove(PruneOpen(x, u), x)
         /\ PruneOpen(x, u).prevent = x.prevent
         /\ \/ PruneOpen(x, u).openArgs = u
            \/ /\ PruneOpen(x, u).shouldPrune = x.shouldPrune
               /\ PruneOpen(x, u).openArgs = x.openArgs
<1>1. CASE u \in ToPrune
  <2> DEFINE z == [x EXCEPT !.shouldPrune = TRUE]
             w == [z EXCEPT !.openArgs = u]
  <2>1. PruneOpen(x, u) = w
    BY <1>1 DEF PruneOpen
  <2>2. z \in XhrTypes /\ SameAbove(z, x) /\ z.prevent = x.prevent
    BY DEF XhrTypes, SameAbove
  <2> HIDE DEF z
  <2>3. w \in XhrTypes /\ SameAbove(w, z) /\ w.prevent = z.prevent /\ w.openArgs = u
    BY <2>2 DEF XhrTypes, SameAbove, Addresses
  <2> HIDE DEF w
  <2>4. QED
    BY <2>1, <2>2, <2>3 DEF SameAbove
<1>2. CASE u \notin ToPrune
  BY <1>2 DEF PruneOpen, SameAbove
<1>3. QED
  BY <1>1, <1>2
-----------------------------------------------------------------------------
(* Sequences. *)

LEMMA Replaced ==
  ASSUME NEW S, NEW s \in Seq(S), NEW i \in DOMAIN s, NEW e \in S
  PROVE  /\ [s EXCEPT ![i] = e] \in Seq(S)
         /\ DOMAIN [s EXCEPT ![i] = e] = DOMAIN s
         /\ [s EXCEPT ![i] = e][i] = e
         /\ \A q \in DOMAIN s : q # i => [s EXCEPT ![i] = e][q] = s[q]
<1>1. DOMAIN s = 1 .. Len(s)
  BY LenProperties
<1>2. QED
  BY <1>1, ExceptSeq

LEMMA Extended ==
  ASSUME NEW S, NEW s \in Seq(S), NEW e \in S
  PROVE  /\ Append(s, e) \in Seq(S) /\ Len(s) + 1 \in DOMAIN Append(s, e)
         /\ Append(s, e)[Len(s) + 1] = e
         /\ \A q \in DOMAIN s : q \in DOMAIN Append(s, e) /\ Append(s, e)[q] = s[q]
         /\ \A p \in DOMAIN Append(s, e) : p \in DOMAIN s \/ p = Len(s) + 1
<1>1. DOMAIN s = 1 .. Len(s) /\ Len(s) \in Nat
  BY LenProperties
<1>2. Append(s, e) \in Seq(S) /\ Len(Append(s, e)) = Len(s) + 1
  BY AppendProperties
<1>3. DOMAIN Append(s, e) = 1 .. Len(s) + 1
  BY <1>2, LenProperties
<1>4. QED
  BY <1>1, <1>2, <1>3, AppendProperties

LEMMA OneElement ==
  ASSUME NEW S, NEW e \in S
  PROVE  <<e>> \in Seq(S) /\ DOMAIN <<e>> = {1} /\ <<e>>[1] = e
OBVIOUS

-----------------------------------------------------------------------------
(* Opening and sending. *)

LEMMA OpenedFacts ==
  ASSUME NEW x \in XhrTypes, NEW u \in Urls, badProps \in BOOLEAN
  PROVE  /\ Opened(x, u) \in XhrTypes /\ SameAbove(Opened(x, u), x)
         /\ ~badProps /\ Marked(x) => Marked(Opened(x, u))
<1> DEFINE p == PruneOpen(x, u)
           y == PreventOpen(p, u)
           z == [y EXCEPT !.opens = y.opens + 1]
           w == [z EXCEPT !.maySend = TRUE]
<1>1. /\ p \in XhrTypes /\ SameAbove(p, x) /\ p.prevent = x.prevent
      /\ p.openArgs = u \/ (p.shouldPrune = x.shouldPrune /\ p.openArgs = x.openArgs)
  BY PruneOpenFacts
<1>2. u \in Addresses
  BY DEF Addresses
<1> HIDE DEF p
<1>3. /\ y \in XhrTypes /\ y.url = u /\ SameAbove(y, p)
      /\ y.shouldPrune = p.shouldPrune /\ y.openArgs = p.openArgs
      /\ ~badProps /\ (p.prevent \/ u \in Prevented) => y.prevent
  BY <1>1, <1>2, PreventOpenFacts
<1>4. Opened(x, u) = [y EXCEPT !.opens = @ + 1, !.maySend = TRUE]
  BY DEF Opened, p
<1> HIDE DEF y
<1>5. [y EXCEPT !.opens = @ + 1, !.maySend = TRUE] = w
  OBVIOUS
<1>6. z \in XhrTypes /\ z.url = y.url /\ SameMarks(z, y) /\ SameAbove(z, y)
  BY <1>3 DEF XhrTypes, SameMarks, SameAbove
<1> HIDE DEF z
<1>7. w \in XhrTypes /\ w.url = z.url /\ SameMarks(w, z) /\ SameAbove(w, z)
  BY <1>6 DEF XhrTypes, SameMarks, SameAbove
<1>8. Opened(x, u) = w
  BY <1>4, <1>5
<1> HIDE DEF w
<1>9. SameAbove(w, x)
  BY <1>1, <1>3, <1>6, <1>7 DEF SameAbove
<1>10. ASSUME ~badProps, Marked(x)
       PROVE  Marked(w)
  <2>1. w.url = u /\ w.prevent = y.prevent /\ w.shouldPrune = p.shouldPrune /\ w.openArgs = p.openArgs
    BY <1>3, <1>6, <1>7 DEF SameMarks
  <2>2. u \in Prevented => w.prevent
    BY <1>3, <1>10, <2>1
  <2>3. x.prevent => w.prevent
    BY <1>1, <1>3, <1>10, <2>1
  <2>4. w.shouldPrune /\ w.openArgs \in Prevented => w.prevent
    BY <1>1, <1>10, <2>1, <2>2, <2>3 DEF Marked
  <2>5. QED
    BY <2>1, <2>2, <2>4 DEF Marked
<1>11. QED
  BY <1>7, <1>8, <1>9, <1>10

\* The same object, whatever the browser knows of it.
Kin(y, x) ==
  /\ y.url = x.url /\ SameMarks(y, x) /\ SameAbove(y, x) /\ y.maySend = x.maySend

LEMMA KinFacts ==
  ASSUME NEW x, NEW y, Kin(y, x)
  PROVE  /\ Marked(x) => Marked(y)
         /\ CleanObject(x) => CleanObject(y)
BY DEF Kin, SameMarks, SameAbove, Marked, CleanObject

LEMMA FieldFacts ==
  ASSUME NEW x \in XhrTypes
  PROVE  /\ \A s \in {"unsent", "opened", "sent", "done"} :
              [x EXCEPT !.state = s] \in XhrTypes /\ Kin([x EXCEPT !.state = s], x)
         /\ \A a \in Answers :
              [x EXCEPT !.native = a] \in XhrTypes /\ Kin([x EXCEPT !.native = a], x)
         /\ [x EXCEPT !.native = x.native] = x
BY DEF XhrTypes, Kin, SameMarks, SameAbove

\* What becomes of the objects X, the tasks T and the addresses W when the
\* object o sends.
Sent(r, X, T, W, o) ==
  /\ r.xhrs \in Seq(XhrTypes) /\ DOMAIN r.xhrs = DOMAIN X
  /\ \A i \in DOMAIN X : Kin(r.xhrs[i], X[i])
  /\ \A t \in r.tasks : t \in T \/ t.for = o
  /\ ~badProps => \A u \in r.wire : u \in W \/ u \notin Prevented

LEMMA NativeSendFacts ==
  ASSUME NEW X \in Seq(XhrTypes), NEW T, NEW W, NEW o \in DOMAIN X,
         ~badProps => X[o].url \notin Prevented
  PROVE  Sent(NativeSend([xhrs |-> X, tasks |-> T, wire |-> W], o), X, T, W, o)
<1> DEFINE s == [xhrs |-> X, tasks |-> T, wire |-> W]
           y == [X[o] EXCEPT !.state = "sent"]
           r == NativeSend(s, o)
<1>1. X[o] \in XhrTypes
  BY LenProperties, ElementOfSeq
<1>2. y \in XhrTypes /\ Kin(y, X[o])
  BY <1>1, FieldFacts
<1>3. /\ r.xhrs = [X EXCEPT ![o] = y] /\ r.tasks = T \union {Task("answer", o)}
      /\ r.wire = W \union {X[o].url}
  BY DEF NativeSend
<1> HIDE DEF y, r
<1>4. /\ [X EXCEPT ![o] = y] \in Seq(XhrTypes) /\ DOMAIN [X EXCEPT ![o] = y] = DOMAIN X
      /\ [X EXCEPT ![o] = y][o] = y
      /\ \A i \in DOMAIN X : i # o => [X EXCEPT ![o] = y][i] = X[i]
  BY <1>2, Replaced
<1>5. \A i \in DOMAIN X : Kin(r.xhrs[i], X[i])
  BY <1>2, <1>3, <1>4 DEF Kin, SameMarks, SameAbove
<1>6. Task("answer", o).for = o
  BY DEF Task
<1>7. Sent(r, X, T, W, o)
  BY <1>3, <1>4, <1>5, <1>6 DEF Sent
<1>8. QED
  BY <1>7 DEF r

LEMMA PreventSendFacts ==
  ASSUME NEW X \in Seq(XhrTypes), NEW T, NEW W, NEW o \in DOMAIN X,
         ~badProps /\ X[o].url \in Prevented => X[o].prevent
  PROVE  Sent(PreventSend([xhrs |-> X, tasks |-> T, wire |-> W], o), X, T, W, o)
<1> DEFINE s == [xhrs |-> X, tasks |-> T, wire |-> W]
           r == [s EXCEPT !.tasks = @ \union {Task("pretend", o)}]
<1>1. CASE X[o].prevent
  <2>1. PreventSend(s, o) = r
    BY <1>1 DEF PreventSend
  <2>2. r.xhrs = X /\ r.wire = W /\ r.tasks = T \union {Task("pretend", o)}
    OBVIOUS
  <2>3. Task("pretend", o).for = o
    BY DEF Task
  <2> HIDE DEF r
  <2>4. Sent(r, X, T, W, o)
    BY <2>2, <2>3 DEF Sent, Kin, SameMarks, SameAbove
  <2>5. QED
    BY <2>1, <2>4
<1>2. CASE ~X[o].prevent
  <2>1. PreventSend(s, o) = NativeSend(s, o)
    BY <1>2 DEF PreventSend
  <2>2. ~badProps => X[o].url \notin Prevented
    BY <1>2
  <2>3. QED
    BY <2>1, <2>2, NativeSendFacts
<1>3. QED
  BY <1>1, <1>2

LEMMA SendBelowFacts ==
  ASSUME NEW X \in Seq(XhrTypes), NEW T, NEW W, NEW o \in DOMAIN X,
         ~badProps /\ X[o].url \in Prevented => X[o].prevent /\ pruneOuter
  PROVE  Sent(SendBelow([xhrs |-> X, tasks |-> T, wire |-> W], o), X, T, W, o)
<1>1. CASE pruneOuter
  BY <1>1, PreventSendFacts DEF SendBelow
<1>2. CASE ~pruneOuter
  BY <1>2, NativeSendFacts DEF SendBelow
<1>3. QED
  BY <1>1, <1>2
\* The substitute of json-prune for the object o, opened for u.
Sub(u, o) == [OpenBelow(Fresh, u) EXCEPT !.parent = o]

LEMMA SubFacts ==
  ASSUME NEW u \in Addresses, NEW o \in Nat, badProps \in BOOLEAN
  PROVE  /\ Sub(u, o) \in XhrTypes /\ Sub(u, o).url = u /\ Sub(u, o).parent = o
         /\ CleanObject(Sub(u, o)) /\ Marked(Sub(u, o))
         /\ ~badProps /\ u \in Prevented /\ pruneOuter => Sub(u, o).prevent
<1> DEFINE y == OpenBelow(Fresh, u)
           z == [y EXCEPT !.parent = o]
<1>1. Fresh \in XhrTypes
  <2>1. <<>> \in Seq(Answers) /\ NoAnswer \in Answers /\ "" \in Addresses
    BY BodyFacts, EmptySeq DEF Addresses
  <2>2. QED
    BY <2>1 DEF Fresh, XhrTypes
<1>2. Fresh.pinned = <<>> /\ ~Fresh.maySend /\ ~Fresh.shouldPrune
  BY DEF Fresh
<1>3. /\ y \in XhrTypes /\ y.url = u /\ SameAbove(y, Fresh)
      /\ y.shouldPrune = Fresh.shouldPrune /\ y.maySend = Fresh.maySend
  <2>1. CASE pruneOuter
    BY <1>1, <2>1, PreventOpenFacts DEF OpenBelow
  <2>2. CASE ~pruneOuter
    BY <1>1, <2>2, NativeOpenFacts DEF OpenBelow, SameMarks
  <2>3. QED
    BY <2>1, <2>2
<1>4. ASSUME ~badProps, u \in Prevented, pruneOuter
      PROVE  y.prevent
  BY <1>1, <1>4, PreventOpenFacts DEF OpenBelow
<1> HIDE DEF y
<1>5. z \in XhrTypes /\ z.parent = o /\ z.url = y.url /\ z.pinned = y.pinned
  BY <1>3 DEF XhrTypes
<1>6. z.prevent = y.prevent /\ z.shouldPrune = y.shouldPrune /\ z.maySend = y.maySend
  BY <1>3 DEF XhrTypes
<1>7. Sub(u, o) = z
  BY DEF Sub, y
<1> HIDE DEF z
<1>8. ~z.shouldPrune /\ ~z.maySend
  BY <1>2, <1>3, <1>6
<1>9. Marked(z)
  BY <1>8 DEF Marked
<1>10. CleanObject(z)
  <2>1. DOMAIN z.pinned = {}
    BY <1>2, <1>3, <1>5, EmptySeq DEF SameAbove
  <2>2. QED
    BY <2>1 DEF CleanObject
<1>11. ~badProps /\ u \in Prevented /\ pruneOuter => z.prevent
  BY <1>4, <1>6
<1>12. QED
  BY <1>3, <1>5, <1>7, <1>9, <1>10, <1>11

-----------------------------------------------------------------------------
(* The steps. *)

\* What keeps the invariant while no fetch is made or answered.
LEMMA Preserved ==
  ASSUME IInv, UNCHANGED <<pruneOuter, badProps, fetches>>,
         xhrs' \in Seq(XhrTypes), DOMAIN xhrs \subseteq DOMAIN xhrs',
         \A o \in DOMAIN xhrs' :
           /\ xhrs'[o].parent = 0 \/ xhrs'[o].parent \in Mine
           /\ ~badProps => Marked(xhrs'[o])
           /\ CleanObject(xhrs'[o]),
         \A t \in tasks' : t \in tasks \/ t.for \in DOMAIN xhrs',
         ~badProps => \A u \in wire' : u \in wire \/ u \notin Prevented
  PROVE  IInv'
<1>1. Typed'
  BY DEF IInv, Typed
<1>2. AllMarked'
  BY DEF AllMarked
<1>3. PreventedNeverSent'
  BY DEF IInv, PreventedNeverSent
<1>4. AllClean'
  BY DEF IInv, AllClean
<1>5. QED
  BY <1>1, <1>2, <1>3, <1>4 DEF IInv

\* Of an object when the invariant holds.
LEMMA ObjectFacts ==
  ASSUME IInv, NEW o \in DOMAIN xhrs
  PROVE  /\ xhrs[o] \in XhrTypes
         /\ xhrs[o].parent = 0 \/ xhrs[o].parent \in Mine
         /\ ~badProps => Marked(xhrs[o])
         /\ CleanObject(xhrs[o])
<1>1. xhrs[o] \in XhrTypes
  <2>1. xhrs \in Seq(XhrTypes)
    BY DEF IInv, Typed
  <2>2. QED
    BY <2>1, LenProperties, ElementOfSeq
<1>2. QED
  BY <1>1 DEF IInv, Typed, AllMarked, AllClean

LEMMA OpenStep ==
  ASSUME IInv, NEW o \in Mine, NEW u \in Urls, Open(o, u)
  PROVE  IInv'
<1> DEFINE y == Opened(xhrs[o], u)
<1>1. /\ o \in DOMAIN xhrs /\ xhrs \in Seq(XhrTypes) /\ badProps \in BOOLEAN
      /\ xhrs[o] \in XhrTypes
  BY ObjectFacts DEF IInv, Typed
<1>2. /\ y \in XhrTypes /\ SameAbove(y, xhrs[o])
      /\ ~badProps /\ Marked(xhrs[o]) => Marked(y)
  BY <1>1, OpenedFacts
<1>3. tasks' \subseteq tasks /\ UNCHANGED <<pruneOuter, badProps, fetches, wire>>
  BY DEF Open
<1>8. xhrs' = [xhrs EXCEPT ![o] = y]
  BY DEF Open
<1> HIDE DEF y
<1>4. /\ xhrs' \in Seq(XhrTypes) /\ DOMAIN xhrs' = DOMAIN xhrs /\ xhrs'[o] = y
      /\ \A i \in DOMAIN xhrs : i # o => xhrs'[i] = xhrs[i]
  BY <1>1, <1>2, <1>8, Replaced
<1>5. /\ y.parent = 0 \/ y.parent \in Mine
      /\ ~badProps => Marked(y)
      /\ CleanObject(y)
  BY <1>1, <1>2, ObjectFacts DEF SameAbove, CleanObject
<1>6. \A i \in DOMAIN xhrs' :
        /\ xhrs'[i].parent = 0 \/ xhrs'[i].parent \in Mine
        /\ ~badProps => Marked(xhrs'[i])
        /\ CleanObject(xhrs'[i])
  BY <1>4, <1>5, ObjectFacts
<1>7. QED
  BY <1>3, <1>4, <1>6, Preserved

\* An object has sent: X are the objects it was sent among.
LEMMA SentStep ==
  ASSUME IInv, NEW X \in Seq(XhrTypes), NEW r, NEW i \in DOMAIN X, Sent(r, X, tasks, wire, i),
         DOMAIN xhrs \subseteq DOMAIN X,
         \A k \in DOMAIN X :
           /\ X[k].parent = 0 \/ X[k].parent \in Mine
           /\ ~badProps => Marked(X[k])
           /\ CleanObject(X[k]),
         xhrs' = r.xhrs, tasks' = r.tasks, wire' = r.wire,
         UNCHANGED <<pruneOuter, badProps, fetches>>
  PROVE  IInv'
<1>1. /\ xhrs' \in Seq(XhrTypes) /\ DOMAIN xhrs' = DOMAIN X
      /\ \A k \in DOMAIN X : Kin(xhrs'[k], X[k])
      /\ \A t \in tasks' : t \in tasks \/ t.for = i
      /\ ~badProps => \A u \in wire' : u \in wire \/ u \notin Prevented
  BY DEF Sent
<1>2. \A k \in DOMAIN xhrs' :
        /\ xhrs'[k].parent = 0 \/ xhrs'[k].parent \in Mine
        /\ ~badProps => Marked(xhrs'[k])
        /\ CleanObject(xhrs'[k])
  BY <1>1, KinFacts DEF Kin, SameAbove
<1>3. QED
  BY <1>1, <1>2, Preserved

LEMMA SendStep ==
  ASSUME IInv, NEW o \in Mine, NEW throws \in BOOLEAN, Send(o, throws)
  PROVE  IInv'
<1> DEFINE x == xhrs[o]
           y == [x EXCEPT !.maySend = FALSE]
           X == [xhrs EXCEPT ![o] = y]
           now == [xhrs |-> X, tasks |-> tasks, wire |-> wire]
<1>1. /\ o \in DOMAIN xhrs /\ xhrs \in Seq(XhrTypes) /\ badProps \in BOOLEAN
      /\ x \in XhrTypes /\ o \in Nat
  BY ObjectFacts DEF IInv, Typed, Mine
<1>2. x.maySend /\ UNCHANGED <<pruneOuter, badProps, fetches>>
  BY DEF Send
<1>3. ~badProps => /\ x.url \in Prevented => x.prevent
                   /\ x.shouldPrune /\ x.openArgs \in Prevented => x.prevent
  BY <1>1, <1>2, ObjectFacts DEF Marked
<1>4. /\ y \in XhrTypes /\ y.url = x.url /\ SameMarks(y, x) /\ SameAbove(y, x)
      /\ y.shouldPrune = x.shouldPrune /\ y.openArgs = x.openArgs
  BY <1>1 DEF XhrTypes, SameMarks, SameAbove
<1>5. ~y.maySend
  BY <1>1 DEF XhrTypes
<1>6. xhrs' = (IF ~pruneOuter /\ x.prevent THEN PreventSend(now, o) ELSE PruneSend(now, o, throws)).xhrs
  BY DEF Send
<1>7. tasks' = (IF ~pruneOuter /\ x.prevent THEN PreventSend(now, o) ELSE PruneSend(now, o, throws)).tasks
  BY DEF Send
<1>8. wire' = (IF ~pruneOuter /\ x.prevent THEN PreventSend(now, o) ELSE PruneSend(now, o, throws)).wire
  BY DEF Send
<1> HIDE DEF x, y
<1>9. /\ X \in Seq(XhrTypes) /\ DOMAIN X = DOMAIN xhrs /\ X[o] = y
      /\ \A i \in DOMAIN xhrs : i # o => X[i] = xhrs[i]
  BY <1>1, <1>4, Replaced
<1>10. now.xhrs = X /\ now.tasks = tasks /\ now.wire = wire
  OBVIOUS
<1>11. \A k \in DOMAIN X :
         /\ X[k].parent = 0 \/ X[k].parent \in Mine
         /\ ~badProps => Marked(X[k])
         /\ CleanObject(X[k])
  <2>1. /\ x.parent = 0 \/ x.parent \in Mine
        /\ ~badProps => Marked(x)
        /\ CleanObject(x)
    BY <1>1, ObjectFacts DEF x
  <2>2. ~badProps => Marked(y)
    BY <1>4, <2>1, <1>5 DEF Marked, SameMarks
  <2>3. (y.parent = 0 \/ y.parent \in Mine) /\ CleanObject(y)
    BY <1>4, <2>1 DEF SameAbove, CleanObject
  <2>4. QED
    BY <1>9, <2>2, <2>3, ObjectFacts
<1> HIDE DEF X
<1>12. CASE ~pruneOuter /\ x.prevent
  <2>1. X[o].prevent
    BY <1>4, <1>9, <1>12 DEF SameMarks
  <2>2. Sent(PreventSend(now, o), X, tasks, wire, o)
    BY <1>1, <1>9, <2>1, PreventSendFacts
  <2> HIDE DEF now
  <2>3. QED
    BY <1>1, <1>2, <1>6, <1>7, <1>8, <1>9, <1>11, <1>12, <2>2, SentStep
<1>13. CASE ~(~pruneOuter /\ x.prevent) /\ (~y.shouldPrune \/ throws)
  <2>1. PruneSend(now, o, throws) = SendBelow(now, o)
    BY <1>9, <1>10, <1>13 DEF PruneSend
  <2>2. ~badProps /\ X[o].url \in Prevented => X[o].prevent /\ pruneOuter
    BY <1>3, <1>4, <1>9, <1>13 DEF SameMarks
  <2>3. Sent(SendBelow(now, o), X, tasks, wire, o)
    BY <1>1, <1>9, <2>2, SendBelowFacts
  <2> HIDE DEF now
  <2>4. QED
    BY <1>1, <1>2, <1>6, <1>7, <1>8, <1>9, <1>11, <1>13, <2>1, <2>3, SentStep
<1>14. CASE ~(~pruneOuter /\ x.prevent) /\ y.shouldPrune /\ ~throws
  <2> DEFINE u == y.openArgs
             XX == Append(X, Sub(u, o))
             i == Len(X) + 1
             then == [xhrs |-> XX, tasks |-> tasks, wire |-> wire]
  <2>1. PruneSend(now, o, throws) = SendBelow(then, i)
    <3>1. PruneSend(now, o, throws) = Substitute(now, o)
      BY <1>9, <1>10, <1>14 DEF PruneSend
    <3>2. Substitute(now, o) = SendBelow([now EXCEPT !.xhrs = Append(X, Sub(u, o))], i)
      BY <1>9, <1>10 DEF Substitute, Sub
    <3>3. [now EXCEPT !.xhrs = Append(X, Sub(u, o))] = then
      OBVIOUS
    <3>4. QED
      BY <3>1, <3>2, <3>3
  <2>2. /\ Sub(u, o) \in XhrTypes /\ Sub(u, o).url = u /\ Sub(u, o).parent = o
        /\ CleanObject(Sub(u, o)) /\ Marked(Sub(u, o))
        /\ ~badProps /\ u \in Prevented /\ pruneOuter => Sub(u, o).prevent
    <3>1. u \in Addresses
      BY <1>4 DEF XhrTypes
    <3>2. QED
      BY <1>1, <3>1, SubFacts
  <2>3. /\ XX \in Seq(XhrTypes) /\ i \in DOMAIN XX /\ XX[i] = Sub(u, o)
        /\ \A q \in DOMAIN X : q \in DOMAIN XX /\ XX[q] = X[q]
        /\ \A p \in DOMAIN XX : p \in DOMAIN X \/ p = i
    BY <1>9, <2>2, Extended
  <2>4. ~badProps /\ u \in Prevented => pruneOuter
    BY <1>3, <1>4, <1>14
  <2>5. ~badProps /\ XX[i].url \in Prevented => XX[i].prevent /\ pruneOuter
    BY <2>2, <2>3, <2>4
  <2> HIDE DEF XX, i, now
  <2>6. Sent(SendBelow(then, i), XX, tasks, wire, i)
    BY <2>3, <2>5, SendBelowFacts
  <2>7. \A k \in DOMAIN XX :
          /\ XX[k].parent = 0 \/ XX[k].parent \in Mine
          /\ ~badProps => Marked(XX[k])
          /\ CleanObject(XX[k])
    BY <1>11, <2>2, <2>3
  <2>8. DOMAIN xhrs \subseteq DOMAIN XX
    BY <1>9, <2>3
  <2> HIDE DEF then
  <2>9. QED
    BY <1>2, <1>6, <1>7, <1>8, <1>14, <2>1, <2>3, <2>6, <2>7, <2>8, SentStep
<1>15. QED
  BY <1>12, <1>13, <1>14
LEMMA AbortStep ==
  ASSUME IInv, NEW o \in Mine, Abort(o)
  PROVE  IInv'
<1> DEFINE y == [xhrs[o] EXCEPT !.state = "unsent"]
<1>1. o \in DOMAIN xhrs /\ xhrs \in Seq(XhrTypes) /\ xhrs[o] \in XhrTypes
  BY ObjectFacts DEF IInv, Typed
<1>2. y \in XhrTypes /\ Kin(y, xhrs[o])
  BY <1>1, FieldFacts
<1>3. tasks' \subseteq tasks /\ UNCHANGED <<pruneOuter, badProps, fetches, wire>>
  BY DEF Abort
<1>4. xhrs' = [xhrs EXCEPT ![o] = y]
  BY DEF Abort
<1> HIDE DEF y
<1>5. /\ xhrs' \in Seq(XhrTypes) /\ DOMAIN xhrs' = DOMAIN xhrs /\ xhrs'[o] = y
      /\ \A i \in DOMAIN xhrs : i # o => xhrs'[i] = xhrs[i]
  BY <1>1, <1>2, <1>4, Replaced
<1>6. \A i \in DOMAIN xhrs' :
        /\ xhrs'[i].parent = 0 \/ xhrs'[i].parent \in Mine
        /\ ~badProps => Marked(xhrs'[i])
        /\ CleanObject(xhrs'[i])
  BY <1>1, <1>2, <1>5, ObjectFacts, KinFacts DEF Kin, SameAbove
<1>7. QED
  BY <1>3, <1>5, <1>6, Preserved

\* An answer takes the place of an object's own.
LEMMA PinFacts ==
  ASSUME NEW x \in XhrTypes, NEW a \in Answers, Clean(a.body)
  PROVE  /\ [x EXCEPT !.pinned = <<a>>] \in XhrTypes
         /\ [x EXCEPT !.pinned = <<a>>].parent = x.parent
         /\ Marked(x) => Marked([x EXCEPT !.pinned = <<a>>])
         /\ CleanObject([x EXCEPT !.pinned = <<a>>])
<1> DEFINE y == [x EXCEPT !.pinned = <<a>>]
<1>1. <<a>> \in Seq(Answers) /\ DOMAIN <<a>> = {1} /\ <<a>>[1] = a
  BY OneElement
<1>2. /\ y \in XhrTypes /\ y.parent = x.parent /\ y.pinned = <<a>> /\ y.url = x.url
      /\ SameMarks(y, x) /\ y.maySend = x.maySend
  BY <1>1 DEF XhrTypes, SameMarks
<1> HIDE DEF y
<1>3. Marked(x) => Marked(y)
  BY <1>2 DEF Marked, SameMarks
<1>4. CleanObject(y)
  BY <1>1, <1>2 DEF CleanObject
<1>5. QED
  BY <1>2, <1>3, <1>4 DEF y

LEMMA CaptureFacts ==
  ASSUME NEW x \in XhrTypes
  PROVE  Capture(x) \in Answers /\ Clean(Capture(x).body)
<1> DEFINE a == Seen(x)
<1>1. a \in Answers
  <2>1. x.pinned \in Seq(Answers) /\ x.native \in Answers
    BY DEF XhrTypes
  <2>2. x.pinned # <<>> => x.pinned[1] \in Answers
    BY <2>1
  <2>3. QED
    BY <2>1, <2>2 DEF Seen
<1>2. Capture(x) = [a EXCEPT !.body = PrunedBody(a.body)]
  BY DEF Capture
<1> HIDE DEF a
<1>3. a.body \in AnyBody
  BY <1>1 DEF Answers
<1>4. PrunedBody(a.body) \in AnyBody /\ Clean(PrunedBody(a.body))
  BY <1>3, BodyFacts
<1>5. [a EXCEPT !.body = PrunedBody(a.body)] \in Answers
  BY <1>1, <1>4 DEF Answers
<1>6. [a EXCEPT !.body = PrunedBody(a.body)].body = PrunedBody(a.body)
  BY <1>1 DEF Answers
<1>7. QED
  BY <1>2, <1>4, <1>5, <1>6

LEMMA DoneStep ==
  ASSUME IInv, NEW objs \in Seq(XhrTypes), NEW rest, NEW o \in DOMAIN objs, Done(objs, rest, o),
         rest \subseteq tasks, DOMAIN objs = DOMAIN xhrs,
         \A i \in DOMAIN objs :
           /\ objs[i].parent = 0 \/ objs[i].parent \in Mine
           /\ ~badProps => Marked(objs[i])
           /\ CleanObject(objs[i]),
         UNCHANGED <<pruneOuter, badProps, fetches, wire>>
  PROVE  IInv'
<1> DEFINE p == objs[o].parent
           answer == Capture(objs[o])
           y == [objs[p] EXCEPT !.pinned = <<answer>>]
<1>1. objs[o] \in XhrTypes /\ Mine \subseteq DOMAIN xhrs
  BY LenProperties, ElementOfSeq DEF IInv, Typed
<1>2. CASE xhrs' = objs /\ tasks' = rest
  BY <1>2, Preserved
<1>3. CASE /\ p # 0 /\ xhrs' = [objs EXCEPT ![p].pinned = <<answer>>]
           /\ tasks' = rest \union {[Task("events", p) EXCEPT !.turn = o]}
  <2>1. p \in DOMAIN xhrs /\ p \in DOMAIN objs
    BY <1>1, <1>3
  <2>2. objs[p] \in XhrTypes
    BY <2>1, LenProperties, ElementOfSeq
  <2>3. answer \in Answers /\ Clean(answer.body)
    BY <1>1, CaptureFacts
  <2> HIDE DEF answer, p
  <2>4. /\ y \in XhrTypes /\ y.parent = objs[p].parent
        /\ Marked(objs[p]) => Marked(y)
        /\ CleanObject(y)
    BY <2>2, <2>3, PinFacts
  <2>5. xhrs' = [objs EXCEPT ![p] = y]
    BY <1>3
  <2> HIDE DEF y
  <2>6. /\ xhrs' \in Seq(XhrTypes) /\ DOMAIN xhrs' = DOMAIN objs /\ xhrs'[p] = y
        /\ \A i \in DOMAIN objs : i # p => xhrs'[i] = objs[i]
    BY <2>1, <2>4, <2>5, Replaced
  <2>7. \A i \in DOMAIN xhrs' :
          /\ xhrs'[i].parent = 0 \/ xhrs'[i].parent \in Mine
          /\ ~badProps => Marked(xhrs'[i])
          /\ CleanObject(xhrs'[i])
    BY <2>1, <2>4, <2>6
  <2>8. [Task("events", p) EXCEPT !.turn = o].for = p
    BY DEF Task
  <2>9. QED
    BY <1>3, <2>1, <2>6, <2>7, <2>8, Preserved
<1>4. QED
  BY <1>2, <1>3 DEF Done

LEMMA TaskStep ==
  ASSUME IInv, RunTask
  PROVE  IInv'
<1>1. PICK t \in tasks : Pretend(t) \/ Answer(t) \/ Events(t)
  BY DEF RunTask
<1> DEFINE o == t.for
<1>2. /\ o \in DOMAIN xhrs /\ xhrs \in Seq(XhrTypes) /\ xhrs[o] \in XhrTypes
      /\ UNCHANGED <<pruneOuter, badProps, fetches, wire>>
  <2>1. o \in DOMAIN xhrs /\ xhrs \in Seq(XhrTypes)
    BY DEF IInv, Typed
  <2>2. QED
    BY <2>1, ObjectFacts DEF RunTask
<1>3. CASE UNCHANGED xhrs /\ tasks' = tasks \ {t}
  BY <1>2, <1>3, ObjectFacts, Preserved
\* y is what the object has become.
<1>4. ASSUME NEW y \in XhrTypes, y.parent = xhrs[o].parent, Marked(xhrs[o]) => Marked(y),
             CleanObject(y), Done([xhrs EXCEPT ![o] = y], tasks \ {t}, o)
      PROVE  IInv'
  <2> DEFINE objs == [xhrs EXCEPT ![o] = y]
  <2>1. /\ objs \in Seq(XhrTypes) /\ DOMAIN objs = DOMAIN xhrs /\ objs[o] = y
        /\ \A i \in DOMAIN xhrs : i # o => objs[i] = xhrs[i]
    BY <1>2, <1>4, Replaced
  <2>2. Done(objs, tasks \ {t}, o)
    BY <1>4
  <2> HIDE DEF objs
  <2>3. \A i \in DOMAIN objs :
          /\ objs[i].parent = 0 \/ objs[i].parent \in Mine
          /\ ~badProps => Marked(objs[i])
          /\ CleanObject(objs[i])
    BY <1>2, <1>4, <2>1, ObjectFacts
  <2>4. QED
    BY <1>2, <2>1, <2>2, <2>3, DoneStep
<1>5. CASE Pretend(t)
  <2> DEFINE fk == [url |-> xhrs[o].preventUrl, status |-> 200, body |-> NoBody]
             y == [xhrs[o] EXCEPT !.pinned = <<fk>>]
  <2>1. fk \in Answers /\ Clean(fk.body)
    BY <1>2, BodyFacts DEF Answers, XhrTypes
  <2>2. \/ Done([xhrs EXCEPT ![o].pinned = <<fk>>], tasks \ {t}, o)
        \/ UNCHANGED xhrs /\ tasks' = tasks \ {t}
    BY <1>5 DEF Pretend
  <2> HIDE DEF fk
  <2>3. /\ y \in XhrTypes /\ y.parent = xhrs[o].parent
        /\ Marked(xhrs[o]) => Marked(y)
        /\ CleanObject(y)
    BY <1>2, <2>1, PinFacts
  <2>4. [xhrs EXCEPT ![o].pinned = <<fk>>] = [xhrs EXCEPT ![o] = y]
    OBVIOUS
  <2> HIDE DEF y
  <2>5. QED
    BY <1>3, <1>4, <2>2, <2>3, <2>4
<1>6. CASE Answer(t)
  <2>1. PICK answer \in {[url |-> xhrs[o].url, status |-> 200, body |-> b] : b \in Bodies} \union {NoAnswer} :
          Done([xhrs EXCEPT ![o].state = "done", ![o].native = answer], tasks \ {t}, o)
    BY <1>6 DEF Answer
  <2>2. answer \in Answers
    BY <1>2, BodyFacts DEF Answers, XhrTypes
  <2> DEFINE z == [xhrs[o] EXCEPT !.state = "done"]
             y == [z EXCEPT !.native = answer]
  <2>3. z \in XhrTypes /\ Kin(z, xhrs[o])
    BY <1>2, FieldFacts
  <2>4. [xhrs EXCEPT ![o].state = "done", ![o].native = answer] = [xhrs EXCEPT ![o] = y]
    <3>1. [xhrs EXCEPT ![o].state = "done"] = [xhrs EXCEPT ![o] = z]
      OBVIOUS
    <3>2. [xhrs EXCEPT ![o].state = "done", ![o].native = answer]
          = [[xhrs EXCEPT ![o] = z] EXCEPT ![o].native = answer]
      OBVIOUS
    <3>3. [xhrs EXCEPT ![o] = z][o] = z
      BY <1>2
    <3> HIDE DEF z
    <3>4. [[xhrs EXCEPT ![o] = z] EXCEPT ![o].native = answer] = [xhrs EXCEPT ![o] = y]
      BY <1>2, <3>3
    <3>5. QED
      BY <3>2, <3>4 DEF z
  <2> HIDE DEF z
  <2>5. y \in XhrTypes /\ Kin(y, z)
    BY <2>2, <2>3, FieldFacts
  <2> HIDE DEF y
  <2>6. /\ y.parent = xhrs[o].parent
        /\ Marked(xhrs[o]) => Marked(y)
        /\ CleanObject(y)
    BY <1>2, <2>3, <2>5, ObjectFacts, KinFacts DEF Kin, SameAbove
  <2>7. QED
    BY <1>4, <2>1, <2>4, <2>5, <2>6
<1>7. CASE Events(t)
  BY <1>3, <1>7 DEF Events
<1>8. QED
  BY <1>1, <1>5, <1>6, <1>7
\* The calls of fetch keep the invariant when theirs do.
LEMMA FetchesPreserved ==
  ASSUME IInv, UNCHANGED <<pruneOuter, badProps, xhrs, tasks>>,
         fetches' \in Seq(Fetches),
         \A i \in DOMAIN fetches' : fetches'[i].url \in ToPrune => Clean(fetches'[i].body),
         ~badProps => \A u \in wire' : u \in wire \/ u \notin Prevented
  PROVE  IInv'
<1>1. Typed'
  BY DEF IInv, Typed
<1>2. AllMarked'
  BY DEF IInv, AllMarked
<1>3. PreventedNeverSent'
  BY DEF IInv, PreventedNeverSent
<1>4. AllClean'
  BY DEF IInv, AllClean
<1>5. QED
  BY <1>1, <1>2, <1>3, <1>4 DEF IInv

LEMMA FetchStep ==
  ASSUME IInv, NEW u \in Urls, Fetch(u)
  PROVE  IInv'
<1>1. PICK call \in Fetches :
        /\ fetches' = Append(fetches, call)
        /\ Clean(call.body)
  <2>1. /\ Call(u, "rejected", NoBody) \in Fetches /\ Call(u, "rejected", NoBody).body = NoBody
        /\ Call(u, "resolved", EmptyObject) \in Fetches /\ Call(u, "resolved", EmptyObject).body = EmptyObject
        /\ Call(u, "pending", NoBody) \in Fetches /\ Call(u, "pending", NoBody).body = NoBody
    BY BodyFacts DEF Call, Fetches
  <2>2. \E call \in {Call(u, "rejected", NoBody), Call(u, "resolved", EmptyObject), Call(u, "pending", NoBody)} :
          fetches' = Append(fetches, call)
    BY DEF Fetch
  <2>3. QED
    BY <2>1, <2>2, BodyFacts
<1>2. fetches \in Seq(Fetches) /\ \A i \in DOMAIN fetches : fetches[i].url \in ToPrune => Clean(fetches[i].body)
  BY DEF IInv, Typed, AllClean, Fetches
<1>3. /\ fetches' \in Seq(Fetches)
      /\ \A i \in DOMAIN fetches' : fetches'[i].url \in ToPrune => Clean(fetches'[i].body)
  <2>1. /\ fetches' \in Seq(Fetches) /\ fetches'[Len(fetches) + 1] = call
        /\ \A q \in DOMAIN fetches : fetches'[q] = fetches[q]
        /\ \A p \in DOMAIN fetches' : p \in DOMAIN fetches \/ p = Len(fetches) + 1
    BY <1>1, <1>2, Extended
  <2>2. QED
    BY <1>1, <1>2, <2>1
<1>4. UNCHANGED <<pruneOuter, badProps, xhrs, tasks>>
  BY DEF Fetch
<1>5. ~badProps => \A a \in wire' : a \in wire \/ a \notin Prevented
  BY DEF Fetch
<1>6. QED
  BY <1>3, <1>4, <1>5, FetchesPreserved DEF Fetches

LEMMA FetchAnswerStep ==
  ASSUME IInv, NEW i \in DOMAIN fetches, FetchAnswer(i)
  PROVE  IInv'
<1>1. fetches \in Seq(Fetches) /\ \A k \in DOMAIN fetches : fetches[k].url \in ToPrune => Clean(fetches[k].body)
  BY DEF IInv, Typed, AllClean, Fetches
<1>2. fetches[i] \in Fetches
  BY <1>1, LenProperties, ElementOfSeq
<1>3. PICK y \in Fetches :
        /\ fetches' = [fetches EXCEPT ![i] = y]
        /\ y.url \in ToPrune => Clean(y.body)
  <2>1. CASE fetches' = [fetches EXCEPT ![i].is = "rejected"]
    <3> DEFINE y == [fetches[i] EXCEPT !.is = "rejected"]
    <3>1. y \in Fetches /\ y.url = fetches[i].url /\ y.body = fetches[i].body
      BY <1>2 DEF Fetches
    <3>2. fetches' = [fetches EXCEPT ![i] = y]
      BY <2>1
    <3> HIDE DEF y
    <3>3. QED
      BY <1>1, <3>1, <3>2
  <2>2. ASSUME NEW b \in Bodies,
               fetches' = [fetches EXCEPT ![i].is = "resolved",
                 ![i].body = IF fetches[i].url \in ToPrune THEN PrunedBody(b) ELSE b]
        PROVE  \E y \in Fetches : /\ fetches' = [fetches EXCEPT ![i] = y]
                                  /\ y.url \in ToPrune => Clean(y.body)
    <3>1. PICK body \in AnyBody : /\ body = IF fetches[i].url \in ToPrune THEN PrunedBody(b) ELSE b
                                  /\ fetches[i].url \in ToPrune => Clean(body)
      BY BodyFacts
    <3> DEFINE z == [fetches[i] EXCEPT !.is = "resolved"]
               y == [z EXCEPT !.body = body]
    <3>2. z \in Fetches /\ z.url = fetches[i].url
      BY <1>2 DEF Fetches
    <3>3. fetches' = [[fetches EXCEPT ![i] = z] EXCEPT ![i].body = body]
      BY <2>2, <3>1
    <3>4. [fetches EXCEPT ![i] = z][i] = z
      OBVIOUS
    <3> HIDE DEF z
    <3>5. y \in Fetches /\ y.url = z.url /\ y.body = body
      BY <3>2 DEF Fetches
    <3>6. fetches' = [fetches EXCEPT ![i] = y]
      BY <3>3, <3>4
    <3> HIDE DEF y
    <3>7. QED
      BY <3>1, <3>2, <3>5, <3>6
  <2>3. QED
    BY <2>1, <2>2 DEF FetchAnswer
<1>4. /\ fetches' \in Seq(Fetches) /\ DOMAIN fetches' = DOMAIN fetches /\ fetches'[i] = y
      /\ \A k \in DOMAIN fetches : k # i => fetches'[k] = fetches[k]
  BY <1>1, <1>3, Replaced
<1>5. UNCHANGED <<pruneOuter, badProps, xhrs, tasks, wire>>
  BY DEF FetchAnswer
<1>6. \A k \in DOMAIN fetches' : fetches'[k].url \in ToPrune => Clean(fetches'[k].body)
  BY <1>1, <1>3, <1>4
<1>7. QED
  BY <1>4, <1>5, <1>6, FetchesPreserved DEF Fetches

-----------------------------------------------------------------------------
(* The theorems. *)

LEMMA Initially == RequestsInit => IInv
<1> SUFFICES ASSUME RequestsInit PROVE IInv
  OBVIOUS
<1> DEFINE x == Fresh
<1>1. /\ x \in XhrTypes /\ x.parent = 0 /\ ~x.maySend /\ ~x.shouldPrune /\ DOMAIN x.pinned = {}
  <2>1. <<>> \in Seq(Answers) /\ NoAnswer \in Answers /\ "" \in Addresses /\ DOMAIN <<>> = {}
    BY BodyFacts, EmptySeq DEF Addresses
  <2>2. x \in XhrTypes
    BY <2>1 DEF Fresh, XhrTypes
  <2>3. x.parent = 0 /\ x.pinned = <<>>
    BY DEF Fresh
  <2>4. ~x.maySend /\ ~x.shouldPrune
    BY DEF Fresh
  <2>5. QED
    BY <2>1, <2>2, <2>3, <2>4
<1>2. /\ pruneOuter \in BOOLEAN /\ badProps \in BOOLEAN
      /\ tasks = {} /\ fetches = <<>> /\ wire = {}
  BY DEF RequestsInit, NoneYet
<1>3. xhrs = [o \in Mine |-> x]
  BY DEF RequestsInit, NoneYet
<1> HIDE DEF x
<1>4. xhrs \in Seq(XhrTypes) /\ DOMAIN xhrs = Mine /\ \A o \in Mine : xhrs[o] = x
  BY <1>1, <1>3, RequestAssumption DEF Mine
<1>5. fetches \in Seq(Fetches) /\ DOMAIN fetches = {}
  BY <1>2, EmptySeq
<1>6. Typed
  BY <1>1, <1>2, <1>4, <1>5 DEF Typed, Fetches
<1>7. AllMarked
  BY <1>1, <1>4 DEF AllMarked, Marked
<1>8. PreventedNeverSent
  BY <1>2 DEF PreventedNeverSent
<1>9. AllClean
  BY <1>1, <1>4, <1>5 DEF AllClean, CleanObject
<1>10. QED
  BY <1>6, <1>7, <1>8, <1>9 DEF IInv

LEMMA Inductive == IInv /\ [RequestsNext]_requestVars => IInv'
<1> SUFFICES ASSUME IInv, [RequestsNext]_requestVars PROVE IInv'
  OBVIOUS
<1>1. CASE PageActs
  BY <1>1, FetchStep, OpenStep, AbortStep, SendStep DEF PageActs
<1>2. CASE Browser
  BY <1>2, TaskStep, FetchAnswerStep DEF Browser
<1>3. CASE UNCHANGED requestVars
  <2> USE <1>3 DEF requestVars
  <2>1. Typed'
    BY DEF IInv, Typed
  <2>2. AllMarked' /\ PreventedNeverSent' /\ AllClean'
    BY DEF IInv, AllMarked, PreventedNeverSent, AllClean
  <2>3. QED
    BY <2>1, <2>2 DEF IInv
<1>4. QED
  BY <1>1, <1>2, <1>3 DEF RequestsNext

LEMMA Invariance == RequestsSpec => []IInv
BY Initially, Inductive, PTL DEF RequestsSpec

\* No request is made to an address that prevent-xhr or prevent-fetch matches,
\* for any number of objects and requests, whichever scriptlet is the outer one
\* (prevent-xhr.ts, json-prune-xhr-response.ts and prevent-fetch.ts).
THEOREM NothingPreventedIsSent == RequestsSpec => []PreventedNeverSent
<1>1. IInv => PreventedNeverSent
  BY DEF IInv
<1>2. QED
  BY <1>1, Invariance, PTL

\* What the page reads in the place of an answer that json-prune matches has
\* nothing left to remove (json-prune-xhr-response.ts and
\* json-prune-fetch-response.ts).
THEOREM AnswersArePruned == RequestsSpec => []PrunedContent
<1>1. IInv => PrunedContent
  <2> SUFFICES ASSUME IInv PROVE PrunedContent
    OBVIOUS
  <2>1. ASSUME NEW o \in Mine, xhrs[o].native = NoAnswer
        PROVE  PrunedBody(Seen(xhrs[o]).body) = Seen(xhrs[o]).body
    <3>1. xhrs[o] \in XhrTypes /\ CleanObject(xhrs[o])
      BY ObjectFacts DEF IInv, Typed
    <3>2. CASE xhrs[o].pinned # <<>>
      <4>1. 1 \in DOMAIN xhrs[o].pinned
        BY <3>1, <3>2 DEF XhrTypes
      <4>2. QED
        BY <3>1, <3>2, <4>1 DEF Seen, CleanObject, Clean
    <3>3. CASE xhrs[o].pinned = <<>>
      <4>1. Seen(xhrs[o]) = NoAnswer
        BY <2>1, <3>3 DEF Seen
      <4>2. NoAnswer.body = NoBody
        BY DEF NoAnswer
      <4>3. PrunedBody(NoBody) = NoBody
        BY BodyFacts DEF Clean
      <4>4. QED
        BY <4>1, <4>2, <4>3
    <3>4. QED
      BY <3>2, <3>3
  <2>2. QED
    BY <2>1 DEF PrunedContent, IInv, AllClean, Clean
<1>2. QED
  BY <1>1, Invariance, PTL
=============================================================================
