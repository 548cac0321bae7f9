------------------------- MODULE ExtendedCss_proofs -------------------------
(***************************************************************************)
(* What the engine of ExtendedCss promises when it is quiet, for any       *)
(* rules, documents, browsers and delays: as long as what the rules find   *)
(* depends on the page alone, every element has the classes it deserves.   *)
(*                                                                         *)
(* The argument has two halves.  What the elements have is what the engine *)
(* remembers (Worn), after a run and after a stop and whatever the page    *)
(* does to classes of its own.  And what it remembers is what the document *)
(* deserves (Fresh), unless the observer has records, or the timer is set, *)
(* or the page has changed what no observer is told: a change that is not  *)
(* recorded for another reason lies outside the document, and leaves the   *)
(* page's side of it as it was.                                            *)
(***************************************************************************)
EXTENDS ExtendedCss, TLAPS

\* What the page does never adds or removes elements, nor attributes.
IsDocument(d) ==
  /\ DOMAIN d = {"parent", "classes", "words", "path"}
  /\ DOMAIN d.classes = Elements(d) /\ DOMAIN d.words = Elements(d)
  /\ Html \in Elements(d) /\ 0 \notin Elements(d)

Typed ==
  /\ IsDocument(doc)
  /\ \A e \in Elements(doc) : applied[e] \subseteq EngineClasses
  /\ EngineClasses \intersect PageClasses = {}

\* The elements wear what the engine remembers.
Worn == \A e \in Elements(doc) \ overwritten : doc.classes[e] \intersect EngineClasses = applied[e]

Fresh ==
  phase = "running" =>
    /\ observing
    /\ ~pending /\ ~timer /\ ~unseen => \A e \in Elements(doc) : applied[e] = Deserved(e)

IInv == Typed /\ Worn /\ Fresh

-----------------------------------------------------------------------------
(* Documents. *)

\* The element with its children is closed below, and least so.
LEMMA SubtreeIsClosed ==
  ASSUME NEW d, NEW top \in Elements(d)
  PROVE  /\ top \in Subtree(d, top)
         /\ \A e \in Elements(d) : d.parent[e] \in Subtree(d, top) => e \in Subtree(d, top)
         /\ \A S \in SUBSET Elements(d) :
              top \in S /\ (\A e \in Elements(d) : d.parent[e] \in S => e \in S)
                => Subtree(d, top) \subseteq S
  BY DEF Subtree

LEMMA SameSide ==
  ASSUME NEW d1, NEW d2, Elements(d1) = Elements(d2), d1.path = d2.path,
         \A e \in Elements(d1) : InDocument(d1, e) <=> InDocument(d2, e),
         \A e \in Elements(d1) : InDocument(d1, e) =>
           /\ d1.parent[e] = d2.parent[e] /\ d1.words[e] = d2.words[e]
           /\ d1.classes[e] \ EngineClasses = d2.classes[e] \ EngineClasses
  PROVE  PageSide(d1) = PageSide(d2)
  BY DEF PageSide

\* Outside of the document nothing that moves within the outside gets in.
LEMMA OutsideStaysOut ==
  ASSUME NEW d, NEW d2, Html \in Elements(d), 0 \notin Elements(d), NEW e \in Elements(d), NEW to,
         ~InDocument(d, e), ~InDocument(d, to), d2.parent = [d.parent EXCEPT ![e] = to]
  PROVE  \A x \in Elements(d) : InDocument(d2, x) <=> InDocument(d, x)
<1> DEFINE I == Subtree(d, Html)
           J == Subtree(d2, Html)
<1>1. Elements(d2) = Elements(d) /\ \A x \in Elements(d) : d2.parent[x] = IF x = e THEN to ELSE d.parent[x]
  BY DEF Elements
<1>2. /\ Html \in I /\ I \subseteq Elements(d) /\ e \notin I /\ to \notin I
      /\ \A x \in Elements(d) : d.parent[x] \in I => x \in I
      /\ \A S \in SUBSET Elements(d) :
           Html \in S /\ (\A x \in Elements(d) : d.parent[x] \in S => x \in S) => I \subseteq S
  <2>1. I \subseteq Elements(d) /\ e \notin I /\ to \notin I
    BY DEF Subtree, InDocument
  <2>2. QED
    BY <2>1, SubtreeIsClosed
<1>3. /\ Html \in J /\ J \subseteq Elements(d)
      /\ \A x \in Elements(d) : d2.parent[x] \in J => x \in J
      /\ \A S \in SUBSET Elements(d) :
           Html \in S /\ (\A x \in Elements(d) : d2.parent[x] \in S => x \in S) => J \subseteq S
  <2>1. J \subseteq Elements(d)
    BY <1>1 DEF Subtree
  <2>2. QED
    BY <1>1, <2>1, SubtreeIsClosed
<1> HIDE DEF I, J
<1>4. J \subseteq I
  BY <1>1, <1>2, <1>3
<1>5. I \subseteq J
  <2> DEFINE T == I \intersect J
  <2>1. \A x \in Elements(d) : d.parent[x] \in T => x \in T
    BY <1>1, <1>2, <1>3
  <2>2. Html \in T /\ T \in SUBSET Elements(d)
    BY <1>2, <1>3
  <2>3. I \subseteq T
    BY <1>2, <2>1, <2>2
  <2>4. QED
    BY <2>3
<1>6. QED
  BY <1>4, <1>5 DEF InDocument, I, J

-----------------------------------------------------------------------------
(* A run of the engine. *)

\* What a document deserves is the same for two with the same page's side.
LEMMA SameFound ==
  ASSUME RulesSeeThePage, RulesSeeThePage', rules' = rules, PageSide(doc)' = PageSide(doc)
  PROVE  \A i \in DOMAIN rules : Found(doc', rules[i].query) = Found(doc, rules[i].query)
  BY DEF RulesSeeThePage

LEMMA SameDeserved ==
  ASSUME RulesSeeThePage, RulesSeeThePage', rules' = rules, PageSide(doc)' = PageSide(doc)
  PROVE  \A e : Deserved(e)' = Deserved(e)
<1>1. \A i \in DOMAIN rules : Found(doc', rules[i].query) = Found(doc, rules[i].query)
  BY SameFound
<1>2. ASSUME NEW e
      PROVE  {k \in DOMAIN rules : e \in Found(doc', rules[k].query)}
               = {k \in DOMAIN rules : e \in Found(doc, rules[k].query)}
  BY <1>1
<1>3. QED
  BY <1>2 DEF Deserved

LEMMA RunFacts ==
  ASSUME Typed, Worn, ApplyQueries, rules' = rules, overwritten' = overwritten,
         RulesSeeThePage, RulesSeeThePage'
  PROVE  /\ Typed' /\ Worn' /\ unseen' = FALSE
         /\ \A e \in Elements(doc') : applied'[e] = Deserved(e)'
<1> DEFINE matched == [i \in DOMAIN rules |-> Found(doc, rules[i].query)]
           desired == CollectClassMatches(matched)
<1>1. ApplyClasses(desired) /\ unseen' = FALSE
  BY DEF ApplyQueries
<1>2. \A e \in Elements(doc) : desired[e] = Deserved(e) /\ Deserved(e) \subseteq EngineClasses
  BY DEF CollectClassMatches, Deserved, EngineClasses, ClassesOf
<1> HIDE DEF desired
<1> DEFINE classes2 == [e \in Elements(doc) |->
              (doc.classes[e] \ (applied[e] \ desired[e])) \union (desired[e] \ applied[e])]
<1>3. doc' = [doc EXCEPT !.classes = classes2] /\ applied' = desired
  BY <1>1 DEF ApplyClasses
<1> HIDE DEF classes2
<1>4. /\ DOMAIN doc' = DOMAIN doc /\ doc'.parent = doc.parent /\ doc'.words = doc.words
      /\ doc'.path = doc.path /\ doc'.classes = classes2
  BY <1>3 DEF Typed, IsDocument
<1>5. Elements(doc') = Elements(doc) /\ Elements(doc)' = Elements(doc)
  BY <1>4 DEF Elements
<1>6. EngineClasses' = EngineClasses
  BY DEF EngineClasses
<1>7. PageSide(doc)' = PageSide(doc)
  <2>1. \A e \in Elements(doc) : InDocument(doc', e) <=> InDocument(doc, e)
    BY <1>4, <1>5 DEF InDocument, Subtree
  <2>2. \A e \in Elements(doc) : doc'.classes[e] \ EngineClasses = doc.classes[e] \ EngineClasses
    BY <1>2, <1>4 DEF classes2, Typed
  <2>3. PageSide(doc') = PageSide(doc)
    BY <1>4, <1>5, <2>1, <2>2, SameSide
  <2>4. QED
    BY <1>6, <2>3 DEF PageSide
<1>8. \A e \in Elements(doc') : applied'[e] = Deserved(e)'
  BY <1>2, <1>3, <1>5, <1>7, SameDeserved
<1>9. Typed'
  <2>1. IsDocument(doc)'
    BY <1>4, <1>5 DEF Typed, IsDocument, classes2
  <2>2. QED
    BY <1>2, <1>3, <1>5, <1>6, <2>1 DEF Typed
<1>10. Worn'
  <2>1. ASSUME NEW e \in Elements(doc) \ overwritten
        PROVE  classes2[e] \intersect EngineClasses = desired[e]
    BY <1>2 DEF classes2, Typed, Worn
  <2>2. QED
    BY <1>3, <1>4, <1>5, <1>6, <2>1 DEF Worn
<1>11. QED
  BY <1>1, <1>8, <1>9, <1>10
-----------------------------------------------------------------------------
(* What the page does. *)

LEMMA ChangeFacts ==
  ASSUME NEW d, NEW seen \in BOOLEAN, Change(d, seen), Elements(d) = Elements(doc)
  PROVE  /\ doc' = d /\ pending' = (pending \/ (observing /\ seen))
         /\ Elements(doc') = Elements(doc) /\ Elements(doc)' = Elements(doc)
         /\ rules' = rules /\ phase' = phase /\ observing' = observing /\ timer' = timer
         /\ applied' = applied /\ EngineClasses' = EngineClasses
  BY DEF Change, EngineClasses, Elements

\* What leaves the page's side as it was need not be seen.
LEMMA ChangeKeepsFresh ==
  ASSUME Fresh, RulesSeeThePage, RulesSeeThePage',
         NEW d, NEW seen \in BOOLEAN, Change(d, seen), Elements(d) = Elements(doc),
         unseen' \/ seen \/ (~unseen /\ PageSide(d) = PageSide(doc))
  PROVE  Fresh'
<1>1. /\ doc' = d /\ pending' = (pending \/ (observing /\ seen))
      /\ Elements(doc') = Elements(doc) /\ Elements(doc)' = Elements(doc)
      /\ rules' = rules /\ phase' = phase /\ observing' = observing /\ timer' = timer
      /\ applied' = applied /\ EngineClasses' = EngineClasses
  BY ChangeFacts
<1>2. CASE phase # "running" \/ unseen'
  BY <1>1, <1>2 DEF Fresh
<1>3. CASE phase = "running" /\ seen /\ ~unseen'
  <2>1. observing /\ observing' /\ pending'
    BY <1>1, <1>3 DEF Fresh
  <2>2. QED
    BY <2>1 DEF Fresh
<1>4. CASE phase = "running" /\ ~seen /\ ~unseen'
  <2>1. ~unseen /\ PageSide(d) = PageSide(doc)
    BY <1>4
  <2>2. PageSide(doc)' = PageSide(doc)
    BY <1>1, <2>1 DEF PageSide
  <2>3. \A e : Deserved(e)' = Deserved(e)
    BY <1>1, <2>2, SameDeserved
  <2>4. ~pending' => ~pending
    BY <1>1
  <2>5. QED
    BY <1>1, <1>4, <2>1, <2>3, <2>4 DEF Fresh
<1>5. QED
  BY <1>2, <1>3, <1>4

\* Classes: of one element, and none of the engine's.
LEMMA ClassesFacts ==
  ASSUME Typed, NEW e \in Elements(doc), NEW cs
  PROVE  LET d == [doc EXCEPT !.classes[e] = cs] IN
         /\ IsDocument(d) /\ Elements(d) = Elements(doc)
         /\ d.classes[e] = cs /\ \A x \in Elements(doc) \ {e} : d.classes[x] = doc.classes[x]
         /\ ~InDocument(doc, e) => PageSide(d) = PageSide(doc)
<1> DEFINE d == [doc EXCEPT !.classes[e] = cs]
<1>1. /\ DOMAIN d = DOMAIN doc /\ d.parent = doc.parent /\ d.words = doc.words /\ d.path = doc.path
      /\ d.classes = [doc.classes EXCEPT ![e] = cs]
  BY DEF Typed, IsDocument
<1> HIDE DEF d
<1>2. Elements(d) = Elements(doc)
  BY <1>1 DEF Elements
<1>3. d.classes[e] = cs /\ \A x \in Elements(doc) \ {e} : d.classes[x] = doc.classes[x]
  BY <1>1 DEF Typed, IsDocument
<1>4. IsDocument(d)
  BY <1>1, <1>2 DEF Typed, IsDocument
<1>5. \A x \in Elements(doc) : InDocument(d, x) <=> InDocument(doc, x)
  BY <1>1, <1>2 DEF InDocument, Subtree
<1>6. ASSUME ~InDocument(doc, e) PROVE PageSide(d) = PageSide(doc)
  BY <1>1, <1>2, <1>3, <1>5, <1>6, SameSide
<1>7. QED
  BY <1>2, <1>3, <1>4, <1>6 DEF d

LEMMA ToggleClassKeeps ==
  ASSUME IInv, RulesSeeThePage, RulesSeeThePage',
         NEW e \in Elements(doc), NEW c \in PageClasses, ToggleClass(e, c)
  PROVE  IInv'
<1> DEFINE cs == IF c \in doc.classes[e] THEN doc.classes[e] \ {c} ELSE doc.classes[e] \union {c}
           d == [doc EXCEPT !.classes[e] = cs]
<1>1. /\ Change(d, InDocument(doc, e)) /\ unseen' = unseen /\ overwritten' = overwritten
      /\ InDocument(doc, e) \in BOOLEAN
  BY DEF ToggleClass, InDocument
<1>2. cs \intersect EngineClasses = doc.classes[e] \intersect EngineClasses
  BY DEF IInv, Typed
<1> HIDE DEF cs
<1>3. /\ IsDocument(d) /\ Elements(d) = Elements(doc)
      /\ d.classes[e] = cs /\ \A x \in Elements(doc) \ {e} : d.classes[x] = doc.classes[x]
      /\ ~InDocument(doc, e) => PageSide(d) = PageSide(doc)
  BY ClassesFacts DEF IInv
<1> HIDE DEF d
<1>4. /\ doc' = d /\ Elements(doc') = Elements(doc) /\ Elements(doc)' = Elements(doc)
      /\ applied' = applied /\ EngineClasses' = EngineClasses
  BY <1>1, <1>3, ChangeFacts
<1>5. Typed'
  BY <1>3, <1>4 DEF IInv, Typed, IsDocument, Elements
<1>6. Worn'
  BY <1>1, <1>2, <1>3, <1>4 DEF IInv, Worn
<1>7. Fresh'
  BY <1>1, <1>3, ChangeKeepsFresh DEF IInv
<1>8. QED
  BY <1>5, <1>6, <1>7 DEF IInv

LEMMA SetClassNameKeeps ==
  ASSUME IInv, RulesSeeThePage, RulesSeeThePage',
         NEW e \in Elements(doc), NEW c \in PageClasses, SetClassName(e, c)
  PROVE  IInv'
<1> DEFINE cs == {c}
           d == [doc EXCEPT !.classes[e] = cs]
<1>1. /\ Change(d, InDocument(doc, e)) /\ unseen' = unseen /\ overwritten' = overwritten \union {e}
      /\ InDocument(doc, e) \in BOOLEAN
  BY DEF SetClassName, InDocument
<1> HIDE DEF cs
<1>2. /\ IsDocument(d) /\ Elements(d) = Elements(doc)
      /\ d.classes[e] = cs /\ \A x \in Elements(doc) \ {e} : d.classes[x] = doc.classes[x]
      /\ ~InDocument(doc, e) => PageSide(d) = PageSide(doc)
  BY ClassesFacts DEF IInv
<1> HIDE DEF d
<1>3. /\ doc' = d /\ Elements(doc') = Elements(doc) /\ Elements(doc)' = Elements(doc)
      /\ applied' = applied /\ EngineClasses' = EngineClasses
  BY <1>1, <1>2, ChangeFacts
<1>4. Typed'
  BY <1>2, <1>3 DEF IInv, Typed, IsDocument, Elements
<1>5. Worn'
  BY <1>1, <1>2, <1>3 DEF IInv, Worn
<1>6. Fresh'
  BY <1>1, <1>2, ChangeKeepsFresh DEF IInv
<1>7. QED
  BY <1>4, <1>5, <1>6 DEF IInv

\* Moved within the outside of the document, or out of it.
LEMMA MoveKeeps ==
  ASSUME IInv, RulesSeeThePage, RulesSeeThePage',
         NEW e \in Elements(doc), NEW to \in Elements(doc) \union {0}, Move(e, to)
  PROVE  IInv'
<1> DEFINE d == [doc EXCEPT !.parent[e] = to]
           seen == InDocument(doc, e) \/ (to # 0 /\ InDocument(doc, to))
<1>1. Change(d, seen) /\ unseen' = unseen /\ overwritten' = overwritten /\ seen \in BOOLEAN
  BY DEF Move, InDocument
<1>2. /\ DOMAIN d = DOMAIN doc /\ d.classes = doc.classes /\ d.words = doc.words /\ d.path = doc.path
      /\ d.parent = [doc.parent EXCEPT ![e] = to]
  BY DEF IInv, Typed, IsDocument
<1> HIDE DEF d
<1>3. /\ Elements(d) = Elements(doc)
      /\ \A x \in Elements(doc) : d.parent[x] = IF x = e THEN to ELSE doc.parent[x]
  BY <1>2 DEF Elements
<1>4. ASSUME ~seen PROVE PageSide(d) = PageSide(doc)
  <2>1. Html \in Elements(doc) /\ 0 \notin Elements(doc) /\ ~InDocument(doc, e) /\ ~InDocument(doc, to)
    BY <1>4 DEF IInv, Typed, IsDocument, InDocument, Subtree
  <2>2. \A x \in Elements(doc) : InDocument(d, x) <=> InDocument(doc, x)
    BY <1>2, <2>1, OutsideStaysOut
  <2>3. \A x \in Elements(doc) : InDocument(doc, x) => x # e
    BY <2>1
  <2>4. QED
    BY <1>2, <1>3, <2>2, <2>3, SameSide
<1> HIDE DEF seen
<1>5. /\ doc' = d /\ Elements(doc') = Elements(doc) /\ Elements(doc)' = Elements(doc)
      /\ applied' = applied /\ EngineClasses' = EngineClasses
  BY <1>1, <1>3, ChangeFacts
<1>6. Typed'
  BY <1>2, <1>3, <1>5 DEF IInv, Typed, IsDocument, Elements
<1>7. Worn'
  BY <1>1, <1>2, <1>5 DEF IInv, Worn
<1>8. Fresh'
  BY <1>1, <1>3, <1>4, ChangeKeepsFresh DEF IInv
<1>9. QED
  BY <1>6, <1>7, <1>8 DEF IInv

LEMMA WriteKeeps ==
  ASSUME IInv, RulesSeeThePage, RulesSeeThePage',
         NEW e \in Elements(doc), NEW w, NEW inPlace \in BOOLEAN, Write(e, w, inPlace)
  PROVE  IInv'
<1> DEFINE ws == IF w \in doc.words[e] THEN doc.words[e] \ {w} ELSE doc.words[e] \union {w}
           d == [doc EXCEPT !.words[e] = ws]
           seen == ~inPlace /\ InDocument(doc, e)
<1>1. /\ Change(d, seen) /\ unseen' = (unseen \/ inPlace) /\ overwritten' = overwritten
      /\ seen \in BOOLEAN
  BY DEF Write, InDocument
<1> HIDE DEF ws
<1>2. /\ DOMAIN d = DOMAIN doc /\ d.classes = doc.classes /\ d.parent = doc.parent /\ d.path = doc.path
      /\ d.words = [doc.words EXCEPT ![e] = ws]
  BY DEF IInv, Typed, IsDocument
<1> HIDE DEF d
<1>3. Elements(d) = Elements(doc)
  BY <1>2 DEF Elements
<1>4. ASSUME ~InDocument(doc, e) PROVE PageSide(d) = PageSide(doc)
  <2>1. \A x \in Elements(doc) : InDocument(d, x) <=> InDocument(doc, x)
    BY <1>2, <1>3 DEF InDocument, Subtree
  <2>2. \A x \in Elements(doc) \ {e} : d.words[x] = doc.words[x]
    BY <1>2 DEF IInv, Typed, IsDocument
  <2>3. QED
    BY <1>2, <1>3, <1>4, <2>1, <2>2, SameSide
<1>5. unseen' \/ seen \/ (~unseen /\ PageSide(d) = PageSide(doc))
  BY <1>1, <1>4
<1> HIDE DEF seen
<1>6. /\ doc' = d /\ Elements(doc') = Elements(doc) /\ Elements(doc)' = Elements(doc)
      /\ applied' = applied /\ EngineClasses' = EngineClasses
  BY <1>1, <1>3, ChangeFacts
<1>7. Typed'
  BY <1>2, <1>3, <1>6 DEF IInv, Typed, IsDocument, Elements
<1>8. Worn'
  BY <1>1, <1>2, <1>6 DEF IInv, Worn
<1>9. Fresh'
  BY <1>1, <1>3, <1>5, ChangeKeepsFresh DEF IInv
<1>10. QED
  BY <1>7, <1>8, <1>9 DEF IInv

-----------------------------------------------------------------------------
(* The event loop. *)

LEMMA ObservedRunKeeps ==
  ASSUME IInv, RulesSeeThePage, RulesSeeThePage', ObservedRun, rules' = rules,
         overwritten' = overwritten
  PROVE  IInv'
<1>1. /\ Typed' /\ Worn' /\ unseen' = FALSE
      /\ \A e \in Elements(doc') : applied'[e] = Deserved(e)'
  BY RunFacts DEF IInv, ObservedRun
<1>2. observing' = TRUE /\ Elements(doc)' = Elements(doc')
  BY DEF ObservedRun, Elements
<1>3. Fresh'
  BY <1>1, <1>2 DEF Fresh
<1>4. QED
  BY <1>1, <1>3 DEF IInv

\* Only the throttle's timer or what it has run changes.
LEMMA NotifiedKeeps ==
  ASSUME IInv, RulesSeeThePage, RulesSeeThePage', Notified
  PROVE  IInv'
<1>1. rules' = rules /\ overwritten' = overwritten /\ phase' = phase /\ Throttle
  BY DEF Notified
<1>2. CASE timer \/ sinceRun < Delay
  <2>1. timer' = TRUE /\ doc' = doc /\ applied' = applied /\ unseen' = unseen /\ observing' = observing
    BY <1>1, <1>2 DEF Throttle
  <2>2. /\ EngineClasses' = EngineClasses /\ Elements(doc)' = Elements(doc)
        /\ IsDocument(doc)' = IsDocument(doc)
    BY <1>1, <2>1 DEF EngineClasses, Elements, IsDocument
  <2>3. QED
    BY <1>1, <2>1, <2>2 DEF IInv, Typed, Worn, Fresh
<1>3. CASE ~(timer \/ sinceRun < Delay)
  BY <1>1, <1>3, ObservedRunKeeps DEF Throttle
<1>4. QED
  BY <1>2, <1>3

LEMMA NothingKeeps ==
  ASSUME IInv, UNCHANGED <<doc, rules, phase, observing, pending, timer, applied, unseen, overwritten>>
  PROVE  IInv'
<1>1. /\ EngineClasses' = EngineClasses /\ Elements(doc)' = Elements(doc)
      /\ IsDocument(doc)' = IsDocument(doc) /\ \A e : Deserved(e)' = Deserved(e)
  BY DEF EngineClasses, Elements, IsDocument, Deserved
<1>2. Typed' /\ Worn'
  BY <1>1 DEF IInv, Typed, Worn
<1>3. Fresh'
  BY <1>1 DEF IInv, Fresh
<1>4. QED
  BY <1>2, <1>3 DEF IInv

LEMMA LoopKeeps ==
  ASSUME IInv, RulesSeeThePage, RulesSeeThePage', Start \/ Loaded \/ TimerFires
  PROVE  IInv'
<1>1. CASE TimerFires
  BY <1>1, ObservedRunKeeps DEF TimerFires
<1>2. CASE Start
  <2>1. /\ Typed' /\ Worn' /\ \A e \in Elements(doc') : applied'[e] = Deserved(e)'
    BY <1>2, RunFacts DEF IInv, Start
  <2>2. observing' = TRUE /\ Elements(doc)' = Elements(doc')
    BY <1>2 DEF Start, Elements
  <2>3. QED
    BY <2>1, <2>2 DEF IInv, Fresh
<1>3. CASE Loaded /\ listening
  <2>1. /\ Typed' /\ Worn' /\ \A e \in Elements(doc') : applied'[e] = Deserved(e)'
    BY <1>3, RunFacts DEF IInv, Loaded
  <2>2. observing' = observing /\ phase' = phase /\ Elements(doc)' = Elements(doc')
    BY <1>3 DEF Loaded, Elements
  <2>3. QED
    BY <2>1, <2>2 DEF IInv, Fresh
<1>4. CASE Loaded /\ ~listening
  <2>1. UNCHANGED <<doc, rules, phase, observing, pending, timer, applied, unseen, overwritten>>
    BY <1>4 DEF Loaded
  <2>2. QED
    BY <2>1, NothingKeeps
<1>5. QED
  BY <1>1, <1>2, <1>3, <1>4

\* What is taken off is what is remembered.
LEMMA StopKeeps ==
  ASSUME IInv, Stop
  PROVE  IInv'
<1> DEFINE classes2 == [e \in Elements(doc) |-> doc.classes[e] \ applied[e]]
<1>1. /\ doc' = [doc EXCEPT !.classes = classes2] /\ applied' = [e \in Elements(doc) |-> {}]
      /\ phase' = "stopped" /\ rules' = rules /\ overwritten' = overwritten
  BY DEF Stop
<1> HIDE DEF classes2
<1>2. /\ DOMAIN doc' = DOMAIN doc /\ doc'.parent = doc.parent /\ doc'.words = doc.words
      /\ doc'.classes = classes2
  BY <1>1 DEF IInv, Typed, IsDocument
<1>3. Elements(doc') = Elements(doc) /\ Elements(doc)' = Elements(doc) /\ EngineClasses' = EngineClasses
  BY <1>1, <1>2 DEF Elements, EngineClasses
<1>4. Typed'
  <2>1. IsDocument(doc)'
    BY <1>2, <1>3 DEF IInv, Typed, IsDocument, classes2
  <2>2. QED
    BY <1>1, <1>3, <2>1 DEF IInv, Typed
<1>5. Worn'
  <2>1. ASSUME NEW e \in Elements(doc) \ overwritten
        PROVE  classes2[e] \intersect EngineClasses = {}
    BY DEF classes2, IInv, Worn
  <2>2. QED
    BY <1>1, <1>2, <1>3, <2>1 DEF Worn
<1>6. QED
  BY <1>1, <1>4, <1>5 DEF IInv, Fresh

-----------------------------------------------------------------------------
LEMMA InitIInv == EngineInit => IInv
<1> SUFFICES ASSUME EngineInit PROVE IInv
  OBVIOUS
<1>1. /\ doc \in Documents /\ native \in Browsers /\ rules = ParseRules(native) /\ phase = "parsed"
      /\ applied = [e \in Elements(doc) |-> {}] /\ overwritten = {}
  BY DEF EngineInit, AtRest
<1>2. IsDocument(doc)
  BY <1>1, DocumentsAssumption DEF IsDocument
<1>3. /\ EngineClasses \intersect PageClasses = {}
      /\ \A e \in Elements(doc) : EngineClasses \intersect doc.classes[e] = {}
  BY <1>1, ClassesAssumption DEF EngineClasses
<1>4. QED
  BY <1>1, <1>2, <1>3 DEF IInv, Typed, Worn, Fresh

LEMMA Inductive ==
  ASSUME IInv, RulesSeeThePage, RulesSeeThePage', [EngineNext]_cssVars
  PROVE  IInv'
<1>1. CASE Start \/ Loaded \/ TimerFires
  BY <1>1, LoopKeeps
<1>2. CASE Notified
  BY <1>2, NotifiedKeeps
<1>3. CASE Stop
  BY <1>3, StopKeeps
<1>4. CASE Tick \/ UNCHANGED cssVars
  <2>1. UNCHANGED <<doc, rules, phase, observing, pending, timer, applied, unseen, overwritten>>
    BY <1>4 DEF Tick, cssVars, engineVars
  <2>2. QED
    BY <2>1, NothingKeeps
<1>5. CASE PageChanges
  <2>1. PICK e \in Elements(doc) :
          \/ \E c \in PageClasses : ToggleClass(e, c) \/ SetClassName(e, c)
          \/ \E to \in Elements(doc) \union {0} : Move(e, to)
          \/ \E w \in Words, inPlace \in BOOLEAN : Write(e, w, inPlace)
    BY <1>5 DEF PageChanges
  <2>2. QED
    BY <2>1, ToggleClassKeeps, SetClassNameKeeps, MoveKeeps, WriteKeeps
<1>6. QED
  BY <1>1, <1>2, <1>3, <1>4, <1>5 DEF EngineNext, EventLoop

\* When nothing is under way, every element has the engine's classes that the
\* rules of the constructor give it and no others, however the page's changes
\* fall between applyQueries, the throttle and DOMContentLoaded; as long as what
\* a rule finds depends on the page alone.
THEOREM QuietIsRight == EngineSpec /\ []RulesSeeThePage => []QuietMeansRight
<1>1. IInv => QuietMeansRight
  BY DEF IInv, Worn, Fresh, QuietMeansRight, Quiet
<1>2. IInv /\ RulesSeeThePage /\ RulesSeeThePage' /\ [EngineNext]_cssVars => IInv'
  BY Inductive
<1>3. QED
  BY <1>1, <1>2, InitIInv, PTL DEF EngineSpec
=============================================================================
