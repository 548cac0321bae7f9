---------------------------- MODULE ExtendedCss ----------------------------
(***************************************************************************)
(* jslibs/extended-css/src/engine: the script that Zen injects in a page   *)
(* to keep classes on the elements that the page's extended rules match,   *)
(* while the page changes its own document.  A rule that hides shares the  *)
(* class zenc_hide with the others; a rule with :style() has its own.      *)
(* The observer sees the children of nodes and the attributes id and       *)
(* class; a run it asks for comes Delay after the one before at the        *)
(* earliest.  Scripts of the page act between the runs.                    *)
(*                                                                         *)
(* How a rule's text is parsed, and what it finds in a document, is left   *)
(* open here (see Selectors).                                              *)
(***************************************************************************)
EXTENDS PageElements, Sequences, FiniteSets, TLC

CONSTANTS
  Rules,       \* the rules injected in the page: [kind, list]
  Unparsable(_, _), ParsedList(_, _),  \* of a browser and a rule's list
  Found(_, _),  \* what a parsed list finds in a document
  Documents,   \* the documents a page with rules starts from
  Browsers,    \* which of :has, :is and :not its browser may know
  Words, PageClasses,
  Foreign,     \* elements that are no HTMLElement, as those of an svg
  Delay,       \* of the throttle, in ticks
  MaxChanges   \* bound on what the page does

ASSUME DelayAssumption == Delay \in Nat \ {0} /\ MaxChanges \in Nat

VARIABLES
  doc,          \* the page's document
  native,       \* which of :has, :is and :not the browser knows
  rules,        \* what the engine's constructor has made of Rules
  phase,        \* "absent", "parsed", "running" or "stopped"
  ready,        \* document.readyState
  listening,    \* the listener of DOMContentLoaded is registered
  observing,    \* the observer is connected
  pending,      \* it has records that its callback has not been given
  timer,        \* the throttle's timer is set
  sinceRun,     \* ticks since the throttled run before, at most Delay
  applied,      \* appliedClasses
  changes,      \* what the page has done, up to MaxChanges
  unseen,       \* history: it has changed what no observer is told, since the last run
  overwritten   \* history: the elements whose attribute class it has set as a whole

engineVars == <<phase, listening, observing, pending, timer, sinceRun, applied>>
cssVars == <<doc, native, rules, ready, changes, unseen, overwritten, engineVars>>

-----------------------------------------------------------------------------
\* The rules.

\* A rule that cannot be parsed, or whose :style() is empty, is left out.
ParseRules(known) ==
  LET kept == SelectSeq(Rules, LAMBDA r : r.kind # "bare" /\ ~Unparsable(known, r.list))
      styles(i) == Cardinality({k \in 1 .. (i - 1) : kept[k].kind = "style"})
  IN [i \in DOMAIN kept |->
        [query |-> ParsedList(known, kept[i].list),
         class |-> IF kept[i].kind = "hide" THEN "zenc_hide" ELSE "zenc_" \o ToString(styles(i))]]

ClassesOf(parsedRules) == {parsedRules[i].class : i \in DOMAIN parsedRules}
EngineClasses == ClassesOf(rules)

\* Every element has a parent (or none), classes and words.
ASSUME DocumentsAssumption ==
  \A d \in Documents :
    /\ DOMAIN d = {"parent", "classes", "words", "path"}
    /\ DOMAIN d.classes = Elements(d) /\ DOMAIN d.words = Elements(d)
    /\ Html \in Elements(d) /\ 0 \notin Elements(d)

\* No page has a class that starts with zenc_.
ASSUME ClassesAssumption ==
  \A known \in Browsers : LET own == ClassesOf(ParseRules(known)) IN
    /\ own \intersect PageClasses = {}
    /\ \A d \in Documents : \A e \in Elements(d) : own \intersect d.classes[e] = {}

\* A rule that throws is skipped, in this run only.
CollectClassMatches(matched) ==
  [e \in Elements(doc) |->
     IF e \in Foreign THEN {} ELSE {rules[i].class : i \in {k \in DOMAIN rules : e \in matched[k]}}]

\* What is compared is what the engine remembers, not what the element has.
ApplyClasses(desired) ==
  /\ doc' = [doc EXCEPT !.classes = [e \in Elements(doc) |->
                 (@[e] \ (applied[e] \ desired[e])) \union (desired[e] \ applied[e])]]
  /\ applied' = desired

ApplyQueries ==
  /\ \E matched \in {[i \in DOMAIN rules |-> Found(doc, rules[i].query)]} :
       \E desired \in {CollectClassMatches(matched)} : ApplyClasses(desired)
  /\ unseen' = FALSE

-----------------------------------------------------------------------------
\* The engine.

AtRest ==
  /\ applied = [e \in Elements(doc) |-> {}]
  /\ listening = FALSE /\ observing = FALSE /\ pending = FALSE /\ timer = FALSE
  /\ unseen = FALSE /\ sinceRun = Delay /\ changes = 0 /\ overwritten = {}

EngineInit ==
  /\ ready \in {"loading", "interactive", "complete"} /\ phase = "parsed"
  /\ doc \in Documents /\ native \in Browsers /\ rules = ParseRules(native)
  /\ AtRest

NoEngine(d, known) ==
  /\ doc = d /\ native = known /\ rules = <<>> /\ ready = "complete" /\ phase = "absent"
  /\ AtRest

\* The page's scripts have run and their microtasks too.
Idle == ~pending

Start ==
  /\ phase = "parsed"
  /\ ApplyQueries
  /\ listening' = (ready # "complete")
  /\ observing' = TRUE /\ phase' = "running"
  /\ UNCHANGED <<native, rules, ready, pending, timer, sinceRun, changes, overwritten>>

\* A run the observer is not asked to look away from.  (A page that is interactive
\* at first has had this event, and the listener waits for nothing; one that has
\* not is as one that is loading.)
Loaded ==
  /\ ready = "loading" /\ Idle
  /\ ready' = "interactive" /\ listening' = FALSE
  /\ IF listening
     THEN /\ ApplyQueries
          /\ pending' = (observing /\ doc' # doc)
     ELSE UNCHANGED <<doc, applied, unseen, pending>>
  /\ UNCHANGED <<native, rules, phase, observing, timer, sinceRun, changes, overwritten>>

\* The observer is disconnected meanwhile: it sees nothing of the run.
ObservedRun ==
  /\ ApplyQueries
  /\ sinceRun' = 0 /\ observing' = TRUE /\ pending' = FALSE

\* Faulty: a call within the delay is lost.
DroppingThrottle ==
  IF timer \/ sinceRun < Delay
  THEN /\ pending' = FALSE
       /\ UNCHANGED <<doc, applied, unseen, sinceRun, observing, timer>>
  ELSE ObservedRun /\ UNCHANGED timer

Throttle ==
  IF timer \/ sinceRun < Delay
  THEN /\ timer' = TRUE /\ pending' = FALSE
       /\ UNCHANGED <<doc, applied, unseen, sinceRun, observing>>
  ELSE ObservedRun /\ UNCHANGED timer

\* The observer's callback, a microtask.
Notified ==
  /\ pending /\ Throttle
  /\ UNCHANGED <<native, rules, phase, ready, listening, changes, overwritten>>

\* Faulty: the timer's own mark is not taken off.
StuckTimer ==
  /\ timer /\ sinceRun = Delay /\ Idle
  /\ ObservedRun
  /\ UNCHANGED <<native, rules, phase, ready, listening, timer, changes, overwritten>>

TimerFires ==
  /\ timer /\ sinceRun = Delay /\ Idle
  /\ timer' = FALSE /\ ObservedRun
  /\ UNCHANGED <<native, rules, phase, ready, listening, changes, overwritten>>

\* Neither the timer nor the listener is taken back.
Stop ==
  /\ phase = "running" /\ Idle
  /\ doc' = [doc EXCEPT !.classes = [e \in Elements(doc) |-> @[e] \ applied[e]]]
  /\ applied' = [e \in Elements(doc) |-> {}]
  /\ observing' = FALSE /\ phase' = "stopped"
  /\ UNCHANGED <<native, rules, ready, listening, pending, timer, sinceRun, changes, unseen, overwritten>>

Tick ==
  /\ sinceRun < Delay /\ Idle
  /\ sinceRun' = sinceRun + 1
  /\ UNCHANGED <<doc, native, rules, phase, ready, listening, observing, pending, timer, applied,
                 changes, unseen, overwritten>>

-----------------------------------------------------------------------------
\* The page.

Change(d, seen) ==
  /\ changes < MaxChanges
  /\ doc' = d /\ changes' = changes + 1
  /\ pending' = (pending \/ (observing /\ seen))
  /\ UNCHANGED <<native, rules, ready, phase, listening, observing, timer, sinceRun, applied>>

ToggleClass(e, c) ==
  /\ Change([doc EXCEPT !.classes[e] = IF c \in @ THEN @ \ {c} ELSE @ \union {c}],
            InDocument(doc, e))
  /\ UNCHANGED <<unseen, overwritten>>

\* className = "...": the engine's classes are lost.
SetClassName(e, c) ==
  /\ Change([doc EXCEPT !.classes[e] = {c}], InDocument(doc, e))
  /\ overwritten' = overwritten \union {e}
  /\ UNCHANGED unseen

Move(e, to) ==
  /\ to # doc.parent[e] /\ to \notin Subtree(doc, e)
  /\ Change([doc EXCEPT !.parent[e] = to],
            InDocument(doc, e) \/ (to # 0 /\ InDocument(doc, to)))
  /\ UNCHANGED <<unseen, overwritten>>

\* textContent = "..." replaces the text node, data = "..." changes it.
Write(e, w, inPlace) ==
  /\ Change([doc EXCEPT !.words[e] = IF w \in @ THEN @ \ {w} ELSE @ \union {w}],
            ~inPlace /\ InDocument(doc, e))
  /\ unseen' = (unseen \/ inPlace)
  /\ UNCHANGED overwritten

PageChanges ==
  \E e \in Elements(doc) \ {Html} :
    \/ \E c \in PageClasses : ToggleClass(e, c) \/ SetClassName(e, c)
    \/ \E to \in Elements(doc) \union {0} : Move(e, to)
    \/ \E w \in Words, inPlace \in BOOLEAN : Write(e, w, inPlace)

EventLoop == Tick \/ Start \/ Loaded \/ Notified \/ TimerFires

EngineNext == EventLoop \/ Stop \/ PageChanges

\* When the event loop has something to do.
LoopHasWork ==
  phase = "parsed" \/ ready = "loading" \/ pending \/ timer \/ sinceRun < Delay

\* The browser's event loop goes on, and time passes: weak fairness of EventLoop,
\* which is enabled exactly when it has work (TLC finds that slowly by itself).
EngineFairness == []<>~LoopHasWork \/ []<><<EventLoop>>_cssVars

\* A page with the engine alone.
EngineSpec == EngineInit /\ [][EngineNext]_cssVars /\ EngineFairness

-----------------------------------------------------------------------------
\* Properties.

Quiet == phase = "running" /\ ~pending /\ ~timer

\* The classes that the rules give an element of this document.
Deserved(e) ==
  IF e \in Foreign THEN {}
  ELSE {rules[i].class : i \in {k \in DOMAIN rules : e \in Found(doc, rules[k].query)}}

\* When nothing is under way, every element has the engine's classes that the
\* rules give it and no others, two rules that share a class included: however
\* the page's changes fell between the runs, the throttle and the load.  Left
\* out: what changes without the observer being told, and an element whose
\* attribute class the page has set as a whole.
QuietMeansRight ==
  Quiet /\ ~unseen =>
    \A e \in Elements(doc) \ overwritten : doc.classes[e] \intersect EngineClasses = Deserved(e)

\* A document without what is no part of the page: the elements outside of it,
\* and the engine's own classes.
PageSide(d) ==
  LET Inside(e) == InDocument(d, e) IN
  [parent  |-> [e \in Elements(d) |-> IF Inside(e) THEN d.parent[e] ELSE 0],
   classes |-> [e \in Elements(d) |-> IF Inside(e) THEN d.classes[e] \ EngineClasses ELSE {}],
   words   |-> [e \in Elements(d) |-> IF Inside(e) THEN d.words[e] ELSE {}],
   path    |-> d.path]

\* What a rule finds depends on the page alone: not on what the page has taken
\* out of its document, of which the observer hears nothing, and not on what the
\* engine has done to it, from which it looks away.  (A rule that asks for the
\* property display with :matches-css() would find its own effects.)
RulesSeeThePage ==
  \A i \in DOMAIN rules : Found(doc, rules[i].query) = Found(PageSide(doc), rules[i].query)

\* When the page is done, the engine comes to rest: its own classes do not wake
\* it for ever, and the throttle does not stay armed.
EngineSettles == <>[](phase \in {"parsed", "running"} => Quiet)

=============================================================================
