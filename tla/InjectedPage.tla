---------------------------- MODULE InjectedPage ----------------------------
(***************************************************************************)
(* A page with the JavaScript that Zen injects: the scriptlets of          *)
(* jslibs/scriptlets that trap properties (PropertyTraps), those that      *)
(* handle requests (PageRequests), json-prune on values of its own         *)
(* (JsonPrune), the engine of jslibs/extended-css (ExtendedCss), and its   *)
(* selectors on documents of their own (Selectors).  They share nothing,   *)
(* so that a behaviour shows the page with one of them.                    *)
(***************************************************************************)
EXTENDS JsonPrune, PageRequests, PropertyTraps, Selectors, ExtendedCss

CONSTANTS
  Removed, Required,   \* arguments of json-prune on responses: paths
  Values, PrunePaths,  \* what a page parses, and paths of json-prune
  Forms, Samples       \* lists of selectors, and documents to try them on

\* The engine parses and finds as Selectors does.
ASSUME SelectorsAssumption ==
  \A known \in Browsers : \A i \in DOMAIN Rules : LET list == Rules[i].list IN
    /\ Unparsable(known, list) = Refused(known, list)
    /\ ~Refused(known, list) =>
         LET query == ParseSelectorList(known, list) IN
         /\ ParsedList(known, list) = query
         /\ \A d \in Documents : Found(d, query) = SearchDocument(d, query)

ASSUME PruneAssumption == \A b \in Bodies : Pruned(b.value) = Prune(b.value, Removed, Required)

VARIABLES
  subject,  \* what is injected
  parsed    \* a value and a path

vars == <<subject, parsed, requestVars, trapVars, cssVars>>

AnyParsed == CHOOSE s \in Values \X PrunePaths : TRUE
NoElements == NoEngine(CHOOSE d \in Documents : TRUE, {})

NoTraps ==
  /\ scriptlets = <<>> /\ fake = Value("fake") /\ writes = 0
  /\ heap = (CHOOSE h \in Pages : TRUE) /\ plain = heap

Init ==
  \/ /\ subject = "requests" /\ parsed = AnyParsed
     /\ RequestsInit /\ NoTraps /\ NoElements
  \/ /\ subject = "traps" /\ parsed = AnyParsed
     /\ NoRequests /\ TrapsInit /\ NoElements
  \/ /\ subject = "values" /\ parsed \in Values \X PrunePaths
     /\ NoRequests /\ NoTraps /\ NoElements
  \/ /\ subject = "elements" /\ parsed = AnyParsed
     /\ NoRequests /\ NoTraps /\ EngineInit
  \/ /\ subject = "selectors" /\ parsed = AnyParsed
     /\ NoRequests /\ NoTraps
     /\ \E d \in Samples, known \in {{}, Nesting} : NoEngine(d, known)

Next ==
  /\ UNCHANGED <<subject, parsed>>
  /\ \/ subject = "requests" /\ RequestsNext /\ UNCHANGED <<trapVars, cssVars>>
     \/ subject = "traps" /\ TrapsNext /\ UNCHANGED <<requestVars, cssVars>>
     \/ subject = "elements" /\ EngineNext /\ UNCHANGED <<requestVars, trapVars>>

Spec == Init /\ [][Next]_vars /\ RequestsFairness /\ EngineFairness

\* json-prune removes from a value the properties that a path names, at every
\* depth and in every array, and nothing else; and it takes a required path for
\* present when it names something.  (MatchesExactly says nothing of a required
\* path that ends in "*".)
PrunesWhatIsNamed ==
  subject = "values" => RemovesExactly(parsed[1], parsed[2]) /\ MatchesExactly(parsed[1], parsed[2])

\* What the steps planned for a selector find is what it means on the page:
\* whatever the browser evaluates itself and however raw runs are merged and
\* bridged, they agree with the meaning; and while the engine works on the
\* document, they find what they would without its classes (RulesSeeThePage).
\* (Agrees says nothing of the selectors that are not Canonical, as those with a
\* run of plain CSS behind an extended pseudo-class: of these the engine may find
\* more, or less, than they mean.)
SelectorsMean ==
  /\ subject = "selectors" => \A i \in DOMAIN Forms : Agrees(doc, native, Forms[i])
  /\ subject = "elements" => RulesSeeThePage

=============================================================================
