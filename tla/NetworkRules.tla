---------------------------- MODULE NetworkRules ----------------------------
(***************************************************************************)
(* internal/networkrules: rules with their modifiers, the stores they are  *)
(* kept in, which rules match a request, which exceptions cancel them, and *)
(* what becomes of the request.                                            *)
(*                                                                         *)
(* A rule is [exception, pattern, regexp, conditions, types, actions,      *)
(* params, document, important, all].  Its pattern is a sequence of        *)
(* tokens, empty for a rule of every address; regexp is the set of pages   *)
(* that a regular expression matches, empty for a rule without one.        *)
(* A request is [page, params, as], as being its headers and method:       *)
(* [dest, user, navigate, site, referer, method].                          *)
(***************************************************************************)
EXTENDS RuleTree

CONSTANTS
  Text,        \* Text[page]: its address as a sequence of characters
  Host,        \* Host[page]: the name of its host
  ParamOrder   \* the query parameters, a character each, as Encode sorts them

\* A rule that consists of a pattern.
BareRule(pattern) ==
  [exception |-> FALSE, pattern |-> pattern, regexp |-> {}, conditions |-> {}, types |-> {},
   actions |-> {}, params |-> {}, document |-> FALSE, important |-> FALSE, all |-> FALSE]

\* renderURLWithoutPort
Address(page, params) ==
  Text[page] \o FoldLeft(LAMBDA q, p : q \o <<IF q = <<>> THEN "?" ELSE "&", p>>, <<>>,
                         SelectSeq(ParamOrder, LAMBDA p : p \in params))

-----------------------------------------------------------------------------
\* Stores.

NewStore == [generic |-> {}, regexp |-> {}, tree |-> NewTree]

Place(rule) ==
  IF rule.regexp # {} THEN "regexp" ELSE IF rule.pattern = <<>> THEN "generic" ELSE "tree"

\* What a place holds once the rule is in it.
With(held, rule) ==
  IF Place(rule) = "tree" THEN Insert(held, rule.pattern, rule) ELSE held \union {rule}

\* Faulty: regular expressions are only tried when the tree has nothing.
CandidatesEarly(store, found, req) ==
  store.generic \union
  IF found # {} THEN found ELSE {rule \in store.regexp : req.page \in rule.regexp}

\* The rules of a store for a request, found being those of its tree.
Candidates(store, found, req) ==
  store.generic \union found \union {rule \in store.regexp : req.page \in rule.regexp}

-----------------------------------------------------------------------------
\* Modifiers.  A condition or type is [kind, of, inverted].

\* secFetchDestMap
ContentTypes ==
  [empty |-> "xmlhttprequest", font |-> "font", frame |-> "subdocument",
   iframe |-> "subdocument", image |-> "image", object |-> "object", script |-> "script",
   style |-> "stylesheet", audio |-> "media", track |-> "media", video |-> "media",
   websocket |-> "websocket"]

Inverted(m, matches) == matches # m.inverted

\* The host of the Referer, or without one that of the request; of is the set
\* of hosts that an entry of the modifier matches.
DomainMatches(m, req) ==
  Inverted(m, (IF req.as.referer = "" THEN Host[req.page] ELSE req.as.referer) \in m.of)

MethodMatches(m, req) == Inverted(m, req.as.method \in m.of)

ThirdPartyMatches(m, req) ==
  /\ req.as.site \in {"cross-site", "same-origin", "same-site"}
  /\ Inverted(m, req.as.site = "cross-site")

\* $header looks at responses only.
ConditionMatches(m, req) ==
  \/ m.kind = "domain" /\ DomainMatches(m, req)
  \/ m.kind = "method" /\ MethodMatches(m, req)
  \/ m.kind = "third-party" /\ ThirdPartyMatches(m, req)

\* Without Sec-Fetch-Dest no type matches.  (Pings and web sockets, which are
\* told by other headers, are left out.)
TypeMatches(m, req) ==
  LET known == req.as.dest \in DOMAIN ContentTypes IN
  /\ req.as.dest # ""
  /\ Inverted(m, IF m.kind = "other" THEN ~known
                 ELSE known /\ ContentTypes[req.as.dest] = m.kind)

ModifiersMatchReq(rule, req) ==
  /\ \A m \in rule.conditions : ConditionMatches(m, req)
  /\ rule.types # {} => \E m \in rule.types : TypeMatches(m, req)

\* Only $document and $all block where the user goes.
ShouldMatchReq(rule, req) ==
  /\ req.as.user /\ req.as.dest = "document" /\ ~rule.exception => rule.document \/ rule.all
  /\ ModifiersMatchReq(rule, req)

\* Faulty: an exception's $important is not looked at.
CancelsUnlessImportant(exception, rule) ==
  /\ ~rule.important
  /\ exception.document => rule.document \/ rule.all
  /\ exception.conditions \subseteq rule.conditions
  /\ exception.types # {} => exception.types \intersect rule.types # {}
  /\ exception.actions \subseteq rule.actions
  /\ exception.params \subseteq rule.params

\* A modifier cancels the one that is equal to it.
Cancels(exception, rule) ==
  /\ rule.important => exception.important
  /\ exception.document => rule.document \/ rule.all
  /\ exception.conditions \subseteq rule.conditions
  /\ exception.types # {} => exception.types \intersect rule.types # {}
  /\ exception.actions \subseteq rule.actions
  /\ exception.params \subseteq rule.params

-----------------------------------------------------------------------------
\* Requests.

ShouldBlockReq(rule) == rule.actions = {} /\ rule.params = {}

\* What a $removeparam [kind, of] takes out of a query.
Removed(m, params) ==
  CASE m.kind = "generic" -> params
    [] m.kind = "exact" -> params \intersect m.of
    [] m.kind = "inverse" -> params \ m.of

\* What is left of the query after the rules' removals, which commute.
Left(rules, params) == params \ UNION {Removed(m, params) : m \in UNION {r.params : r \in rules}}

\* Get returns generic rules before those of the tree, and regular expressions
\* last.
Rank == [generic |-> 1, tree |-> 2, regexp |-> 3]

Foremost(rules) ==
  {rule \in rules : \A other \in rules : Rank[Place(rule)] <= Rank[Place(other)]}

\* What ModifyReq may return when these rules and exceptions match.  The tree's
\* are iterated in no order: any of them may be the first that blocks.  (What
\* $removeheader takes out of a request is left out: all matching is done
\* before.)
ModifyReq(rules, exceptions, req) ==
  LET live == {rule \in rules : ~\E ex \in exceptions : Cancels(ex, rule)}
      blocking == {rule \in live : ShouldBlockReq(rule)}
      left == Left(live, req.params) IN
  CASE blocking # {} -> {[kind |-> "block", rule |-> rule] : rule \in Foremost(blocking)}
    [] blocking = {} /\ left # req.params -> {[kind |-> "redirect", params |-> left]}
    [] OTHER -> {[kind |-> "pass"]}

IsUserNavigation(req) == req.as.dest = "document" /\ (req.as.navigate \/ req.as.user)
=============================================================================
