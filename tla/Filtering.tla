------------------------------ MODULE Filtering ------------------------------
(***************************************************************************)
(* The filter from its lists to the pages it lets through: lists are       *)
(* parsed at the same time, each by its goroutine (populateFilter), the    *)
(* proxy then asks HandleRequest about every request, and a block page     *)
(* leads to the allowlist server, which adds an exception while requests   *)
(* are being handled.                                                      *)
(***************************************************************************)
EXTENDS NetworkRules

CONSTANTS
  Lists,     \* the enabled lists and the user's rules
  Builds,    \* functions from Lists to the sequences of their rules
  Pages,     \* pages that are asked for
  Headers,   \* the headers and methods they are asked for with
  Queries,   \* sets of query parameters
  Tabs,      \* tabs of the browser
  NoRule

ASSUME FilteringAssumption ==
  /\ Lists \intersect Tabs = {}
  /\ Pages \subseteq DOMAIN Text /\ DOMAIN Host = DOMAIN Text
  /\ \A params \in Queries : params \subseteq ToSet(ParamOrder)

VARIABLES
  todo,       \* todo[l]: the rules of a list that are still to be parsed
  seen,       \* seenRules
  adding,     \* adding[a]: the rule that a list or a tab is inserting, with
              \* what its place in the store held when that began
  primary, exceptions,   \* the stores
  tabs,       \* tabs[t]: [phase, req, rule], the rule it was blocked by
  allowed     \* history: the rules whose exceptions were added

vars == <<todo, seen, adding, primary, exceptions, tabs, allowed>>
parseVars == <<todo, seen>>
storeVars == <<primary, exceptions>>

Requests == [page : Pages, params : Queries, as : Headers]
NotAdding == [rule |-> NoRule, held |-> NoRule]
Idle == [phase |-> "idle", req |-> NoRule, rule |-> NoRule]
Ended == {"shown", "blocked", "refused"}

Init ==
  /\ todo \in Builds
  /\ seen = {}
  /\ adding = [a \in Lists \union Tabs |-> NotAdding]
  /\ primary = NewStore
  /\ exceptions = NewStore
  /\ tabs = [t \in Tabs |-> Idle]
  /\ allowed = {}

\* populateFilter has returned, and the proxy handles requests.
Running == \A l \in Lists : todo[l] = <<>> /\ adding[l] = NotAdding

-----------------------------------------------------------------------------
\* ParseRule, down to the insertion into a store.

StoreOf(rule) == IF rule.exception THEN exceptions ELSE primary

\* insertMu of the tree of a store; nothing guards the slices.
Locked(exception) ==
  \E a \in DOMAIN adding : /\ adding[a] # NotAdding
                           /\ Place(adding[a].rule) = "tree"
                           /\ adding[a].rule.exception = exception

\* append(s.generic, v) and append(s.regexp, v) read the slice that they
\* replace.
BeginInsert(a, rule) ==
  /\ adding[a] = NotAdding
  /\ Place(rule) = "tree" => ~Locked(rule.exception)
  /\ adding' = [adding EXCEPT ![a] = [rule |-> rule, held |-> StoreOf(rule)[Place(rule)]]]

EndInsert(a) ==
  LET rule == adding[a].rule
      Done(store) == [store EXCEPT ![Place(rule)] = With(adding[a].held, rule)] IN
  /\ adding[a] # NotAdding
  /\ adding' = [adding EXCEPT ![a] = NotAdding]
  /\ IF rule.exception THEN exceptions' = Done(exceptions) /\ UNCHANGED primary
                       ELSE primary' = Done(primary) /\ UNCHANGED exceptions

-----------------------------------------------------------------------------
\* Parsing the lists.

\* markSeen: a rule that another list supplied is skipped.
SkipSeen(l) ==
  /\ adding[l] = NotAdding /\ todo[l] # <<>>
  /\ Head(todo[l]) \in seen
  /\ todo' = [todo EXCEPT ![l] = Tail(@)]
  /\ UNCHANGED <<seen, adding, storeVars, tabs, allowed>>

AddRule(l) ==
  /\ todo[l] # <<>> /\ Head(todo[l]) \notin seen
  /\ BeginInsert(l, Head(todo[l]))
  /\ seen' = seen \union {Head(todo[l])}
  /\ todo' = [todo EXCEPT ![l] = Tail(@)]
  /\ UNCHANGED <<storeVars, tabs, allowed>>

RuleAdded(l) ==
  /\ EndInsert(l)
  /\ UNCHANGED <<parseVars, tabs, allowed>>

-----------------------------------------------------------------------------
\* Requests.

Navigate(t) ==
  /\ Running
  /\ tabs[t].phase \in Ended \union {"idle"}
  /\ \E req \in Requests :
       tabs' = [tabs EXCEPT ![t] = [Idle EXCEPT !.phase = "requested", !.req = req]]
  /\ UNCHANGED <<parseVars, adding, storeVars, allowed>>

\* What Get may find in a tree: all of it that matches, or any part of that
\* while an insertion moves nodes, which no lock keeps from Get.
FoundIn(store, exception, req) ==
  LET all == Get(store.tree, Address(req.page, req.params)) IN
  IF Locked(exception) THEN SUBSET all ELSE {all}

Matching(store, found, req) ==
  {rule \in Candidates(store, found, req) : ShouldMatchReq(rule, req)}

\* HandleRequest: a block page only for what the user navigates to.
HandleRequest(t) ==
  LET req == tabs[t].req IN
  /\ tabs[t].phase = "requested"
  /\ \E rules \in FoundIn(primary, FALSE, req), excepting \in FoundIn(exceptions, TRUE, req) :
     \E outcome \in ModifyReq(Matching(primary, rules, req),
                              Matching(exceptions, excepting, req), req) :
       tabs' = [tabs EXCEPT ![t] =
         CASE outcome.kind = "pass" -> [@ EXCEPT !.phase = "shown"]
           [] outcome.kind = "redirect" ->
                [@ EXCEPT !.phase = "redirected", !.req.params = outcome.params]
           [] outcome.kind = "block" ->
                [@ EXCEPT !.phase = IF IsUserNavigation(req) THEN "blocked" ELSE "refused",
                          !.rule = outcome.rule]]
  /\ UNCHANGED <<parseVars, adding, storeVars, allowed>>

\* The browser follows the temporary redirect.
FollowRedirect(t) ==
  /\ tabs[t].phase = "redirected"
  /\ tabs' = [tabs EXCEPT ![t].phase = "requested"]
  /\ UNCHANGED <<parseVars, adding, storeVars, allowed>>

-----------------------------------------------------------------------------
\* The allowlist.

\* "@@" and the text of the rule.
ExceptionTo(rule) == [rule EXCEPT !.exception = TRUE]

\* handleAllow, up to its ParseRule.  The user follows one link at a time.
AllowRule(t) ==
  /\ tabs[t].phase = "blocked"
  /\ \A other \in Tabs : adding[other] = NotAdding
  /\ BeginInsert(t, ExceptionTo(tabs[t].rule))
  /\ tabs' = [tabs EXCEPT ![t].phase = "allowing"]
  /\ UNCHANGED <<parseVars, storeVars, allowed>>

\* A rule of more than 2048 bytes is answered with an error.
AllowRefused(t) ==
  /\ tabs[t].phase = "blocked"
  /\ tabs' = [tabs EXCEPT ![t].phase = "refused"]
  /\ UNCHANGED <<parseVars, adding, storeVars, allowed>>

\* The redirect back to the page; how the browser asks for it then differs.
RuleAllowed(t) ==
  /\ tabs[t].phase = "allowing"
  /\ EndInsert(t)
  /\ allowed' = allowed \union {tabs[t].rule}
  /\ \E headers \in Headers :
       tabs' = [tabs EXCEPT ![t] = [@ EXCEPT !.phase = "requested", !.req.as = headers,
                                             !.rule = NoRule]]
  /\ UNCHANGED parseVars

-----------------------------------------------------------------------------
Next ==
  \/ \E l \in Lists : SkipSeen(l) \/ AddRule(l) \/ RuleAdded(l)
  \/ \E t \in Tabs : \/ Navigate(t)
                     \/ HandleRequest(t)
                     \/ FollowRedirect(t)
                     \/ AllowRule(t)
                     \/ AllowRefused(t)
                     \/ RuleAllowed(t)

Spec == Init /\ [][Next]_vars

-----------------------------------------------------------------------------
\* Properties.

Inserted == seen \union {ExceptionTo(rule) : rule \in allowed}

FoundAlone(rule, url) == rule \in Get(Insert(NewTree, rule.pattern, rule), url)

\* What an address matches is decided by each pattern alone, whatever else is
\* in the tree and however its nodes were split: a pattern that ends in a
\* character is found where it means the address, one that ends in a token at
\* least where it is found on its own and at most where it means the address.
Decides(store, rule, url) ==
  LET found == rule \in Get(store.tree, url) IN
  /\ found => Means(rule.pattern, url)
  /\ FoundAlone(rule, url) => found
  /\ Last(rule.pattern) \notin Special \union {"||"} /\ Means(rule.pattern, url) => found

PatternsDecide ==
  [][storeVars' # storeVars =>
       \A rule \in Inserted', page \in DOMAIN Text, params \in Queries \union {{}} :
         Place(rule) = "tree" /\ (\A a \in DOMAIN adding : adding'[a].rule # rule)
           => Decides(StoreOf(rule)', rule, Address(page, params))]_vars

\* Whether a request is blocked follows from the rules of the lists and the
\* exceptions of the user, and from nothing else: no rule is lost in a store,
\* none shadows another, and the order in which they were parsed is no matter.
Applies(rule, req) ==
  /\ CASE Place(rule) = "generic" -> TRUE
       [] Place(rule) = "regexp" -> req.page \in rule.regexp
       [] Place(rule) = "tree" -> FoundAlone(rule, Address(req.page, req.params))
  /\ ShouldMatchReq(rule, req)

ToBeBlocked(req) ==
  LET applying == {rule \in Inserted : Applies(rule, req)} IN
  \E rule \in applying : /\ ~rule.exception
                         /\ ShouldBlockReq(rule)
                         /\ \A ex \in applying : ex.exception => ~Cancels(ex, rule)

Answered(t) == tabs[t].phase = "requested" /\ tabs'[t].phase # "requested"
Undisturbed == \A a \in DOMAIN adding : adding[a] = NotAdding

ListsDecide ==
  [][\A t \in Tabs : Answered(t) /\ Undisturbed
       => (tabs'[t].phase \in {"blocked", "refused"} <=> ToBeBlocked(tabs[t].req))]_vars

\* A rule that the user has allowed blocks nothing any more, wherever and with
\* whatever modifiers it is matched, unless an insertion is under way.
AllowedNeverBlocks ==
  [][\A t \in Tabs : Answered(t) /\ Undisturbed => tabs'[t].rule \notin allowed]_vars

\* populateFilter "fills f with every enabled filter list plus the user's own
\* rules": when it has returned, each rule that was parsed is in its store.
EveryRuleKept ==
  Running => \A rule \in seen :
               Place(rule) # "tree" => rule \in StoreOf(rule)[Place(rule)]
=============================================================================
