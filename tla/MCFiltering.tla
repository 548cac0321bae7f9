----------------------------- MODULE MCFiltering -----------------------------
\* Filtering with a few addresses, patterns and rules.
EXTENDS Filtering

CONSTANTS own, list, t1, t2

TwoLists == {own, list}

PageText ==
  [p |-> <<"h", ":", "/", "/", "a", ".", "b", "/", "x">>,
   r |-> <<"h", ":", "/", "/", "b", ".", "a", "/", "a", "b", "b", "x", "/", "/">>]
PageHost == [p |-> "a.b", r |-> "b.a"]

Click == [dest |-> "document", user |-> TRUE, navigate |-> TRUE, site |-> "cross-site",
          referer |-> "c", method |-> "GET"]
Script == [dest |-> "script", user |-> FALSE, navigate |-> FALSE, site |-> "same-site",
           referer |-> "a.b", method |-> "GET"]
\* A page that sets its location: the browser sends no Sec-Fetch-User.
Jump == [Click EXCEPT !.user = FALSE, !.site = "same-site", !.referer = ""]

ThreeHeaders == {Click, Script, Jump}

Is(kind, of) == [kind |-> kind, of |-> of, inverted |-> FALSE]
IsNot(kind, of) == [Is(kind, of) EXCEPT !.inverted = TRUE]

Patterns ==
  {<<"a">>, <<"a", "b">>, <<"a", "*", "b">>, <<"a", "*", "b", "x">>, <<"a", "*">>,
   <<"a", "*", "^">>, <<"a", "^">>, <<"^", "a">>, <<"||", "a">>, <<"||", "a", ".", "b", "^">>,
   <<"|", "h", "^">>, <<"x", "|">>, <<"x", "^">>, <<"b", "^", "x">>, <<"h", "^", "b">>,
   <<"b", "x", "^", "|">>}

ParamNames == <<"q", "u">>
Page == <<"||", "a", ".", "b", "^">>
Generic == BareRule(<<>>)

Modified ==
  {[BareRule(Page) EXCEPT !.document = TRUE],
   [BareRule(Page) EXCEPT !.document = TRUE, !.important = TRUE],
   [BareRule(<<"/", "x">>) EXCEPT !.all = TRUE, !.conditions = {Is("third-party", {})}],
   [BareRule(<<"b", "/">>) EXCEPT !.conditions = {IsNot("domain", {"c"})}],
   [Generic EXCEPT !.regexp = {"p"}, !.document = TRUE],
   [BareRule(Page) EXCEPT !.exception = TRUE],
   [BareRule(Page) EXCEPT !.types = {Is("script", {}), Is("other", {})}],
   [Generic EXCEPT !.params = {[kind |-> "exact", of |-> {"q"}]}],
   [BareRule(Page) EXCEPT !.params = {[kind |-> "inverse", of |-> {"q"}]}],
   [BareRule(<<"u">>) EXCEPT !.params = {[kind |-> "generic", of |-> {}]}],
   [Generic EXCEPT !.exception = TRUE, !.params = {[kind |-> "exact", of |-> {"q"}]}]}

\* Three rules, one of them the user's.
Split3(rules) ==
  LET rule == CHOOSE r \in rules : TRUE IN
  own :> <<rule>> @@ list :> SetToSeq(rules \ {rule})

\* Rules that only remove a header: what is at stake is the tree they are in.
Removing(pattern) == [BareRule(pattern) EXCEPT !.actions = {"referer"}]

PatternBuilds == {Split3({Removing(p) : p \in three}) : three \in kSubset(3, Patterns)}
ModifierBuilds == {Split3(three) : three \in kSubset(3, Modified)}
\* A rule that both lists have.
SharedBuilds == {own :> <<rule>> @@ list :> <<rule>> : rule \in Modified}

AllBuilds == PatternBuilds \union ModifierBuilds \union SharedBuilds

GenericRules ==
  {own :> <<[Generic EXCEPT !.params = {[kind |-> "exact", of |-> {"q"}]}]>> @@
   list :> <<[Generic EXCEPT !.params = {[kind |-> "exact", of |-> {"u"}]}]>>}
=============================================================================
