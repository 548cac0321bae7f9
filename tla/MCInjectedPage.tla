-------------------------- MODULE MCInjectedPage --------------------------
\* Pages with requests, with traps, with values for json-prune, and with rules
\* for their elements.
EXTENDS InjectedPage

\* Requests.
Ads == [json |-> TRUE, value |-> Object(("ad" :> Plain) @@ ("b" :> Plain))]
Text == [json |-> FALSE, value |-> Plain]
TwoBodies == {Ads, Text}
RemovedPaths == <<<<"ad">>>>
PrunedOfAds(v) == Prune(v, RemovedPaths, {})

\* Traps: the window's a may be inherited, an object o, whose b may be p.
Page(a, inherited, b, c) ==
  [o \in Objects \union {"prototype"} |-> [n \in Keys |->
    CASE o = "window" /\ n = "a" -> a
      [] o = "prototype" /\ n = "a" -> inherited
      [] o = "o" /\ n = "b" -> b
      [] o = "p" /\ n = "a" -> c
      [] OTHER -> Absent]]

AnO == Data(Value("o"))
AP == Data(Value("p"))
ANumber == Data(Number)

SomePages ==
  {Page(Absent, Absent, Absent, Absent), Page(ANumber, Absent, Absent, Absent),
   Page(Absent, AnO, ANumber, Absent), Page(AnO, Absent, Absent, Absent),
   Page(AnO, Absent, AP, Absent), Page(AnO, Absent, AP, ANumber)}

Scriptlet(name, path) == [name |-> name, path |-> path]
Aborting == {"abort-on-property-read", "abort-on-property-write",
             "abort-current-inline-script", "abort-on-stack-trace"}
Setting == {"set-constant", "set-constant with a stack"}
ThreePaths == {<<"a">>, <<"a", "b">>, <<"a", "b", "a">>}

OneOrTwo ==
  {<<Scriptlet(n, p)>> : n \in Aborting \union Setting, p \in ThreePaths} \union
  {<<Scriptlet(n, p), Scriptlet(m, q)>> :
    n \in {"abort-on-property-write", "set-constant"}, p \in ThreePaths,
    m \in {"abort-current-inline-script", "set-constant with a stack"}, q \in ThreePaths}

\* Values and paths of json-prune.
Leaves == {Plain, Null, Object(<<>>)}
Rows == {Object("x" :> v) : v \in Leaves} \union {Array(("0" :> v) @@ ("1" :> Object("x" :> w))) : v, w \in Leaves}
Tables == {Object(("x" :> v) @@ ("y" :> w)) : v, w \in Rows} \union {Array("0" :> v) : v \in Rows}
SomeValues == Tables \union {Object("y" :> v) : v \in Tables}
SomePaths == UNION {[1 .. n -> {"x", "y", "*", "[]"}] : n \in 1 .. 3}

-----------------------------------------------------------------------------
\* Elements: a page of four, with rules that hide and one that styles; and pages
\* without an engine, for what selectors mean.

A == Class("a")
B == Class("b")
W == Item("contains", "w")

Hide(s) == [kind |-> "hide", list |-> <<s>>]

\* Two rules that share the class, one that is refused and one that styles.
FourRules ==
  <<Hide(<<A, W>>),
    Hide(<<B, Item("has", <<<<Comb(">"), A>>>>)>>),
    Hide(<<A, Comb(">")>>),
    [kind |-> "style", list |-> <<<<A, W, Item("upward", 1)>>>>]>>

Doc(parent, classes, words) == [parent |-> parent, classes |-> classes, words |-> words, path |-> "p"]

OneDocument == {Doc(<<0, 1, 2, 2>>, <<{}, {"b"}, {"a"}, {"b"}>>, <<{}, {}, {"w"}, {}>>)}

OneBrowser == {{"has"}}

\* Three elements below <html>, in every tree, with at most one class and word.
AllDocuments ==
  {Doc(<<0, 1>> \o up, <<{}>> \o classes, <<{}>> \o words) :
     up \in (1 .. 2) \X (1 .. 3), classes \in [1 .. 3 -> {{}, {"a"}, {"b"}}], words \in [1 .. 3 -> {{}, {"w"}}]}

Has(s) == Item("has", <<s>>)
Is(s) == Item("is", <<s>>)
Not(s) == Item("not", <<s>>)
Upward(n) == Item("upward", n)
Long(n) == Item("min-text-length", n)
Attr(whole) == Item("matches-attr", [class |-> "a", whole |-> whole])
Path(p) == Item("matches-path", p)
In == Comb(" ")
Child == Comb(">")
Next1 == Comb("+")
Later == Comb("~")

One(s) == <<s>>

\* Every way of joining two and three parts, and every pseudo-class.
Combs == <<In, Child, Next1, Later>>
Pairs == FlattenSeq([i \in 1 .. 4 |-> [k \in 1 .. 4 |-> <<Combs[i], Combs[k]>>]])
JoinedForms ==
  [i \in 1 .. 4 |-> One(<<A, W, Combs[i], B>>)] \o [i \in 1 .. 4 |-> One(<<A, Combs[i], W>>)]
    \o [i \in 1 .. 16 |-> One(<<A, Pairs[i][1], B, Pairs[i][2], W>>)]
    \o [i \in 1 .. 16 |-> One(<<A, W, Pairs[i][1], B, Pairs[i][2], A>>)]
    \o [i \in 1 .. 16 |-> One(<<A, Has(<<Pairs[i][1], B, Pairs[i][2], A, W>>)>>)]
PseudoForms ==
  <<One(<<B, Has(<<A>>), Child, B>>), One(<<A, Has(<<B, W>>)>>), One(<<A, Is(<<B, Child, A, W>>)>>),
   One(<<W, Not(<<A>>)>>), One(<<A, Not(<<B, In, A>>)>>), One(<<A, W, In, Not(<<B, W>>)>>),
   One(<<A, Upward(1), Later, B>>), One(<<W, Upward(2), Child, A>>), One(<<Upward(1), Next1, Upward(1)>>),
   One(<<Long(2), Attr(TRUE)>>), One(<<Attr(FALSE), Child, Long(1)>>),
   One(<<Path("p"), In, A>>), One(<<Path("q"), In, A>>), One(<<A, Path("p"), W>>),
   One(<<A, Item("matches-css", "none")>>), One(<<A, Item("matches-css", "block"), Child, B>>),
   <<<<A, W>>, <<B>>>>, One(<<Has(<<A, Not(<<B>>)>>)>>), One(<<A, Item("is", <<<<B>>, <<A, W>>>>)>>)>>
AllForms == JoinedForms \o PseudoForms
=============================================================================
