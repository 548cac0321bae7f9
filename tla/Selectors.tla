----------------------------- MODULE Selectors -----------------------------
(***************************************************************************)
(* jslibs/extended-css: how the text of a rule becomes the steps that find *)
(* elements.  A selector is a sequence of items: a simple selector of the  *)
(* browser, a combinator, or a pseudo-class with its argument (for has, is *)
(* and not a list of selectors).  Siblings are ordered by their number.    *)
(***************************************************************************)
EXTENDS PageElements, SequencesExt, FiniteSetsExt

Item(kind, of) == [is |-> kind, of |-> of]
Class(c) == Item("class", c)
AnyElement == Item("any", "")
Scope == Item("scope", "")
\* A simple selector that the browser does not know.
Unknown == Item("unknown", "")
Comb(op) == Item("comb", op)

Nesting == {"has", "is", "not"}
ExtPseudoClasses ==
  Nesting \union {"contains", "matches-css", "matches-path", "matches-attr",
                  "min-text-length", "upward"}

-----------------------------------------------------------------------------
\* The document, as the DOM's own operations see it.

RECURSIVE Ancestors(_, _)
Ancestors(doc, e) ==
  IF doc.parent[e] = 0 THEN {} ELSE {doc.parent[e]} \union Ancestors(doc, doc.parent[e])

Descendants(doc, e) == {d \in Elements(doc) : e \in Ancestors(doc, d)}
Children(doc, e) == {d \in Elements(doc) : doc.parent[d] = e}

NextSiblings(doc, e) ==
  IF doc.parent[e] = 0 THEN {} ELSE {s \in Children(doc, doc.parent[e]) : s > e}
NextSibling(doc, e) == LET after == NextSiblings(doc, e) IN
  {s \in after : \A o \in after : s <= o}

\* The elements a combinator leads to.
Reached(doc, op, e) ==
  CASE op = " " -> Descendants(doc, e)
    [] op = ">" -> Children(doc, e)
    [] op = "+" -> NextSibling(doc, e)
    [] op = "~" -> NextSiblings(doc, e)

TextContent(doc, e) == UNION {doc.words[d] : d \in {e} \union Descendants(doc, e)}
TextLength(doc, e) ==
  MapThenSumSet(LAMBDA d : Cardinality(doc.words[d]), {e} \union Descendants(doc, e))

\* The element n levels up, if the document is that deep.
RECURSIVE Above(_, _, _)
Above(doc, e, n) ==
  IF n = 0 THEN {e} ELSE IF doc.parent[e] = 0 THEN {} ELSE Above(doc, doc.parent[e], n - 1)

-----------------------------------------------------------------------------
\* The pseudo-classes that look at one element at a time.

ContainsWord(doc, word, e) == word \in TextContent(doc, e)
MinTextLength(doc, n, e) == TextLength(doc, e) >= n
\* The value of the attribute class as a whole, or a pattern that finds a part.
MatchesAttr(doc, arg, e) ==
  IF arg.whole THEN doc.classes[e] = {arg.class} ELSE arg.class \in doc.classes[e]
\* The property display, which is what the rules themselves set.
MatchesCSS(doc, display, e) == (display = "none") = ("zenc_hide" \in doc.classes[e])
LocationMatches(doc, path) == doc.path = path

PassesFilter(doc, item, e) ==
  \/ item.is = "contains" /\ ContainsWord(doc, item.of, e)
  \/ item.is = "min-text-length" /\ MinTextLength(doc, item.of, e)
  \/ item.is = "matches-attr" /\ MatchesAttr(doc, item.of, e)
  \/ item.is = "matches-css" /\ MatchesCSS(doc, item.of, e)
  \/ item.is = "matches-path" /\ LocationMatches(doc, item.of)

-----------------------------------------------------------------------------
\* What a selector means, read from its last item: for the browser the ones
\* it knows, for the author of a rule all of them.

\* A relative selector starts at the element it is relative to; so does one that
\* starts with a condition on the page.
Anchored(sel) ==
  (IF Head(sel).is \in {"comb", "matches-path"} THEN <<Scope>> ELSE <<Scope, Comb(" ")>>) \o sel

RECURSIVE Means(_, _, _, _)
Means(doc, sel, scope, e) ==
  sel = <<>> \/
  LET item == Last(sel)
      Rest(d) == Means(doc, Front(sel), scope, d)
      IsOneOf(list) == \E i \in DOMAIN list : Means(doc, Anchored(list[i]), Html, e) IN
  \/ item.is = "comb" /\ \E d \in Elements(doc) : e \in Reached(doc, item.of, d) /\ Rest(d)
  \/ item.is = "upward" /\ \E d \in Elements(doc) : e \in Above(doc, d, item.of) /\ Rest(d)
  \/ item.is = "any" /\ Rest(e)
  \/ item.is = "scope" /\ e = scope /\ Rest(e)
  \/ item.is = "class" /\ item.of \in doc.classes[e] /\ Rest(e)
  \/ item.is = "is" /\ IsOneOf(item.of) /\ Rest(e)
  \/ item.is = "not" /\ ~IsOneOf(item.of) /\ Rest(e)
  \/ /\ item.is = "has"
     /\ \E i \in DOMAIN item.of, d \in Elements(doc) : Means(doc, Anchored(item.of[i]), e, d)
     /\ Rest(e)
  \/ PassesFilter(doc, item, e) /\ Rest(e)

Meaning(doc, list) ==
  {e \in Elements(doc) : \E i \in DOMAIN list : Means(doc, Anchored(list[i]), Html, e)}

-----------------------------------------------------------------------------
\* From items to tokens: what the browser can evaluate is left as it is.

RECURSIVE HasOnlyStandardArgs(_, _)
HasOnlyStandardArgs(native, item) ==
  \A i \in DOMAIN item.of : \A k \in DOMAIN item.of[i] : LET arg == item.of[i][k] IN
    arg.is \in ExtPseudoClasses => arg.is \in native /\ HasOnlyStandardArgs(native, arg)

IsRaw(native, item) ==
  \/ item.is \notin ExtPseudoClasses
  \/ item.is \in Nesting \intersect native /\ HasOnlyStandardArgs(native, item)

RawTok(css) == Item("raw", css)

\* Adjacent simple selectors are one token.
ParseTokens(native, sel) ==
  FoldLeft(LAMBDA toks, item :
             IF item.is = "comb" \/ ~IsRaw(native, item) THEN Append(toks, item)
             ELSE IF toks # <<>> /\ Last(toks).is = "raw"
                  THEN [toks EXCEPT ![Len(toks)].of = Append(@, item)]
                  ELSE Append(toks, RawTok(<<item>>)),
           <<>>, sel)

-----------------------------------------------------------------------------
\* From tokens to steps.

RawQuery(css) == Item("query", css)
RawMatches(css) == Item("matches", css)

\* matches-path is the one that works on whatever it is given.
RequiresContext(tok) == tok.is \in ExtPseudoClasses \ {"matches-path"}

\* A combinator at the end or before another one.
Dangling(toks) ==
  \E i \in DOMAIN toks : toks[i].is = "comb" /\ (i = Len(toks) \/ toks[i + 1].is = "comb")

\* A relative selector: every token is a step of its own.
RelativePlan(toks) == [i \in DOMAIN toks |-> IF toks[i].is = "raw" THEN RawMatches(toks[i].of) ELSE toks[i]]

FlushRaw(b) == IF b.css = <<>> THEN b ELSE [steps |-> Append(b.steps, RawQuery(b.css)), css |-> <<>>]

Emit(b, step) == [b EXCEPT !.steps = Append(@, step)]

EmitExt(b, tok) ==
  Emit(IF RequiresContext(tok) /\ b.steps = <<>> THEN Emit(b, RawQuery(<<AnyElement>>)) ELSE b, tok)

\* Faulty: the browser is asked for the children by a plain descendant query.
UnscopedBridge(b, tok, next) ==
  IF next.is # "raw" THEN Emit(FlushRaw(b), tok)
  ELSE IF b.css # <<>> THEN [b EXCEPT !.css = Append(@, tok)]
  ELSE IF tok.of \in {" ", ">"} THEN b
  ELSE Emit(b, tok)

\* Between two raw runs the browser does the combinator, if it can.
Bridge(b, tok, next) ==
  IF next.is # "raw" THEN Emit(FlushRaw(b), tok)
  ELSE IF b.css # <<>> THEN [b EXCEPT !.css = Append(@, tok)]
  ELSE IF tok.of = " " THEN b
  ELSE IF tok.of = ">" THEN [b EXCEPT !.css = <<Scope, tok>>]
  ELSE Emit(b, tok)

\* Adjacent raw runs become one query of the browser.
DefaultPlan(toks) ==
  FlushRaw(FoldLeftDomain(LAMBDA b, i : LET tok == toks[i] IN
      CASE tok.is = "comb" -> Bridge(b, tok, toks[i + 1])
        [] tok.is \in ExtPseudoClasses -> EmitExt(FlushRaw(b), tok)
        [] tok.is = "raw" -> IF b.steps # <<>> /\ Last(b.steps).is = "comb"
                             THEN Emit(b, RawMatches(tok.of))
                             ELSE [b EXCEPT !.css = @ \o tok.of],
    [steps |-> <<>>, css |-> <<>>], toks)).steps

Plan(toks) == IF toks[1].is = "comb" THEN RelativePlan(toks) ELSE DefaultPlan(toks)

\* The selectors of an argument are parsed with the rule.
RECURSIVE ParseSelectorList(_, _)
ParseSelectorList(native, list) ==
  [i \in DOMAIN list |->
     LET steps == Plan(ParseTokens(native, list[i])) IN
     [k \in DOMAIN steps |->
        IF steps[k].is \in Nesting THEN Item(steps[k].is, ParseSelectorList(native, steps[k].of))
                                   ELSE steps[k]]]

\* The parser refuses the rule: a dangling combinator, a bad argument.
RECURSIVE Refused(_, _)
Refused(native, list) ==
  \E i \in DOMAIN list : LET toks == ParseTokens(native, list[i]) IN
    \/ Dangling(toks)
    \/ \E k \in DOMAIN toks :
         \/ toks[k].is \in Nesting /\ Refused(native, toks[k].of)
         \/ toks[k].is = "min-text-length" /\ toks[k].of < 1
         \/ toks[k].is = "upward" /\ toks[k].of \notin 1 .. 255

-----------------------------------------------------------------------------
\* Running the steps: from elements to elements.

\* An exception, in place of the elements.
Thrown == {0}

\* Every selector's steps from the same elements; one that throws takes the
\* others with it, unless the list is forgiving.
RECURSIVE Match(_, _, _, _)

RunStep(doc, step, input) ==
  LET Browser(e, d) == Means(doc, step.of, e, d)
      Within(e) == Match(doc, step.of, {e}, FALSE)
      Listed(forgiving) == Match(doc, step.of, {Html}, forgiving)
      Invalid == /\ step.is \in {"query", "matches"}
                 /\ \E k \in DOMAIN step.of : step.of[k].is = "unknown"
  IN CASE Invalid -> Thrown
       [] ~Invalid /\ step.is = "query" -> UNION {{d \in Descendants(doc, e) : Browser(e, d)} : e \in input}
       [] ~Invalid /\ step.is = "matches" -> {e \in input : Browser(e, e)}
       [] step.is = "comb" -> UNION {Reached(doc, step.of, e) : e \in input}
       [] step.is = "upward" -> UNION {Above(doc, e, step.of) : e \in input}
       [] step.is = "has" -> IF \E e \in input : Within(e) = Thrown THEN Thrown
                             ELSE {e \in input : Within(e) # {}}
       [] step.is = "is" -> input \intersect Listed(TRUE)
       [] step.is = "not" -> IF Listed(FALSE) = Thrown THEN Thrown ELSE input \ Listed(FALSE)
       [] OTHER -> {e \in input : PassesFilter(doc, step, e)}

\* A selector ends early when it has no elements left.
RunSteps(doc, steps, input) ==
  FoldLeft(LAMBDA els, step : IF els \in {{}, Thrown} THEN els ELSE RunStep(doc, step, els),
           input, steps)

Match(doc, query, input, forgiving) ==
  LET found == {RunSteps(doc, query[i], input) : i \in DOMAIN query} IN
  IF Thrown \in found /\ ~forgiving THEN Thrown ELSE UNION (found \ {Thrown})

\* A rule's query, asked of <html>.
SearchDocument(doc, query) == Match(doc, query, {Html}, FALSE)

-----------------------------------------------------------------------------
\* The selectors on which the steps are meant to agree with the meaning.

Combines(tok, ops) == tok.is = "comb" /\ tok.of \in ops

\* A run of the browser's items after a pseudo-class of the library is asked of
\* the elements found so far: without a combinator it means their descendants,
\* and a longer run may find its first part outside of them.
ReachesOut(toks) ==
  \E i, k \in DOMAIN toks :
    /\ toks[i].is \in ExtPseudoClasses /\ i < k
    /\ \/ k = i + 1 /\ toks[k].is = "raw"
       \/ /\ k > i + 2 /\ toks[k].is = "raw" /\ Combines(toks[k - 1], {" ", ">"})
          /\ \A j \in (i + 1) .. k : toks[j].is \in {"comb", "raw"}
          /\ Combines(toks[i + 1], {" "})

\* In :has() a longer run is asked of the element, with the same effect; and
\* :matches-path() before anything else passes <html> on.
RECURSIVE Canonical(_, _, _)
Canonical(native, list, nested) ==
  \A i \in DOMAIN list : LET toks == ParseTokens(native, list[i]) IN
    /\ ~ReachesOut(toks)
    /\ toks[1].is = "matches-path" => Len(toks) > 1 /\ Combines(toks[2], {" "})
    /\ nested => \A k \in 2 .. Len(toks) :
                   Combines(toks[k], {" ", ">"}) => toks[1].is = "comb"
    /\ \A k \in DOMAIN toks :
         toks[k].is \in Nesting => Canonical(native, toks[k].of, toks[k].is = "has")

\* What the steps planned for a selector find is what the selector means, on
\* any document and whatever the browser evaluates itself.
Agrees(doc, native, list) ==
  Canonical(native, list, FALSE) /\ ~Refused(native, list)
    => Match(doc, ParseSelectorList(native, list), {Html}, FALSE) = Meaning(doc, list)

=============================================================================
