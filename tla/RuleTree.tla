------------------------------ MODULE RuleTree ------------------------------
(***************************************************************************)
(* internal/ruletree: the prefix tree of adblock-style patterns, and what  *)
(* a pattern means.  An address and a pattern are sequences of characters; *)
(* in a pattern "*", "^", "|" and "||" are the special tokens.  A node is  *)
(* [prefix, leaf, edges]: the tokens between its parent and itself, the    *)
(* values of the patterns that end at it, and its children by their first  *)
(* token.  The tree is a value: the one that inserts holds insertMu.       *)
(***************************************************************************)
EXTENDS Naturals, SequencesExt

Special == {"*", "^", "|"}

\* The literal '*' of an address is left out: as a token it is the wildcard.
Separators == {"~", ":", "/", "?", "#", "[", "]", "@", "!", "$", "&", "'", "(",
               ")", "+", ",", ";", "="}
TraversalMarkers == Separators \union {"-", ".", "_", "%"}

From(seq, i) == SubSeq(seq, i, Len(seq))

-----------------------------------------------------------------------------
\* Building the tree.

Node(prefix, leaf) == [prefix |-> prefix, leaf |-> leaf, edges |-> <<>>]

NewTree == [root |-> Node(<<>>, {}), domain |-> Node(<<>>, {}), anchor |-> Node(<<>>, {})]

AddEdge(node, child) == [node EXCEPT !.edges = (Head(child.prefix) :> child) @@ @]

CommonPrefix(a, b) == Len(LongestCommonPrefix({a, b}))

\* Faulty: the node that is split is not put below the new one.
LosingSplit(child, tokens, k, v) ==
  LET fork == Node(SubSeq(tokens, 1, k), {}) IN
  IF k = Len(tokens) THEN [fork EXCEPT !.leaf = {v}]
                     ELSE AddEdge(fork, Node(From(tokens, k + 1), {v}))

\* A node for the first k tokens of the pattern takes the place of child.
Split(child, tokens, k, v) ==
  LET rest == [child EXCEPT !.prefix = From(@, k + 1)]
      fork == AddEdge(Node(SubSeq(tokens, 1, k), {}), rest) IN
  IF k = Len(tokens) THEN [fork EXCEPT !.leaf = {v}]
                     ELSE AddEdge(fork, Node(From(tokens, k + 1), {v}))

RECURSIVE InsertBelow(_, _, _)
InsertBelow(node, tokens, v) ==
  IF tokens = <<>> THEN [node EXCEPT !.leaf = @ \union {v}]
  ELSE IF Head(tokens) \notin DOMAIN node.edges THEN AddEdge(node, Node(tokens, {v}))
  ELSE LET child == node.edges[Head(tokens)]
           k == CommonPrefix(tokens, child.prefix) IN
       AddEdge(node, IF k < Len(child.prefix) THEN Split(child, tokens, k, v)
                     ELSE InsertBelow(child, From(tokens, k + 1), v))

\* A run of "*" is one token.
Tokenize(pattern) ==
  FoldLeft(LAMBDA tokens, t :
             IF t = "*" /\ tokens # <<>> /\ Last(tokens) = "*" THEN tokens
                                                              ELSE Append(tokens, t),
           <<>>, pattern)

\* A pattern with "||" anywhere but at its start is dropped.
Insert(tree, pattern, v) ==
  LET tokens == Tokenize(pattern) IN
  IF tokens = <<>> \/ \E i \in 2 .. Len(tokens) : tokens[i] = "||" THEN tree
  ELSE CASE Head(tokens) = "||" -> [tree EXCEPT !.domain = InsertBelow(@, Tail(tokens), v)]
         [] Head(tokens) = "|" -> [tree EXCEPT !.anchor = InsertBelow(@, Tail(tokens), v)]
         [] OTHER -> [tree EXCEPT !.root = InsertBelow(@, tokens, v)]

-----------------------------------------------------------------------------
\* Looking an address up.

RECURSIVE TraversePrefix(_, _, _)

Traverse(node, url) == TraversePrefix(node, node.prefix, url)

\* The children that url may continue with; at its end, the special ones.
TraverseEdges(node, url) ==
  LET next == IF url = <<>> THEN Special
              ELSE {Head(url), "*"} \union (IF Head(url) \in Separators THEN {"^"} ELSE {}) IN
  UNION {Traverse(node.edges[t], url) : t \in next \intersect DOMAIN node.edges}

\* A wildcard at the end of a prefix: the children at every position.
TraverseWildcardTail(node, url) ==
  node.leaf \union UNION {TraverseEdges(node, rest) : rest \in Suffixes(url)}

StartsWith(token, rest) ==
  Head(rest) = token \/ (token = "^" /\ Head(rest) \in Separators)

\* After a wildcard: the rests of url that begin with what the token stands for.
Resumptions(token, url) ==
  {rest \in Suffixes(url) \ {<<>>} : StartsWith(token, rest)}

\* "^" takes one separator, or all that follow one another.
AfterSeparators(url) ==
  {Tail(url), From(url, 1 + Max({i \in 0 .. Len(url) :
                                   \A j \in 1 .. i : url[j] \in Separators}))}

\* The values at and below node for an address, prefix being what is left to
\* match of the node's own.
TraversePrefix(node, prefix, url) ==
  IF prefix = <<>> THEN node.leaf \union TraverseEdges(node, url)
  ELSE IF url = <<>> THEN IF Len(prefix) = 1 /\ Head(prefix) \in Special THEN node.leaf ELSE {}
  ELSE
    LET token == Head(prefix)
        left == Tail(prefix)
        rests == CASE token = "*" ->
                        IF left # <<>> /\ Head(left) # "|" THEN Resumptions(Head(left), url)
                                                           ELSE {<<>>}
                   [] token = "^" /\ Head(url) \in Separators -> AfterSeparators(url)
                   [] token = Head(url) -> {Tail(url)}
                   [] OTHER -> {} IN
    IF prefix = <<"*">> THEN TraverseWildcardTail(node, url)
    ELSE UNION {TraversePrefix(node, left, rest) : rest \in rests}

HostStart(url) == 3 + Min({i \in 1 .. Len(url) - 2 : SubSeq(url, i, i + 2) = <<":", "/", "/">>})

HostEnd(url) ==
  Min({Len(url) + 1} \union {i \in HostStart(url) .. Len(url) : url[i] \in {"/", "?"}})

\* Where a "||" pattern may start: at the host and after each of its dots.
DomainStarts(url) ==
  {HostStart(url)} \union
  {i + 1 : i \in {j \in HostStart(url) + 1 .. HostEnd(url) - 1 : url[j] = "."}}

\* Where any other may: at the scheme, at a marker, and after one.
RootStarts(url) ==
  {1} \union {i \in 2 .. Len(url) :
                url[i] \in TraversalMarkers \/ (i > 2 /\ url[i - 1] \in TraversalMarkers)}

Get(tree, url) ==
  Traverse(tree.anchor, url)
    \union UNION {Traverse(tree.root, From(url, i)) : i \in RootStarts(url)}
    \union UNION {Traverse(tree.domain, From(url, i)) : i \in DomainStarts(url)}

-----------------------------------------------------------------------------
\* What a pattern means (comments on the tokens), whatever else is in a tree:
\* the numbers of characters that may have been read after each token.

IsRun(url, m, n) == m < n /\ \A i \in m + 1 .. n : url[i] \in Separators

Read(token, read, url) ==
  LET positions == 0 .. Len(url) IN
  CASE token = "*" -> {n \in positions : \E m \in read : m <= n}
    [] token = "^" -> (read \intersect {Len(url)}) \union
         {n \in positions : \E m \in read : IsRun(url, m, n) /\
                              (n = m + 1 \/ n = Len(url) \/ ~IsRun(url, n, n + 1))}
    [] token = "|" -> read \intersect {Len(url)}
    [] OTHER -> {n \in positions \ {0} : n - 1 \in read /\ url[n] = token}

Means(pattern, url) ==
  LET starts == CASE Head(pattern) = "||" -> DomainStarts(url)
                  [] Head(pattern) = "|" -> {1}
                  [] OTHER -> RootStarts(url)
      tokens == IF Head(pattern) \in {"||", "|"} THEN Tail(pattern) ELSE pattern IN
  FoldLeft(LAMBDA read, token : Read(token, read, url), {i - 1 : i \in starts}, tokens) # {}
=============================================================================
