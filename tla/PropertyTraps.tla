---------------------------- MODULE PropertyTraps ----------------------------
(***************************************************************************)
(* The scriptlets of jslibs/scriptlets that trap a property of the window, *)
(* named by a path of properties: abort-on-property-read and -write,       *)
(* abort-current-inline-script, abort-on-stack-trace (helpers/             *)
(* defineProxyChain.ts) and set-constant.  A page runs several of them,    *)
(* one after the other, before its own scripts.                            *)
(*                                                                         *)
(* A value is [at, layers]: an object or a primitive, behind the proxies   *)
(* that it was handed out with, the innermost first.  A property is [has,  *)
(* value, traps]: its accessors, the innermost first, over a value.  A     *)
(* trap or a proxy is [by, chain]: the scriptlet, and the names that it    *)
(* still waits for below (none at the end of the path).  Proxies of one    *)
(* object for one chain are not told apart, and undefined is also null.    *)
(***************************************************************************)
EXTENDS Naturals, SequencesExt, FiniteSets

CONSTANTS
  Keys,       \* names of properties
  Pages,      \* the heaps that a page may start with
  Given,    \* the scriptlets that it may be given: sequences of [name, path]
  MaxWrites   \* bound: the assignments of its scripts

ASSUME TrapAssumption == MaxWrites \in Nat

VARIABLES
  scriptlets,  \* [name, path, at, depth]: the object and the name on the path that it trapped
  fake,        \* the value of set-constant
  heap,        \* [object -> [Keys -> property]]
  plain,       \* history: the heap of the same page without scriptlets
  writes       \* counter, bounded by MaxWrites

trapVars == <<scriptlets, fake, heap, plain, writes>>

Value(at) == [at |-> at, layers |-> <<>>]
Undefined == Value("undefined")
Number == Value("number")
Aborted == Value("aborted")
Window == Value("window")

Objects == {"window", "o", "p", "fakeObject"}
IsObject(v) == v.at \in Objects

Absent == [has |-> FALSE, value |-> Undefined, traps |-> <<>>]
Data(v) == [has |-> TRUE, value |-> v, traps |-> <<>>]
Trap(s, chain) == [by |-> s, chain |-> chain]

\* What the arguments of set-constant may stand for: its constants are
\* primitives or, with most of the wrappers, objects.
FakeValues == {Value("fake"), Value("fakeObject")}

IsConstant(s) == scriptlets[s].name \in {"set-constant", "set-constant with a stack"}

\* Does s act on a get or a set?  M: those that look for what now runs.
Armed(s, act, M) ==
  CASE scriptlets[s].name \in {"abort-on-property-read", "set-constant"} -> act = "get"
    [] scriptlets[s].name = "abort-on-property-write" -> act = "set"
    [] scriptlets[s].name = "set-constant with a stack" -> act = "get" /\ s \in M
    [] OTHER -> s \in M

-----------------------------------------------------------------------------
\* Reading.

\* Only the window of the model inherits, from an object that nobody writes.
Descriptor(h, o, n) ==
  IF o = "window" /\ ~h[o][n].has THEN h["prototype"][n] ELSE h[o][n]

Yield(s) == IF IsConstant(s) THEN fake ELSE Aborted

\* set-constant leaves a value alone when the stack does not match.
Wrapped(v, s, chain, M) ==
  IF IsObject(v) /\ chain # <<>> /\ (IsConstant(s) => Armed(s, "get", M))
  THEN [v EXCEPT !.layers = Append(@, Trap(s, chain))] ELSE v

\* The getters; that of a deferred trap hands its value out behind a proxy.
RECURSIVE Getter(_, _, _)
Getter(traps, value, M) ==
  IF traps = <<>> THEN value
  ELSE LET t == Last(traps)
           below == Getter(Front(traps), value, M)
       IN IF t.chain # <<>> THEN Wrapped(below, t.by, t.chain, M)
          ELSE IF Armed(t.by, "get", M) THEN Yield(t.by) ELSE below

\* Faulty: a proxy below the first waits for the same names again.
StuckBelow(v, l, n, M) ==
  IF l.chain = <<n>> /\ Armed(l.by, "get", M) THEN Aborted
  ELSE IF Head(l.chain) = n THEN Wrapped(v, l.by, l.chain, M) ELSE v

\* What a proxy hands out when it is asked for a name on its chain.
Below(v, l, n, M) ==
  IF l.chain = <<n>> /\ Armed(l.by, "get", M) THEN Aborted
  ELSE IF Head(l.chain) = n THEN Wrapped(v, l.by, Tail(l.chain), M) ELSE v

\* The outermost proxy decides; at the end of its chain set-constant asks no other.
RECURSIVE Get(_, _, _, _)
Get(h, v, n, M) ==
  IF v = Aborted THEN v
  ELSE IF ~IsObject(v) THEN Undefined
  ELSE IF v.layers = <<>> THEN LET d == Descriptor(h, v.at, n) IN Getter(d.traps, d.value, M)
  ELSE LET l == Last(v.layers)
           below == Get(h, [v EXCEPT !.layers = Front(@)], n, M)
       IN IF IsConstant(l.by) /\ l.chain = <<n>> THEN fake
          ELSE IF below = Aborted THEN below ELSE Below(below, l, n, M)

Read(h, path, M) == FoldLeft(LAMBDA v, n : Get(h, v, n, M), Window, path)

-----------------------------------------------------------------------------
\* Writing.

\* The setters of the proxies and of the property itself.
SetAborts(h, v, n, M) ==
  \E t \in ToSet(v.layers) \union ToSet(h[v.at][n].traps) :
    t.chain \in {<<>>, <<n>>} /\ ~IsConstant(t.by) /\ Armed(t.by, "set", M)

\* Accessors keep the value; without them an own property is made.
Put(h, v, n, x) == [h EXCEPT ![v.at][n].has = TRUE, ![v.at][n].value = x]

-----------------------------------------------------------------------------
\* Installing, with nothing running that a scriptlet looks for.

Base(h, path, i) == Read(h, SubSeq(path, 1, i - 1), {})
Rest(path, i) == SubSeq(path, i + 1, Len(path))

\* Over an accessor the new one asks it; otherwise it keeps a value of its own.
AddTrap(h, o, n, local, t) ==
  [h EXCEPT ![o][n] = [has |-> TRUE, value |-> IF @.traps = <<>> THEN local ELSE @.value,
                       traps |-> Append(@.traps, t)]]

Installed(h, s, i, o, local) ==
  [heap |-> AddTrap(h, o, scriptlets[s].path[i], local, Trap(s, Rest(scriptlets[s].path, i))),
   at |-> o, depth |-> i]
NotInstalled(h) == [heap |-> h, at |-> "", depth |-> 0]

\* Faulty: what the object inherits is not looked up.
OwnValue(h, o, n) == h[o][n].value

\* The value that a trap at the end of the path starts with.
Captured(h, o, n) == Descriptor(h, o, n).value

\* The path is followed while its names are there and lead to objects.
DefineProxyChain(h, s) ==
  LET path == scriptlets[s].path
      Has(i) == Descriptor(h, Base(h, path, i).at, path[i]).has
      Stops(i) == i = Len(path) \/ ~Has(i) \/ ~IsObject(Base(h, path, i + 1))
      i == CHOOSE k \in DOMAIN path : Stops(k) /\ \A j \in 1 .. k - 1 : ~Stops(j)
      o == Base(h, path, i).at
  IN IF i = Len(path) THEN Installed(h, s, i, o, Captured(h, o, path[i]))
     ELSE IF ~Has(i) THEN Installed(h, s, i, o, Undefined)
     ELSE NotInstalled(h)

\* A property without a value is trapped at the level above.  What throws on
\* the way, a trap of another scriptlet or a primitive, ends the scriptlet.
SetConstant(h, s) ==
  LET path == scriptlets[s].path
      last == Len(path)
      Stops(i) == i = last \/ Base(h, path, i) = Undefined \/ Base(h, path, i + 1) = Undefined
      i == IF last = 1 THEN 1
           ELSE CHOOSE k \in 2 .. last : Stops(k) /\ \A j \in 2 .. k - 1 : ~Stops(j)
      k == IF Base(h, path, i) # Undefined /\ i = last THEN i ELSE i - 1
      local == Base(h, path, k + 1)
      o == Base(h, path, k).at
  IN IF local = Aborted \/ ~IsObject(Base(h, path, k)) THEN NotInstalled(h)
     ELSE Installed(h, s, k, o, local)

Install(h, s) == IF IsConstant(s) THEN SetConstant(h, s) ELSE DefineProxyChain(h, s)

-----------------------------------------------------------------------------

\* The scriptlets are run in turn when the page is loaded.
TrapsInit ==
  /\ \E chosen \in Given :
       scriptlets = [s \in DOMAIN chosen |-> [name |-> chosen[s].name, path |-> chosen[s].path,
                                              at |-> "pending", depth |-> 0]]
  /\ fake \in IF \E s \in DOMAIN scriptlets : IsConstant(s) THEN FakeValues ELSE {Value("fake")}
  /\ heap \in Pages /\ plain = heap
  /\ writes = 0

Pending(s) == scriptlets[s].at = "pending"

RunScriptlet ==
  \E s \in DOMAIN scriptlets :
    /\ Pending(s) /\ \A r \in 1 .. s - 1 : ~Pending(r)
    /\ \E done \in {Install(heap, s)} :
         /\ heap' = done.heap
         /\ scriptlets' = [scriptlets EXCEPT ![s].at = done.at, ![s].depth = done.depth]
    /\ UNCHANGED <<fake, plain, writes>>

Ready == \A s \in DOMAIN scriptlets : ~Pending(s)

Paths == UNION {[1 .. k -> Keys] : k \in 0 .. 3}
Honest(v) == v # Aborted /\ v.at # fake.at

\* A script assigns to a property an object, a primitive or what it reads from
\* another; an abort ends it.  M: the scriptlets that look for the script.
Assign(base, n, path, x, M) ==
  LET to == Read(heap, base, M)
      value == IF path = <<>> THEN x ELSE Read(heap, path, M) IN
  /\ Ready /\ writes < MaxWrites
  /\ IsObject(to) /\ Honest(to) /\ Honest(value)
  /\ writes' = writes + 1
  /\ IF SetAborts(heap, to, n, M) THEN UNCHANGED <<heap, plain>>
     ELSE /\ heap' = Put(heap, to, n, value)
          /\ plain' = Put(plain, Read(plain, base, {}), n, IF path = <<>> THEN x ELSE Read(plain, path, {}))
  /\ UNCHANGED <<scriptlets, fake>>

PageScript ==
  \E base \in {q \in Paths : Len(q) < 3}, n \in Keys, path \in {q \in Paths : Len(q) < 2},
     x \in {Undefined, Number, Value("o"), Value("p")}, M \in SUBSET DOMAIN scriptlets :
       (path # <<>> => x = Undefined) /\ Assign(base, n, path, x, M)

TrapsNext == RunScriptlet \/ PageScript

-----------------------------------------------------------------------------
\* Properties.

\* The object that s trapped is still what its path leads to.
StillReached(s, M) ==
  LET t == scriptlets[s] IN
  t.at # "" /\ Read(heap, SubSeq(t.path, 1, t.depth - 1), M).at = t.at

\* The way down the path ends early: at a primitive, or where a constant is read.
EndsEarly(s, M) ==
  \E k \in 1 .. Len(scriptlets[s].path) - 1 :
    LET v == Read(heap, SubSeq(scriptlets[s].path, 1, k), M) IN ~IsObject(v) \/ v.at = fake.at

AllOf == DOMAIN scriptlets

\* As long as the object that was trapped is where it was, whatever a page has
\* assigned below it, a script that a scriptlet is for does not come to the end
\* of the path: it is aborted, or reads the constant of set-constant.
ChainTrapped ==
  Ready => \A s \in AllOf :
    StillReached(s, AllOf) /\ ~EndsEarly(s, AllOf) =>
      LET path == scriptlets[s].path
          to == Read(heap, Front(path), AllOf) IN
      /\ Armed(s, "get", AllOf) => ~Honest(Read(heap, path, AllOf))
      /\ Armed(s, "set", AllOf) => SetAborts(heap, to, Last(path), AllOf)

\* Every other read of a page, through whatever traps and proxies, finds what
\* it would find without the scriptlets: none loses an assignment or serves an
\* old value.
Undisturbed ==
  Ready => \A path \in Paths :
    (\A k \in 0 .. Len(path) : Honest(Read(heap, SubSeq(path, 1, k), {})))
      => Read(heap, path, {}).at = Read(plain, path, {}).at

=============================================================================
