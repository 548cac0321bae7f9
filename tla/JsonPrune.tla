----------------------------- MODULE JsonPrune -----------------------------
(***************************************************************************)
(* jslibs/scriptlets/src/helpers/jsonPrune.ts: removing properties from a  *)
(* value.  A path is a sequence of names, of "*" for any way down of one   *)
(* level or more, and of "[]" for the elements of an array.                *)
(***************************************************************************)
EXTENDS JsonValues, Naturals, SequencesExt, Functions

\* Faulty: what an earlier level has pruned is forgotten for the level below.
RECURSIVE ShallowPath(_, _)
ShallowPath(v, path) ==
  IF path = <<>> \/ ~Nested(v) THEN v
  ELSE IF Head(path) = "*" THEN
    [v EXCEPT !.of = [k \in DOMAIN @ |-> ShallowPath(@[k], Tail(path))]]
  ELSE IF Head(path) = "[]" THEN
    IF v.is = "array" THEN [v EXCEPT !.of = [k \in DOMAIN @ |-> ShallowPath(@[k], Tail(path))]] ELSE v
  ELSE IF Head(path) \notin DOMAIN v.of THEN v
  ELSE IF Len(path) = 1 THEN [v EXCEPT !.of = Restrict(@, DOMAIN @ \ {Head(path)})]
  ELSE [v EXCEPT !.of[Head(path)] = ShallowPath(@, Tail(path))]

\* Only a path that ends in a name removes anything.
RECURSIVE PrunePath(_, _)
PrunePath(v, path) ==
  IF path = <<>> \/ ~Nested(v) THEN v
  ELSE IF Head(path) = "*" THEN
    [v EXCEPT !.of = [k \in DOMAIN @ |-> PrunePath(PrunePath(@[k], path), Tail(path))]]
  ELSE IF Head(path) = "[]" THEN
    IF v.is = "array" THEN [v EXCEPT !.of = [k \in DOMAIN @ |-> PrunePath(@[k], Tail(path))]] ELSE v
  ELSE IF Head(path) \notin DOMAIN v.of THEN v
  ELSE IF Len(path) = 1 THEN [v EXCEPT !.of = Restrict(@, DOMAIN @ \ {Head(path)})]
  ELSE [v EXCEPT !.of[Head(path)] = PrunePath(@, Tail(path))]

\* null is never found, not even at the end of the path.
RECURSIVE MatchesPath(_, _)
MatchesPath(v, path) ==
  IF v.is = "null" THEN FALSE
  ELSE IF path = <<>> THEN TRUE
  ELSE IF ~Nested(v) THEN FALSE
  ELSE IF Head(path) = "*" THEN
    \E k \in DOMAIN v.of : /\ Nested(v.of[k])
                           /\ MatchesPath(v.of[k], path) \/ MatchesPath(v.of[k], Tail(path))
  ELSE IF Head(path) = "[]" THEN
    v.is = "array" /\ \E k \in DOMAIN v.of : MatchesPath(v.of[k], Tail(path))
  ELSE Head(path) \in DOMAIN v.of /\ MatchesPath(v.of[Head(path)], Tail(path))

\* One of the required properties is enough; the paths are pruned in turn.
Prune(v, remove, required) ==
  IF Nested(v) /\ (required = {} \/ \E path \in required : MatchesPath(v, path))
  THEN FoldLeft(PrunePath, v, remove) ELSE v

-----------------------------------------------------------------------------
\* What a path names, without walking: the keys from the value to a property.

RECURSIVE Places(_)
Places(v) ==
  {<<>>} \union
  (IF Nested(v)
   THEN UNION {{<<[key |-> k, within |-> v.is, found |-> v.of[k].is]>> \o p : p \in Places(v.of[k])} :
                k \in DOMAIN v.of}
   ELSE {})

RECURSIVE NamesPlace(_, _)
NamesPlace(path, place) ==
  IF path = <<>> \/ place = <<>> THEN path = place
  ELSE \/ Head(path) = "*" /\ (NamesPlace(path, Tail(place)) \/ NamesPlace(Tail(path), Tail(place)))
       \/ Head(path) = "[]" /\ Head(place).within = "array" /\ NamesPlace(Tail(path), Tail(place))
       \/ /\ Head(path) \notin {"*", "[]"} /\ Head(place).key = Head(path)
          /\ NamesPlace(Tail(path), Tail(place))

\* A path removes the properties it names with all below them, and no others.
RemovesExactly(v, path) ==
  Places(PrunePath(v, path)) =
    {p \in Places(v) : Last(path) \in {"*", "[]"} \/ \A q \in Prefixes(p) : ~NamesPlace(path, q)}

\* A required path is found where it names something other than null.
MatchesExactly(v, path) ==
  Last(path) = "*" \/ MatchesPath(v, path) =
    \E p \in Places(v) : p # <<>> /\ NamesPlace(path, p) /\ Last(p).found # "null"

=============================================================================
